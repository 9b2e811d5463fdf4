--------------------------- MODULE ModelTurnQueue ---------------------------
(***************************************************************************)
(* The installation's admission queue for model turns                      *)
(* (src/src/runtime/model-turn-queue.ts) and the runners that use it       *)
(* (src/src/runtime/worker-codex-turn.ts), seen through the receipt of     *)
(* each turn: "work" says whether the turn has model work the server has   *)
(* not seen end.  The queue file survives crashes; runners do not.         *)
(* TurnRunner gives the runners in full.                                   *)
(*                                                                         *)
(* Every update of queue.json runs under the lock "model-turn-queue"       *)
(* (ResourceLock), so that one locked update is one step.                  *)
(***************************************************************************)
EXTENDS ModelTickets

CONSTANTS Turns,       \* the turns that ask for admission
          Legacy,      \* turns dispatched before the queue existed
          MaxRunners,  \* bound: runners each turn may have, one after the other
          MaxMishaps   \* bound: polls no runner may rely on, missed heartbeats

ASSUME TurnsAssumption ==
  /\ IsFiniteSet(Turns)
  /\ Legacy \subseteq Turns
  /\ MaxRunners \in [Turns -> Nat \ {0}]
  /\ MaxMishaps \in Nat

VARIABLES tickets,  \* the queue file
          runner,   \* what the current runner of each turn is doing
          round,    \* how many runners each turn has had: the owner's name
          ghosts,   \* runners that lost the lease and have not returned
          work,     \* "open" while model work may go on, by the turn's receipt
          doubts,   \* polls so far that failed after their write, or that a
                    \* runner made without the lease
          lapses    \* heartbeats that live waiting runners missed so far

vars == <<tickets, runner, round, ghosts, work, doubts, lapses>>

Stages == {"idle", "polling", "admitted", "working", "ended"}

Init == /\ tickets = << >>
        /\ runner = [k \in Turns |-> "idle"]
        /\ round = [k \in Turns |-> 0]
        /\ ghosts = {}
        /\ work = [k \in Turns |-> IF k \in Legacy THEN "open" ELSE "none"]
        /\ doubts = 0
        /\ lapses = 0

Recovering(k) == work[k] = "open"

Become(k, s) == runner' = [runner EXCEPT ![k] = s]

----------------------------------------------------------------------------
(* Acquiring an admission.                                                 *)

\* A runner opens the turn's receipt and calls acquire with a fresh owner.
Begin(k) ==
  /\ runner[k] = "idle"
  /\ round[k] < MaxRunners[k]
  /\ Become(k, "polling")
  /\ round' = [round EXCEPT ![k] = @ + 1]
  /\ UNCHANGED <<tickets, ghosts, work, doubts, lapses>>

PollQueue(k) ==
  /\ runner[k] = "polling"
  /\ ~Refused(tickets, k, Recovering(k))
  /\ tickets' = Poll(tickets, k, round[k], Recovering(k))
  /\ Become(k, IF HoldsSlot(tickets', k) THEN "admitted" ELSE "polling")
  /\ UNCHANGED <<round, ghosts, work, doubts, lapses>>

\* acquire ends with an error: a full waiting room, the waiting limit, a Stop.
\* Its catch drops the owner's ticket.
GiveUp(k) ==
  /\ runner[k] = "polling"
  /\ round[k] < MaxRunners[k] \/ ~HoldsSlot(tickets, k)
  /\ tickets' = Released(tickets, k, round[k])
  /\ Become(k, "idle")
  /\ UNCHANGED <<round, ghosts, work, doubts, lapses>>

\* The poll reached the disk, but its acknowledgement (the directory's fsync,
\* the lock's release) failed: acquire's catch undoes what the poll wrote.
TornPoll(k) ==
  /\ doubts + lapses < MaxMishaps
  /\ runner[k] = "polling"
  /\ ~Refused(tickets, k, Recovering(k))
  /\ tickets' = Released(Poll(tickets, k, round[k], Recovering(k)), k, round[k])
  /\ Become(k, "idle")
  /\ doubts' = doubts + 1
  /\ UNCHANGED <<round, ghosts, work, lapses>>

----------------------------------------------------------------------------
(* Using the admission.                                                    *)

\* The receipt's write-ahead intent: from here on there may be model work.
Dispatch(k) ==
  /\ runner[k] = "admitted"
  /\ work' = [work EXCEPT ![k] = "open"]
  /\ Become(k, "working")
  /\ UNCHANGED <<tickets, round, ghosts, doubts, lapses>>

\* A terminal state or an interruption is confirmed.
Confirm(k) ==
  /\ runner[k] = "working"
  /\ work' = [work EXCEPT ![k] = "none"]
  /\ Become(k, "ended")
  /\ UNCHANGED <<tickets, round, ghosts, doubts, lapses>>

\* The runner's finally block when no model work is pending: the ticket goes.
Return(k) ==
  /\ runner[k] \in {"admitted", "ended"}
  /\ ~Recovering(k)
  /\ tickets' = Released(tickets, k, round[k])
  /\ Become(k, "idle")
  /\ UNCHANGED <<round, ghosts, work, doubts, lapses>>

\* The outcome stays unknown: the ticket is kept for whoever reattaches.
ReturnPending(k) ==
  /\ runner[k] \in {"admitted", "working"}
  /\ Recovering(k)
  /\ round[k] < MaxRunners[k]
  /\ Become(k, "idle")
  /\ UNCHANGED <<tickets, round, ghosts, work, doubts, lapses>>

----------------------------------------------------------------------------
(* Failures and time.                                                      *)

Crash(k) ==
  /\ runner[k] # "idle"
  /\ round[k] < MaxRunners[k]
  /\ Become(k, "idle")
  /\ UNCHANGED <<tickets, round, ghosts, work, doubts, lapses>>

\* A runner that stands still loses the receipt's lease, and a successor may
\* start.  It has dispatched nothing and, without the lease, never will.
Fence(k) ==
  /\ runner[k] \in {"polling", "admitted"}
  /\ ~Recovering(k)
  /\ round[k] < MaxRunners[k]
  /\ Become(k, "idle")
  /\ ghosts' = ghosts \union {[turn |-> k, owner |-> round[k], at |-> runner[k]]}
  /\ UNCHANGED <<tickets, round, work, doubts, lapses>>

\* It wakes up inside acquire and polls once more.
GhostPoll(g) ==
  /\ g \in ghosts
  /\ g.at = "polling"
  /\ doubts + lapses < MaxMishaps
  /\ doubts' = doubts + 1
  /\ ~Refused(tickets, g.turn, FALSE)
  /\ tickets' = Poll(tickets, g.turn, g.owner, FALSE)
  /\ ghosts' = (ghosts \ {g}) \union
       {[g EXCEPT !.at = IF HoldsSlot(tickets', g.turn) THEN "admitted" ELSE "polling"]}
  /\ UNCHANGED <<runner, round, work, lapses>>

\* It finds the lease gone and completes the admission it believes it holds.
GhostReturns(g) ==
  /\ g \in ghosts
  /\ tickets' = Released(tickets, g.turn, g.owner)
  /\ ghosts' = ghosts \ {g}
  /\ UNCHANGED <<runner, round, work, doubts, lapses>>

\* No live runner refreshes the ticket: it is admitted already, or its runner died.
Orphaned(i) == tickets[i].state = "running" \/ runner[tickets[i].key] # "polling"

\* staleWaitingMs pass without a heartbeat.
GoesStale(i) ==
  /\ tickets[i].stale = "no"
  /\ tickets' = [tickets EXCEPT ![i].stale = "yes"]
  /\ lapses' = IF Orphaned(i) THEN lapses ELSE lapses + 1
  /\ doubts + lapses' <= MaxMishaps
  /\ UNCHANGED <<runner, round, ghosts, work, doubts>>

Next == \/ \E k \in Turns : \/ Begin(k) \/ PollQueue(k) \/ GiveUp(k) \/ TornPoll(k)
                            \/ Dispatch(k) \/ Confirm(k) \/ Return(k) \/ ReturnPending(k)
                            \/ Crash(k) \/ Fence(k)
        \/ \E g \in ghosts : GhostPoll(g) \/ GhostReturns(g)
        \/ \E i \in DOMAIN tickets : GoesStale(i)

Spec == Init /\ [][Next]_vars

\* What the code's scheduling gives: a live runner keeps polling, a turn that
\* was dispatched ends and its runner returns, and a conversation that holds a
\* slot is reopened.
Proceeds(k) ==
  \/ PollQueue(k) \/ Dispatch(k) \/ Confirm(k)
  \/ runner[k] = "ended" /\ Return(k)
  \/ HoldsSlot(tickets, k) /\ Begin(k)

\* A ticket nobody refreshes does go stale.
Ages(k) == \E i \in DOMAIN tickets : tickets[i].key = k /\ Orphaned(i) /\ GoesStale(i)

Fairness == /\ \A k \in Turns : WF_vars(Proceeds(k)) /\ WF_vars(Ages(k))
            /\ WF_vars(\E g \in ghosts : GhostReturns(g))

LiveSpec == Spec /\ Fairness

----------------------------------------------------------------------------
(* Properties.                                                             *)

Owners == UNION {0..MaxRunners[k] : k \in Turns}

\* The type invariant, with the rule that change() makes of the file: it rejects a
\* state with two tickets of one key, and with it every later turn of the
\* installation.
TypeOK == /\ tickets \in Seq(Tickets(Turns, Owners))
          /\ \A i, j \in DOMAIN tickets : tickets[i].key = tickets[j].key => i = j
          /\ runner \in [Turns -> Stages]
          /\ round \in [Turns -> Owners]
          /\ ghosts \subseteq [turn : Turns, owner : Owners, at : {"polling", "admitted"}]
          /\ work \in [Turns -> {"none", "open"}]
          /\ doubts \in 0..MaxMishaps
          /\ lapses \in 0..MaxMishaps

\* A turn that was admitted by the queue and whose model work may still go on
\* holds a slot, whoever crashed, lapsed, was replaced or gave up since
\* (docs/MODEL_CAPACITY_RECOVERY.md: running entries never expire) - as long as
\* every poll was acknowledged to a runner that held the receipt's lease.
WorkHoldsItsTicket ==
  \A k \in Turns : (/\ doubts = 0
                    /\ work[k] = "open"
                    /\ k \notin Legacy \/ runner[k] = "working") => HoldsSlot(tickets, k)

\* Slots are only exceeded by turns that were dispatched before the queue, under
\* the same condition.
SlotsRespected ==
  doubts = 0 => Cardinality(InState(tickets, "running")) <= MaxConcurrent + Cardinality(Legacy)

\* First come, first served: while an earlier waiting ticket is fresh and keeps
\* its place, no later one is admitted.
NoOvertaking ==
  [][\A i, j \in DOMAIN tickets :
       (/\ i < j
        /\ tickets[i].state = "waiting" /\ tickets[j].state = "waiting"
        /\ tickets[i].stale = "no" /\ HasTicket(tickets', tickets[i].key)
        /\ HoldsSlot(tickets', tickets[j].key))
       => HoldsSlot(tickets', tickets[i].key)]_vars

\* Every request in the queue is eventually admitted, or leaves: the waiting
\* tickets of dead runners and the slots of crashed ones do not block it.
WaitersAreServed ==
  \A k \in Turns : runner[k] = "polling" ~> runner[k] # "polling"
=============================================================================
