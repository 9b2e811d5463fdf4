-------------------------- MODULE WeeklyTokenBudget --------------------------
(***************************************************************************)
(* The weekly token budget that all users of an installation share: the    *)
(* durable ledger (src/src/usage/weekly-token-budget.ts), and the runtime  *)
(* of a user's worker that charges it, refuses new turns and interrupts    *)
(* running ones (src/src/usage/weekly-token-budget-runtime.ts).            *)
(*                                                                         *)
(* Codex reports the cumulative tokens of a thread after a response.  Its  *)
(* notifications are recorded by the worker's gateway and observed one by  *)
(* one, in order and at least once, before they are acknowledged; a new    *)
(* runtime observes those again that were not (DeliveryLog).  A new Codex  *)
(* process starts its counter from zero.                                   *)
(*                                                                         *)
(* Abstractions.  One worker is followed; the others appear as what they   *)
(* do to the ledger.  It has one thread, whose turns are numbered, and an  *)
(* event's id is its number.  A ledger call is atomic (it runs under the   *)
(* installation's lock); after a write that fails, the disk holds the old  *)
(* ledger, or the new one, blocked or not.  A request is admitted and sent *)
(* in one step: a ledger that refuses just after the admission is one that *)
(* refuses just after the start.  The clock does not go back, and          *)
(* capacities of a million entries are not reached.  The ledger was        *)
(* initialised at time Activation with every worker stopped; the           *)
(* operator's import and reconciliation are not modelled.                  *)
(***************************************************************************)
EXTENDS Integers, Sequences, FiniteSetsExt

CONSTANTS
    Limit,          \* weeklyTokens
    WeekLength,     \* the length of a week
    UnlimitedUntil, \* before this time nothing counts and nothing is refused
    MaxTurns,       \* bound: turns of the worker
    MaxTokens,      \* bound: tokens of a response
    MaxResponses,   \* bound: responses of Codex
    MaxTime,        \* bound: the clock
    MaxLag,         \* bound: notifications that are not acknowledged
    MaxTroubles     \* bound: notifications Codex never prints, runtimes and Codex
                    \* processes that are replaced, failed writes and interrupts

ASSUME BudgetAssumption ==
    /\ {Limit, WeekLength, MaxTurns, MaxTokens} \subseteq Nat \ {0}
    /\ {UnlimitedUntil, MaxResponses, MaxTime, MaxLag, MaxTroubles} \subseteq Nat

VARIABLES
    ledger,         \* weekly-token-budget.json
    log,            \* the notifications of the worker, as recorded
    acked,          \* how many of them are acknowledged,
    observed,       \* and observed by the runtime
    step,           \* where it is with the next one
    memory,         \* the runtime of the worker
    codex,          \* the Codex process of the worker
    now,
    responses,      \* how often Codex responded
    troubles,       \* how much went wrong,
    disturbed       \* and whether it was more than a lost notification

external == <<log, codex>>
bounds == <<responses, troubles, disturbed>>
vars == <<ledger, log, acked, observed, step, memory, codex, now, bounds>>

Turns == 1 .. MaxTurns
NoTurn == 0
Activation == 0
Week(t) == t \div WeekLength
Weeks == 0 .. Week(MaxTime)

Unlimited(t) == t < UnlimitedUntil

----------------------------------------------------------------------------
(* The ledger.                                                             *)

\* The cursor of a thread nobody has reported yet.
NoCursor == [known |-> FALSE, total |-> 0, at |-> 0]

Historical(e) == e.at <= Activation

\* An old replay never rewinds a cursor, and history is not charged.
Ahead(c, e) == ~Historical(e) /\ (c.known => e.at >= c.at)

\* A later response that is all of its process's consumption: a new process.
FreshCounter(c, e) == /\ c.known /\ e.total # c.total
                      /\ e.total = e.last /\ e.at > c.at

Delta(c, e) == IF c.known /\ ~FreshCounter(c, e) THEN e.total - c.total ELSE e.last

\* What the counters prove; anything else blocks the ledger.
Consistent(c, e) ==
    Ahead(c, e) =>
      \/ FreshCounter(c, e)
      \/ ~c.known /\ e.total = e.last
      \/ c.known /\ (e.total = c.total \/ e.total - c.total >= e.last)

\* Mutant: an event is charged again when it is replayed.
ChargedAgain(l, i) ==
    LET e == log[i]
        c == l.cursor
    IN  IF ~Ahead(c, e) THEN [l EXCEPT !.seen = @ \union {i}]
        ELSE [l EXCEPT !.seen = @ \union {i},
                       !.cursor = [known |-> TRUE, total |-> e.total, at |-> e.at],
                       !.used[Week(e.at)] = @ + (IF Unlimited(e.at) THEN 0 ELSE e.last)]

\* recordUsage of event i.
Charged(l, i) ==
    LET e == log[i]
        c == l.cursor
    IN  IF i \in l.seen THEN l
        ELSE IF ~Ahead(c, e) THEN [l EXCEPT !.seen = @ \union {i}]
        ELSE [l EXCEPT !.seen = @ \union {i},
                       !.cursor = [known |-> TRUE, total |-> e.total, at |-> e.at],
                       !.used[Week(e.at)] = @ + (IF Unlimited(e.at) THEN 0 ELSE Delta(c, e))]

Blocked(l) == [l EXCEPT !.blocked = TRUE]

\* assertAvailable fails.
Refuses(l) == l.blocked \/ l.used[Week(now)] >= Limit

----------------------------------------------------------------------------
(* The runtime.  active: the turns it knows to run; observed: those with    *)
(* usage; missing: the completed ones whose usage is awaited; stopping and *)
(* stopped: the interrupts under way and confirmed.                        *)

Fresh == [active |-> {}, observed |-> {}, completed |-> {}, missing |-> {},
          stopping |-> {}, stopped |-> {}, unavailable |-> FALSE]

\* interruptActive: an interrupt is asked once, until it fails.
Interrupting(m) == [m EXCEPT !.stopping = @ \union (m.active \ m.stopped)]

\* bindTurn.
Bound(m, t) ==
    IF t \in m.completed THEN m
    ELSE LET bound == [m EXCEPT !.active = @ \union {t}]
         IN  IF m.unavailable /\ ~Unlimited(now) THEN Interrupting(bound) ELSE bound

\* accountingFailed, and what it does once the ledger is blocked.
Failed(m) == [m EXCEPT !.unavailable = TRUE]
Stopping(m) == IF Unlimited(now) THEN m ELSE Interrupting(m)

NewCodex == [turn |-> NoTurn, begun |-> 0, total |-> 0, owed |-> 0, run |-> 1]

\* A thread with a history has a cursor, and its last report, of a turn before the
\* activation, is replayed.
Earlier == [kind |-> "usage", turn |-> NoTurn, total |-> 1, last |-> 1, at |-> Activation, run |-> 1]

Init ==
    \E old \in BOOLEAN :
      /\ ledger = [blocked |-> FALSE, seen |-> {},
                   used |-> [w \in Weeks |-> 0], others |-> [w \in Weeks |-> 0],
                   cursor |-> IF old THEN [known |-> TRUE, total |-> 1, at |-> Activation]
                              ELSE NoCursor]
      /\ log = IF old THEN <<Earlier>> ELSE <<>>
      /\ codex = IF old THEN [NewCodex EXCEPT !.total = 1] ELSE NewCodex
      /\ acked = 0 /\ observed = 0 /\ step = "idle"
      /\ memory = Fresh
      /\ now = Activation + 1
      /\ responses = 0 /\ troubles = 0 /\ disturbed = FALSE

Trouble == troubles < MaxTroubles /\ troubles' = troubles + 1 /\ UNCHANGED responses
Fault == Trouble /\ disturbed' = TRUE

Event == log[observed + 1]
Record(e) ==
    /\ Len(log) - acked < MaxLag
    /\ log' = Append(log, e)
Remember(m) == memory' = m
GoTo(s) == step' = s
Advance == observed' = observed + 1
Alive == step # "dead"

----------------------------------------------------------------------------
(* observe: one notification after the other.                              *)

\* Mutant: the turn is looked up after it is deleted.
AwaitedTooLate(m, e) ==
    IF ~Historical(e) /\ e.status = "completed"
    THEN ((m.active \ {e.turn}) \intersect {e.turn}) \ m.observed
    ELSE {}

\* The turns whose usage is awaited after their end.
Awaited(m, e) ==
    IF ~Historical(e) /\ e.status = "completed" THEN (m.active \intersect {e.turn}) \ m.observed
    ELSE {}

Observe ==
    /\ step = "idle"
    /\ observed < Len(log)
    /\ LET e == Event
           m == memory
           bound == IF Historical(e) THEN m ELSE Bound(m, e.turn)
       IN \/ /\ e.kind = "started"
             /\ Remember(bound) /\ Advance /\ UNCHANGED step
          \/ /\ e.kind = "usage"
             /\ Remember(bound) /\ GoTo("record") /\ UNCHANGED observed
          \/ /\ e.kind = "completed"
             /\ Remember([m EXCEPT !.active = @ \ {e.turn},
                                  !.stopping = @ \ {e.turn},
                                  !.stopped = @ \ {e.turn},
                                  !.completed = @ \union {e.turn},
                                  !.missing = @ \union Awaited(m, e)])
             /\ Advance /\ UNCHANGED step
    /\ UNCHANGED <<ledger, acked, external, now, bounds>>

\* recordUsage succeeds, and the runtime learns the installation's total.
Account ==
    /\ step = "record"
    /\ ~ledger.blocked
    /\ LET i == observed + 1
           e == Event
           m == [memory EXCEPT !.observed = @ \union {e.turn}, !.missing = @ \ {e.turn}]
       IN /\ i \in ledger.seen \/ Consistent(ledger.cursor, e)
          /\ ledger' = Charged(ledger, i)
          /\ Remember(IF ~Unlimited(e.at) /\ ledger'.used[Week(now)] >= Limit
                      THEN Interrupting(m) ELSE m)
    /\ Advance /\ GoTo("idle")
    /\ UNCHANGED <<acked, external, now, bounds>>

\* It fails: the ledger is blocked, or the evidence is not consistent, which
\* blocks it, or a write is not acknowledged.
AccountFails ==
    /\ step = "record"
    /\ LET i == observed + 1
           bad == ~(i \in ledger.seen \/ Consistent(ledger.cursor, Event))
           meant == IF bad THEN Blocked(ledger) ELSE Charged(ledger, i)
       IN \/ ledger.blocked /\ UNCHANGED <<ledger, bounds>>
          \/ ~ledger.blocked /\ bad /\ ledger' = meant /\ UNCHANGED bounds
          \/ ~ledger.blocked /\ Fault /\ ledger' \in {ledger, meant, Blocked(meant)}
    /\ Remember(Failed(memory))
    /\ GoTo("mark")
    /\ UNCHANGED <<acked, observed, external, now>>

\* Mutant: an event whose failure could not be written is acknowledged all the same.
MarkAnyway ==
    /\ step = "mark"
    /\ \/ ledger' = Blocked(ledger) /\ UNCHANGED bounds
       \/ ~ledger.blocked /\ Fault /\ UNCHANGED ledger
    /\ Advance /\ GoTo("idle")
    /\ Remember(Stopping(memory))
    /\ UNCHANGED <<acked, external, now>>

\* markUnavailable: if not even that can be written, the event stays
\* unacknowledged and the router is dead.
Mark ==
    /\ step = "mark"
    /\ \/ /\ ledger' = Blocked(ledger) /\ Advance /\ GoTo("idle")
          /\ Remember(Stopping(memory)) /\ UNCHANGED bounds
       \/ /\ ~ledger.blocked /\ Fault /\ ledger' \in {ledger, Blocked(ledger)}
          /\ GoTo("dead") /\ UNCHANGED observed
          /\ Remember(Interrupting(memory))
    /\ UNCHANGED <<acked, external, now>>

\* What was observed is acknowledged, in order.
Acknowledge ==
    /\ Alive /\ acked < observed
    /\ acked' = acked + 1
    /\ UNCHANGED <<ledger, observed, step, memory, external, now, bounds>>

\* The grace period of a completed turn without usage ends.
Expire(t) ==
    /\ t \in memory.missing
    /\ LET m == Failed([memory EXCEPT !.missing = @ \ {t}])
       IN \/ ledger' = Blocked(ledger) /\ Remember(Stopping(m)) /\ UNCHANGED bounds
          \/ /\ ~ledger.blocked /\ Fault /\ ledger' \in {ledger, Blocked(ledger)}
             /\ Remember(Interrupting(m))
    /\ UNCHANGED <<acked, observed, step, external, now>>

----------------------------------------------------------------------------
(* Stopping what runs.                                                     *)

\* The poll, while there is an active turn, or a request the ledger refuses.
Poll ==
    /\ ~Unlimited(now)
    /\ memory.unavailable \/ Refuses(ledger)
    /\ Interrupting(memory) # memory
    /\ Remember(Interrupting(memory))
    /\ UNCHANGED <<ledger, acked, observed, step, external, now, bounds>>

\* Mutant: a failed interrupt is not asked again.
InterruptedForGood(t) ==
    /\ t \in memory.stopping
    /\ Remember([memory EXCEPT !.stopping = @ \ {t}, !.stopped = @ \union {t}])
    /\ \/ /\ codex.turn = t /\ Alive
          /\ codex' = [codex EXCEPT !.turn = NoTurn]
          /\ Record([kind |-> "completed", turn |-> t, status |-> "interrupted", at |-> now])
          /\ UNCHANGED bounds
       \/ (codex.turn # t \/ ~Alive) /\ UNCHANGED <<external, bounds>>
       \/ Fault /\ UNCHANGED external
    /\ UNCHANGED <<ledger, acked, observed, step, now>>

\* turn/interrupt is confirmed, or fails: the turn is over, the router is dead,
\* or the call is lost.  A failed one may be asked again.
Interrupted(t) ==
    /\ t \in memory.stopping
    /\ \/ /\ codex.turn = t /\ Alive
          /\ codex' = [codex EXCEPT !.turn = NoTurn]
          /\ Record([kind |-> "completed", turn |-> t, status |-> "interrupted", at |-> now])
          /\ Remember([memory EXCEPT !.stopping = @ \ {t}, !.stopped = @ \union {t}])
          /\ UNCHANGED bounds
       \/ /\ codex.turn # t \/ ~Alive
          /\ Remember([memory EXCEPT !.stopping = @ \ {t}])
          /\ UNCHANGED <<external, bounds>>
       \/ /\ Fault
          /\ Remember([memory EXCEPT !.stopping = @ \ {t}])
          /\ UNCHANGED external
    /\ UNCHANGED <<ledger, acked, observed, step, now>>

\* The answer of turn/start or turn/steer binds the turn that runs, and so does
\* the reopened conversation (onTurnBound).
Bind ==
    /\ Alive
    /\ codex.turn \notin memory.active \union {NoTurn}
    /\ Remember(Bound(memory, codex.turn))
    /\ UNCHANGED <<ledger, acked, observed, step, external, now, bounds>>

----------------------------------------------------------------------------
(* Admission: beforeRequest, and the request.                              *)

\* beforeRequest lets turn/start pass, and Codex starts the turn.
Start ==
    /\ codex.turn = NoTurn /\ codex.owed = 0
    /\ Alive
    /\ \/ Unlimited(now)
       \/ ~memory.unavailable /\ memory.missing = {} /\ ~Refuses(ledger)
    /\ LET t == codex.begun + 1
       IN /\ t \in Turns
          /\ codex' = [codex EXCEPT !.turn = t, !.begun = t]
          /\ Record([kind |-> "started", turn |-> t, at |-> now])
    /\ UNCHANGED <<ledger, acked, observed, step, memory, now, bounds>>

----------------------------------------------------------------------------
(* Codex, the clock and the restarts.                                      *)

Idle == UNCHANGED <<ledger, acked, observed, step, memory>>

Respond ==
    /\ codex.turn # NoTurn /\ codex.owed = 0
    /\ responses < MaxResponses /\ responses' = responses + 1
    /\ \E n \in 1 .. MaxTokens :
         codex' = [codex EXCEPT !.total = @ + n, !.owed = n]
    /\ Idle /\ UNCHANGED <<log, now, troubles, disturbed>>

\* thread/tokenUsage/updated; it may follow the end of its turn.
Report ==
    /\ codex.owed > 0
    /\ Record([kind |-> "usage", turn |-> codex.begun, total |-> codex.total,
                  last |-> codex.owed, at |-> now, run |-> codex.run])
    /\ codex' = [codex EXCEPT !.owed = 0]
    /\ Idle /\ UNCHANGED <<now, bounds>>

Omit ==
    /\ codex.owed > 0
    /\ Trouble
    /\ codex' = [codex EXCEPT !.owed = 0]
    /\ Idle /\ UNCHANGED <<log, now, disturbed>>

End ==
    /\ codex.turn # NoTurn
    /\ codex' = [codex EXCEPT !.turn = NoTurn]
    /\ \E s \in {"completed", "failed"} :
         Record([kind |-> "completed", turn |-> codex.turn, status |-> s, at |-> now])
    /\ Idle /\ UNCHANGED <<now, bounds>>

Tick ==
    /\ now < MaxTime /\ now' = now + 1
    /\ Idle /\ UNCHANGED <<external, bounds>>

Renew ==
    /\ Remember(Fresh)
    /\ GoTo("idle")
    /\ observed' = acked
    /\ UNCHANGED <<ledger, acked, now>>

\* A worker whose router is dead is replaced; so is one that is closed, or
\* whose server dies.  Codex may go on, or a new process resumes the thread.
Replace ==
    /\ ~Alive
    /\ Renew /\ UNCHANGED <<external, bounds>>

Restart ==
    /\ Fault
    /\ Renew
    /\ \/ UNCHANGED codex
       \/ codex' = [codex EXCEPT !.turn = NoTurn, !.total = 0, !.owed = 0, !.run = @ + 1]
    /\ UNCHANGED log

\* Another worker of the installation charges the ledger, or blocks it.
Elsewhere ==
    /\ ~ledger.blocked
    /\ \/ /\ ~Unlimited(now)
          /\ responses < MaxResponses /\ responses' = responses + 1
          /\ \E n \in 1 .. MaxTokens :
               ledger' = [ledger EXCEPT !.used[Week(now)] = @ + n, !.others[Week(now)] = @ + n]
          /\ UNCHANGED <<troubles, disturbed>>
       \/ Trouble /\ ledger' = Blocked(ledger) /\ UNCHANGED disturbed
    /\ UNCHANGED <<log, acked, observed, step, memory, codex, now>>

Observer == Observe \/ Account \/ AccountFails \/ Mark

Next ==
    \/ Observer \/ Acknowledge \/ Poll \/ Bind
    \/ \E t \in Turns : Expire(t) \/ Interrupted(t)
    \/ Start \/ Respond \/ Report \/ Omit \/ End
    \/ Replace \/ Restart
    \/ Elsewhere \/ Tick

Spec == Init /\ [][Next]_vars

\* The observer works through the log, timers fire, interrupts are answered, a
\* dead router is replaced and a conversation that streams is reopened.  Nothing
\* is asked of Codex, of the users or of the clock.
Fairness ==
    /\ WF_vars(Observer) /\ WF_vars(Acknowledge) /\ WF_vars(Poll) /\ WF_vars(Bind) /\ WF_vars(Replace)
    /\ \A t \in Turns : WF_vars(Expire(t)) /\ WF_vars(Interrupted(t))

FairSpec == Spec /\ Fairness

----------------------------------------------------------------------------
(* Properties.                                                             *)

Usages == {i \in 1 .. Len(log) : log[i].kind = "usage"}

\* The report before the i-th event, if there is one.
Before(i) == {j \in Usages : j < i}
Last(i) == log[Max(Before(i))]

\* What the thread consumed up to event i since the report before it.
Consumed(i) ==
    IF Before(i) # {} /\ Last(i).run = log[i].run THEN log[i].total - Last(i).total
    ELSE log[i].total

\* The first report of a new process that does not look like one: it follows
\* responses nobody reported, or it repeats the old counter.
Hidden(i) ==
    /\ Before(i) # {} /\ Last(i).run # log[i].run
    /\ log[i].total # log[i].last \/ log[i].total = Last(i).total

\* What is to be charged to week w of the events the ledger has seen.
Reported(w) ==
    LET charged == {i \in ledger.seen : /\ Week(log[i].at) = w
                                        /\ ~Historical(log[i]) /\ ~Unlimited(log[i].at)}
    IN MapThenSumSet(Consumed, charged)

\* Each week is charged for what its reports say, once - whatever is replayed,
\* restarted or not acknowledged, and whichever process counts.  It is never
\* charged for more; it may only be charged for less if a new process hides.
ChargedOnce ==
    \A w \in Weeks :
      LET charged == ledger.used[w] - ledger.others[w]
      IN /\ charged <= Reported(w)
         /\ (\A i \in ledger.seen : ~Hidden(i)) => charged = Reported(w)

\* An acknowledged report was charged, or the installation's ledger is blocked.
NoneUncharged ==
    \A i \in 1 .. acked : log[i].kind = "usage" => i \in ledger.seen \/ ledger.blocked

\* A turn completed, and its usage did not come before that; nor since.
Unreported(t) ==
    \E i \in 1 .. Len(log) : /\ log[i].kind = "completed" /\ log[i].turn = t
                             /\ log[i].status = "completed"
                             /\ \A j \in Before(i) : log[j].turn # t
Silent(t) == Unreported(t) /\ \A i \in Usages : log[i].turn # t

\* A turn that fails or is interrupted before its first report does not "disable the
\* whole installation" (weekly-token-budget-runtime.ts:153-155): while nothing is lost
\* and nothing fails, only a completed turn that waited for its report blocks the ledger.
OnlySilenceBlocks == ledger.blocked /\ troubles = 0 => \E t \in Turns : Unreported(t)

\* A turn that completes without a report of its usage blocks the installation's
\* ledger after the grace period, unless the report still comes - or the runtime is
\* replaced in the meantime, which forgets the period.  Nothing else does, while
\* nothing goes wrong.
MissingIsNoticed ==
    /\ \A t \in Turns : Silent(t) ~> ledger.blocked \/ ~Silent(t) \/ disturbed
    /\ []OnlySilenceBlocks

\* The budget refuses, and it is not the unlimited period.
Denied == ~Unlimited(now) /\ Refuses(ledger)

\* A turn that runs when the budget is exhausted or cannot be verified is
\* interrupted, by whichever process found out, through failed interrupts and
\* replaced runtimes - or it ends, or a new week begins.
OverspendingStops ==
    \A t \in Turns : Denied /\ codex.turn = t ~> ~Denied \/ codex.turn # t
=============================================================================
