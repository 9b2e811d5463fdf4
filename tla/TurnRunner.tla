----------------------------- MODULE TurnRunner -----------------------------
(***************************************************************************)
(* A chat turn from its admission to its end: the durable receipt          *)
(* (src/src/runtime/turn-submission-store.ts), the runner that drives the  *)
(* turn (src/src/runtime/worker-codex-turn.ts), the route that starts and  *)
(* reopens it (src/src/app/api/chat/route.ts) and its admission ticket     *)
(* (ModelTickets).  Codex, in another container, keeps working whatever    *)
(* happens to the server.                                                  *)
(*                                                                         *)
(* A turn is sent to Codex at most once per attempt; an attempt that Codex *)
(* refuses for lack of capacity, before any work, may be followed by       *)
(* another with a new client id.  An attempt's number stands for its       *)
(* client id and for the id of the Codex turn it creates.                  *)
(*                                                                         *)
(* One runner per turn: a second one fails on the receipt's lease          *)
(* (ResourceLock) without a step.  A request reaches Codex at most once    *)
(* (GatewayRequests); whether it arrives, and its answer, may be lost.     *)
(***************************************************************************)
EXTENDS ModelTickets, FiniteSets

CONSTANTS Turns,       \* chat turns, each with its assistant message
          Opened,      \* the turns whose conversation has a Codex thread
          Retries,     \* MODEL_CAPACITY_RETRY_DELAYS_MS.length
          Stoppable,   \* the turns whose user may press Stop
          MaxCrashes,  \* bound: crashes of the server
          MaxFaults    \* bound: failed writes and calls

ASSUME RunnerAssumption == /\ IsFiniteSet(Turns)
                           /\ Opened \subseteq Turns
                           /\ Stoppable \subseteq Turns
                           /\ {Retries, MaxCrashes, MaxFaults} \subseteq Nat

Attempts == 0..Retries
NoTurn == Retries + 1
Ended == {"completed", "failed", "interrupted"}

VARIABLES file,     \* the receipt on disk
          run,      \* the runner of the turn, if any
          message,  \* the assistant message the user sees
          stopAsked,\* a Stop nobody has picked up (pendingTurnCancellations)
          named,    \* the attempt the projection knows by its Codex id
          tickets,  \* the model queue
          thread,   \* the thread-start of the conversation, in Codex
          remote,   \* the attempts, in Codex
          sends,    \* how often an attempt was handed to the transport
          created,  \* how often a thread-start was handed to the transport
          crashes, faults

vars == <<file, run, message, stopAsked, named, tickets, thread, remote,
          sends, created, crashes, faults>>

----------------------------------------------------------------------------
(* The receipt.                                                            *)

NoFile == [phase |-> "none"]

Receipt == [phase : {"preparing", "ready", "dispatched", "terminal"},
            creation : {"none", "asked"},
            thread : {"unknown", "bound"},
            turn : Attempts \union {NoTurn},
            terminal : {"none"} \union Ended,
            retries : Attempts,
            own : {"yes", "no"}]

\* A receipt opened for the first time.  An observer, who finds the message but
\* no receipt, assumes the worst and leaves no file.
Opening(recovering) ==
  [phase |-> IF recovering THEN "dispatched" ELSE "preparing",
   creation |-> "none", thread |-> "unknown", turn |-> NoTurn,
   terminal |-> "none", retries |-> 0, own |-> "no"]

\* Mutant: only a turn with a known id is recovered.
NeedsRecoveryOfNamed(d) == \/ d.phase = "dispatched" /\ d.turn # NoTurn
                           \/ d.phase = "terminal"
                           \/ d.creation = "asked" /\ d.thread = "unknown"

NeedsRecovery(d) == \/ d.phase \in {"dispatched", "terminal"}
                    \/ d.creation = "asked" /\ d.thread = "unknown"

\* Mutant: work is only pending once Codex has named it.
HasNamedModelTurn(d) == d.phase = "dispatched" /\ d.terminal = "none" /\ d.turn # NoTurn

HasPendingModelTurn(d) == d.phase = "dispatched" /\ d.terminal = "none"

ThreadCreationRejected(d) ==
  d.terminal = "failed" /\ d.creation = "asked" /\ d.thread = "unknown" /\ d.turn = NoTurn

BoundThread(d) == [d EXCEPT !.thread = "bound"]
BoundTurn(d, a) == [d EXCEPT !.turn = a]
\* Mutant: a turn that ended is recorded as completed.
ObservedCompleted(d, a, s) ==
  [d EXCEPT !.phase = "terminal", !.terminal = "completed", !.turn = a, !.creation = "none"]
Observed(d, a, s) == [d EXCEPT !.phase = "terminal", !.terminal = s, !.turn = a,
                               !.creation = "none"]
AskedThread(d) == [d EXCEPT !.creation = "asked"]
Rejected(d) == [d EXCEPT !.phase = "terminal", !.terminal = "failed"]
Prepared(d) == [d EXCEPT !.phase = "ready"]
Dispatched(d) == [d EXCEPT !.phase = "dispatched", !.own = "yes"]
Retried(d) == [d EXCEPT !.phase = "preparing", !.terminal = "none", !.turn = NoTurn,
                        !.retries = @ + 1, !.own = "no"]

RetryEligible(d) == /\ d.phase = "terminal" /\ d.terminal = "failed"
                    /\ d.turn # NoTurn /\ d.thread = "bound" /\ d.own = "yes"
                    /\ d.retries < Retries

----------------------------------------------------------------------------
(* The runner.  at: where it is; sees: recoverExistingTurn; mem: its copy   *)
(* of the receipt; kept: whether the copy has a file; slot: it holds an     *)
(* admission; over: model work is confirmed stopped; abort: its abort       *)
(* signal; says: what the user will be told.                                *)

Off == [at |-> "off", sees |-> "new", mem |-> Opening(FALSE), kept |-> "no",
        slot |-> "no", over |-> "no", abort |-> "no", says |-> "streaming"]

Init == /\ file = [k \in Turns |-> NoFile]
        /\ run = [k \in Turns |-> Off]
        /\ message = [k \in Turns |-> "none"]
        /\ stopAsked = {}
        /\ named = [k \in Turns |-> NoTurn]
        /\ tickets = << >>
        /\ thread = [k \in Turns |-> IF k \in Opened THEN "created" ELSE "none"]
        /\ remote = [k \in Turns |-> [a \in Attempts |-> "none"]]
        /\ sends = [k \in Turns |-> [a \in Attempts |-> 0]]
        /\ created = [k \in Turns |-> 0]
        /\ crashes = 0
        /\ faults = 0

Codex == <<thread, remote, sends, created>>
Screen == <<message, stopAsked, named>>

At(k, p) == run[k].at = p

\* The runner goes on at p and the receipt becomes d.  An observer's receipt
\* reaches the disk only once it names a Codex turn.
Update(k, p, d) ==
  LET keeps == run[k].kept = "yes" \/ d.turn # NoTurn
  IN /\ run' = [run EXCEPT ![k].at = p, ![k].mem = d,
                           ![k].kept = IF keeps THEN "yes" ELSE "no"]
     /\ file' = IF keeps THEN [file EXCEPT ![k] = d] ELSE file

\* The runner goes on at p, the receipt unchanged.
Move(k, p) == run' = [run EXCEPT ![k].at = p] /\ UNCHANGED file

\* The attempt ends; the user will be told s ("streaming": nothing, the turn
\* stays recoverable).
Leaving(k, s, d) == [run[k] EXCEPT !.at = "leave", !.says = s, !.mem = d]
Leave(k, s) == run' = [run EXCEPT ![k] = Leaving(k, s, @.mem)] /\ UNCHANGED file
LeaveWith(k, s, d) ==
  /\ run' = [run EXCEPT ![k] = [Leaving(k, s, d) EXCEPT !.kept = "yes"]]
  /\ file' = [file EXCEPT ![k] = d]

\* What a failure makes of the turn: pending while it needs recovery.
Failing(d) == IF NeedsRecovery(d) THEN "streaming" ELSE "error"

Shows(s) == CASE s = "completed" -> "done" [] s = "failed" -> "error" [] s = "interrupted" -> "stopped"

\* Mutant: only running turns are found again.
VisibleRunning(k, a) == remote[k][a] = "inProgress"

\* What a read of the thread shows of an attempt; "refused" and "lost" ones
\* and those Codex has not seen yet are not in the thread.
Visible(k, a) == remote[k][a] \in {"inProgress", "overloaded"} \union Ended
Status(k, a) == IF remote[k][a] = "overloaded" THEN "failed" ELSE remote[k][a]

Fault == faults < MaxFaults /\ faults' = faults + 1
NoFault == UNCHANGED <<crashes, faults>>

\* A write-ahead intent: after a failed acknowledgement the runner behaves as
\* if the intent had been written, which only the disk knows.
WriteAhead(k, p, d) ==
  \/ Update(k, p, d) /\ NoFault
  \/ /\ Fault
     /\ run' = [run EXCEPT ![k] = Leaving(k, "streaming", d)]
     /\ file' \in {file, [file EXCEPT ![k] = d]}
     /\ UNCHANGED crashes

Threaded(k, d) == k \in Opened \/ d.thread = "bound"

\* The message changes once.
Show(k, s) == message' = [message EXCEPT ![k] = IF @ = "streaming" THEN s ELSE @]

\* The cancellation registered by the runner: while it waits in the queue, if
\* no model work is pending, and from the moment its turn is armed.
Registered(k) == \/ At(k, "queue") /\ ~HasPendingModelTurn(run[k].mem)
                 \/ run[k].at \in {"dispatch", "send", "sent", "await", "interrupt", "retry"}

----------------------------------------------------------------------------
(* The route.                                                              *)

\* POST /api/chat begins the turn.
Begin(k) ==
  /\ message[k] = "none"
  /\ message' = [message EXCEPT ![k] = "streaming"]
  /\ run' = [run EXCEPT ![k].at = "open"]
  /\ UNCHANGED <<file, stopAsked, named, tickets, crashes, faults>> /\ UNCHANGED Codex

\* The same POST again: a message that is no longer streaming is replayed
\* without a runner, and an active runner is followed.
Reopen(k) ==
  /\ message[k] = "streaming"
  /\ At(k, "off")
  /\ run' = [run EXCEPT ![k] = [Off EXCEPT !.at = "open", !.sees = "existing"]]
  /\ UNCHANGED <<file, tickets, crashes, faults>> /\ UNCHANGED Screen /\ UNCHANGED Codex

\* Stop, while the projection does not know the Codex turn: the registered
\* runner is told, or the request waits for the next registration.
Stop(k) ==
  /\ k \in Stoppable
  /\ message[k] = "streaming"
  /\ named[k] = NoTurn
  /\ IF Registered(k)
     THEN run' = [run EXCEPT ![k].abort = "yes"] /\ UNCHANGED stopAsked
     ELSE stopAsked' = stopAsked \union {k} /\ UNCHANGED run
  /\ UNCHANGED <<file, message, named, tickets, crashes, faults>> /\ UNCHANGED Codex

\* Stop, once it does: the route interrupts the Codex turn itself and shows the
\* confirmation before it tells the runner.
ControlStop(k) ==
  /\ k \in Stoppable
  /\ message[k] = "streaming"
  /\ named[k] # NoTurn
  /\ remote[k][named[k]] = "inProgress"
  /\ remote' = [remote EXCEPT ![k][named[k]] = "interrupted"]
  /\ Show(k, "stopped")
  /\ run' = IF Registered(k)
            THEN [run EXCEPT ![k] = [Leaving(k, "stopped", @.mem) EXCEPT !.over = "yes"]]
            ELSE run
  /\ UNCHANGED <<file, stopAsked, named, tickets, thread, sends, created, crashes, faults>>

----------------------------------------------------------------------------
(* Opening the receipt and the queue.                                      *)

Open(k) ==
  /\ At(k, "open")
  /\ LET existing == run[k].sees = "existing"
         d == IF file[k] = NoFile THEN Opening(existing) ELSE file[k]
         keeps == file[k] # NoFile \/ ~existing
         opened == [run[k] EXCEPT !.mem = d, !.kept = IF keeps THEN "yes" ELSE "no"]
     IN /\ file' = IF keeps THEN [file EXCEPT ![k] = d] ELSE file
        /\ run' = [run EXCEPT ![k] =
             IF ThreadCreationRejected(d) THEN [opened EXCEPT !.at = "leave", !.says = "error"]
             ELSE IF ~NeedsRecovery(d) \/ Threaded(k, d) THEN [opened EXCEPT !.at = "register"]
             ELSE IF d.creation = "asked" THEN [opened EXCEPT !.at = "create"]
             ELSE [opened EXCEPT !.at = "leave"]]
  /\ UNCHANGED <<tickets, crashes, faults>> /\ UNCHANGED Screen /\ UNCHANGED Codex

\* recoverThreadStart reads the receipt of the creation; it never asks again.
RecoverThread(k) ==
  /\ At(k, "create")
  /\ LET d == run[k].mem
     IN CASE thread[k] = "created" -> Update(k, "register", BoundThread(d))
          [] thread[k] = "refused" -> LeaveWith(k, "error", Rejected(d))
          [] OTHER -> Leave(k, "streaming")
  /\ UNCHANGED <<tickets, crashes, faults>> /\ UNCHANGED Screen /\ UNCHANGED Codex

\* Before the queue: a pending Stop is taken up unless model work is pending.
Register(k) ==
  /\ At(k, "register")
  /\ LET stops == k \in stopAsked /\ ~HasPendingModelTurn(run[k].mem)
     IN /\ run' = [run EXCEPT ![k].at = "queue", ![k].abort = IF stops THEN "yes" ELSE "no"]
        /\ stopAsked' = IF stops THEN stopAsked \ {k} ELSE stopAsked
  /\ UNCHANGED <<file, message, named, tickets, crashes, faults>> /\ UNCHANGED Codex

Enqueue(k) ==
  /\ At(k, "queue")
  /\ run[k].abort = "no"
  /\ LET d == run[k].mem
     IN /\ ~Refused(tickets, k, HasPendingModelTurn(d))
        /\ tickets' = Poll(tickets, k, k, HasPendingModelTurn(d))
        /\ run' = [run EXCEPT ![k] =
             IF HoldsSlot(tickets', k)
             THEN [@ EXCEPT !.slot = "yes", !.at = IF Threaded(k, d) THEN "resume" ELSE "start"]
             ELSE [@ EXCEPT !.slot = "waiting"]]
  /\ UNCHANGED <<file, crashes, faults>> /\ UNCHANGED Screen /\ UNCHANGED Codex

\* acquire fails: its catch drops the ticket the runner polled for, no other.
Dequeued(k) == IF run[k].slot = "waiting" THEN Released(tickets, k, k) ELSE tickets

QueueFails(k) ==
  /\ At(k, "queue")
  /\ run[k].abort = "no"
  /\ Refused(tickets, k, HasPendingModelTurn(run[k].mem)) \/ run[k].slot = "waiting"
  /\ tickets' = Dequeued(k)
  /\ run' = [run EXCEPT ![k] = [Leaving(k, Failing(@.mem), @.mem) EXCEPT !.slot = "no"]]
  /\ UNCHANGED <<file, crashes, faults>> /\ UNCHANGED Screen /\ UNCHANGED Codex

QueueStops(k) ==
  /\ At(k, "queue")
  /\ run[k].abort = "yes"
  /\ tickets' = Dequeued(k)
  /\ Show(k, "stopped")
  /\ run' = [run EXCEPT ![k] = [Leaving(k, "stopped", @.mem) EXCEPT !.slot = "no"]]
  /\ UNCHANGED <<file, stopAsked, named, crashes, faults>> /\ UNCHANGED Codex

----------------------------------------------------------------------------
(* Reading the thread, or creating it.                                     *)

\* A read shows attempt a: the receipt learns its id and its outcome, the
\* projection its name.  p is where the runner goes if the turn still runs.
Project(k, a, p) ==
  /\ IF Status(k, a) = "inProgress"
     THEN Update(k, p, BoundTurn(BoundThread(run[k].mem), a))
     ELSE LeaveWith(k, Shows(Status(k, a)), Observed(BoundThread(run[k].mem), a, Status(k, a)))
  /\ named' = [named EXCEPT ![k] = a]

\* thread/resume or thread/read, before anything is sent.
Resume(k) ==
  /\ At(k, "resume")
  /\ LET d == run[k].mem
     IN IF Visible(k, d.retries) THEN Project(k, d.retries, "arm")
        ELSE /\ UNCHANGED named
             /\ IF NeedsRecovery(BoundThread(d))
                THEN Leave(k, "streaming")
                ELSE Update(k, "prepare", BoundThread(d))
  /\ NoFault
  /\ UNCHANGED <<message, stopAsked, tickets>> /\ UNCHANGED Codex

\* A read, the preparation of the inputs or the projection fails.
Fails(k) ==
  /\ run[k].at \in {"resume", "prepare", "retry"}
  /\ Fault
  /\ Leave(k, Failing(run[k].mem))
  /\ UNCHANGED <<tickets, crashes>> /\ UNCHANGED Screen /\ UNCHANGED Codex

StartThread(k) ==
  /\ At(k, "start")
  /\ IF run[k].mem.creation = "asked" \/ NeedsRecovery(run[k].mem)
     THEN Leave(k, "streaming") /\ NoFault
     ELSE WriteAhead(k, "ask", AskedThread(run[k].mem))
  /\ UNCHANGED tickets /\ UNCHANGED Screen /\ UNCHANGED Codex

AskThread(k) ==
  /\ At(k, "ask")
  /\ Move(k, "asked")
  /\ created' = [created EXCEPT ![k] = @ + 1]
  /\ thread' = [thread EXCEPT ![k] = "asked"]
  /\ UNCHANGED <<tickets, remote, sends, crashes, faults>> /\ UNCHANGED Screen

ThreadAnswered(k) ==
  /\ At(k, "asked")
  /\ CASE thread[k] = "created" -> Update(k, "prepare", BoundThread(run[k].mem))
       [] thread[k] = "refused" -> LeaveWith(k, "error", Rejected(run[k].mem))
       [] OTHER -> FALSE
  /\ NoFault
  /\ UNCHANGED tickets /\ UNCHANGED Screen /\ UNCHANGED Codex

\* No answer in time; the creation may still happen.
ThreadTimesOut(k) ==
  /\ At(k, "asked")
  /\ Leave(k, Failing(run[k].mem))
  /\ UNCHANGED <<tickets, crashes, faults>> /\ UNCHANGED Screen /\ UNCHANGED Codex

----------------------------------------------------------------------------
(* Sending the turn.                                                       *)

Prepare(k) ==
  /\ At(k, "prepare")
  /\ IF NeedsRecovery(run[k].mem) THEN Leave(k, "streaming")
     ELSE Update(k, "arm", Prepared(run[k].mem))
  /\ NoFault
  /\ UNCHANGED tickets /\ UNCHANGED Screen /\ UNCHANGED Codex

\* The cancellation is registered and a pending Stop taken up: without the id
\* of a Codex turn there is nothing to interrupt, and the turn is stopped.
Arm(k) ==
  /\ At(k, "arm")
  /\ IF k \in stopAsked
     THEN /\ stopAsked' = stopAsked \ {k}
          /\ Show(k, "stopped")
          /\ Leave(k, "stopped")
     ELSE /\ UNCHANGED <<stopAsked, message>>
          /\ Move(k, IF run[k].mem.turn = NoTurn THEN "dispatch" ELSE "await")
  /\ UNCHANGED <<named, tickets, crashes, faults>> /\ UNCHANGED Codex

Dispatch(k) ==
  /\ At(k, "dispatch")
  /\ IF run[k].mem.phase = "ready" /\ run[k].mem.thread = "bound"
     THEN WriteAhead(k, "send", Dispatched(run[k].mem))
     ELSE Leave(k, "streaming") /\ NoFault
  /\ UNCHANGED tickets /\ UNCHANGED Screen /\ UNCHANGED Codex

Send(k) ==
  /\ At(k, "send")
  /\ LET a == run[k].mem.retries
     IN /\ sends' = [sends EXCEPT ![k][a] = @ + 1]
        /\ remote' = [remote EXCEPT ![k][a] = "sent"]
  /\ Move(k, "sent")
  /\ UNCHANGED <<tickets, thread, created, crashes, faults>> /\ UNCHANGED Screen

\* The answer names the Codex turn; a Stop pressed meanwhile interrupts it.
Answered(k) ==
  /\ At(k, "sent")
  /\ LET a == run[k].mem.retries
     IN /\ Visible(k, a)
        /\ Update(k, IF run[k].abort = "yes" THEN "interrupt" ELSE "await", BoundTurn(run[k].mem, a))
        /\ named' = [named EXCEPT ![k] = a]
  /\ NoFault
  /\ UNCHANGED <<message, stopAsked, tickets>> /\ UNCHANGED Codex

\* turn/start is answered with an error, or its answer and the read that
\* replaces it fail: the attempt stays pending.
Unanswered(k) ==
  /\ At(k, "sent")
  /\ Leave(k, "streaming")
  /\ UNCHANGED <<tickets, crashes, faults>> /\ UNCHANGED Screen /\ UNCHANGED Codex

\* No answer in time, but the thread shows the attempt.  A running turn is
\* followed without writing its id to the receipt.
AnsweredLate(k) ==
  /\ At(k, "sent")
  /\ LET a == run[k].mem.retries
     IN /\ Visible(k, a)
        /\ IF Status(k, a) = "inProgress"
           THEN Move(k, "await") /\ named' = [named EXCEPT ![k] = a]
           ELSE Project(k, a, "await")
  /\ NoFault
  /\ UNCHANGED <<message, stopAsked, tickets>> /\ UNCHANGED Codex

----------------------------------------------------------------------------
(* Following the turn to its end.                                          *)

\* turn/completed.  A refusal for lack of capacity is retried while the budget
\* lasts.  If the write is not acknowledged the stream fails and the turn is
\* left pending.
TurnCompleted(k) ==
  /\ run[k].at \in {"sent", "await", "interrupt"}
  /\ LET a == run[k].mem.retries
         d == Observed(run[k].mem, a, Status(k, a))
     IN /\ Visible(k, a) /\ Status(k, a) # "inProgress"
        /\ \/ /\ NoFault
              /\ IF remote[k][a] = "overloaded" /\ d.retries < Retries /\ run[k].abort = "no"
                 THEN Update(k, "retry", d)
                 ELSE LeaveWith(k, Shows(Status(k, a)), d)
           \/ /\ Fault /\ UNCHANGED crashes
              /\ run' = [run EXCEPT ![k] = Leaving(k, "streaming", @.mem)]
              /\ file' \in {file, [file EXCEPT ![k] = d]}
  /\ UNCHANGED tickets /\ UNCHANGED Screen /\ UNCHANGED Codex

\* The completion reconciler's read, when the notification is lost.
Reconcile(k) ==
  /\ At(k, "await")
  /\ run[k].abort = "no"
  /\ Visible(k, run[k].mem.retries)
  /\ Status(k, run[k].mem.retries) # "inProgress"
  /\ Project(k, run[k].mem.retries, "await")
  /\ NoFault
  /\ UNCHANGED <<message, stopAsked, tickets>> /\ UNCHANGED Codex

\* The event stream breaks.
StreamFails(k) ==
  /\ At(k, "await")
  /\ Fault
  /\ Leave(k, "streaming")
  /\ UNCHANGED <<tickets, crashes>> /\ UNCHANGED Screen /\ UNCHANGED Codex

Interrupted(k) == remote' = [remote EXCEPT ![k][run[k].mem.retries] = "interrupted"]

\* The runner's own turn/interrupt: confirmed, or answered with an error
\* because the turn has ended or the call was lost.
Interrupt(k) ==
  /\ At(k, "interrupt")
  /\ \/ /\ remote[k][run[k].mem.retries] = "inProgress"
        /\ Interrupted(k)
        /\ Show(k, "stopped")
        /\ run' = [run EXCEPT ![k] = [Leaving(k, "stopped", @.mem) EXCEPT !.over = "yes"]]
        /\ NoFault
     \/ /\ remote[k][run[k].mem.retries] # "inProgress"
        /\ Show(k, "error")
        /\ run' = [run EXCEPT ![k] = Leaving(k, "error", @.mem)]
        /\ NoFault /\ UNCHANGED remote
     \/ /\ Fault /\ UNCHANGED <<crashes, remote>>
        /\ Show(k, "error")
        /\ run' = [run EXCEPT ![k] = Leaving(k, "error", @.mem)]
  /\ UNCHANGED <<file, stopAsked, named, tickets, thread, sends, created>>

\* No progress within the limit: the terminal watchdog reads, then interrupts.
Watchdog(k) ==
  /\ At(k, "await")
  /\ run[k].abort = "no"
  /\ remote[k][run[k].mem.retries] = "inProgress"
  /\ Fault /\ UNCHANGED crashes
  /\ \/ /\ Interrupted(k)
        /\ Show(k, "error")
        /\ run' = [run EXCEPT ![k] = [Leaving(k, "error", @.mem) EXCEPT !.over = "yes"]]
     \/ /\ UNCHANGED <<remote, message>>
        /\ run' = [run EXCEPT ![k] = Leaving(k, "streaming", @.mem)]
  /\ UNCHANGED <<file, stopAsked, named, tickets, thread, sends, created>>

\* A fresh read proves the refusal and, after a delay that a Stop ends, the next
\* attempt is written ahead.
Retry(k) ==
  /\ At(k, "retry")
  /\ IF run[k].abort = "yes"
     THEN /\ \E s \in {"stopped", "error"} : Show(k, s) /\ Leave(k, s)
          /\ NoFault
     ELSE /\ UNCHANGED message
          /\ IF RetryEligible(run[k].mem)
             THEN WriteAhead(k, "again", Retried(run[k].mem))
             ELSE Leave(k, "streaming") /\ NoFault
  /\ UNCHANGED <<stopAsked, named, tickets>> /\ UNCHANGED Codex

----------------------------------------------------------------------------
(* Leaving.                                                                *)

\* The projection's batch with the last event is written.
Flush(k) ==
  /\ run[k].at \in {"leave", "close"}
  /\ run[k].says # "streaming"
  /\ message[k] = "streaming"
  /\ Show(k, run[k].says)
  /\ UNCHANGED <<file, run, stopAsked, named, tickets, crashes, faults>> /\ UNCHANGED Codex

\* The runner's finally: the admission goes unless model work is pending.  A
\* failing complete() is only logged.
Finally(k) ==
  /\ run[k].at \in {"leave", "again"}
  /\ LET r == run[k]
         releases == r.slot = "yes" /\ (~HasPendingModelTurn(r.mem) \/ r.over = "yes")
     IN \/ /\ tickets' = IF releases THEN Released(tickets, k, k) ELSE tickets
           /\ NoFault
        \/ releases /\ Fault /\ UNCHANGED <<tickets, crashes>>
  /\ run' = [run EXCEPT ![k] = 
       IF At(k, "again") THEN [Off EXCEPT !.at = "open", !.sees = run[k].sees]
       ELSE [@ EXCEPT !.at = "close", !.slot = "no"]]
  /\ UNCHANGED file /\ UNCHANGED Screen /\ UNCHANGED Codex

\* The route's finally: what the user was told is persisted.
Close(k) ==
  /\ At(k, "close")
  /\ run' = [run EXCEPT ![k] = Off]
  /\ Show(k, run[k].says)
  /\ UNCHANGED <<file, stopAsked, named, tickets, crashes, faults>> /\ UNCHANGED Codex

\* The server dies: files, Codex and the queue stay.
Crash ==
  /\ crashes < MaxCrashes
  /\ crashes' = crashes + 1
  /\ run' = [k \in Turns |-> Off]
  /\ stopAsked' = {}
  /\ UNCHANGED <<file, message, named, tickets, faults>> /\ UNCHANGED Codex

----------------------------------------------------------------------------
(* Codex.                                                                  *)

Server == <<file, run, message, stopAsked, named, tickets, crashes, faults>>

CodexOpensThread(k) ==
  /\ thread[k] = "asked"
  /\ \E s \in {"created", "refused"} : thread' = [thread EXCEPT ![k] = s]
  /\ UNCHANGED <<remote, sends, created>> /\ UNCHANGED Server

CodexTakes(k, a) ==
  /\ remote[k][a] = "sent"
  /\ \E s \in {"inProgress", "refused"} : remote' = [remote EXCEPT ![k][a] = s]
  /\ UNCHANGED <<thread, sends, created>> /\ UNCHANGED Server

CodexEnds(k, a) ==
  /\ remote[k][a] = "inProgress"
  /\ \E s \in {"completed", "failed", "overloaded"} : remote' = [remote EXCEPT ![k][a] = s]
  /\ UNCHANGED <<thread, sends, created>> /\ UNCHANGED Server

\* The worker dies with a request it has not taken, or a turn it was working on.
CodexLoses(k, a) ==
  /\ Fault
  /\ \/ remote[k][a] = "sent" /\ remote' = [remote EXCEPT ![k][a] = "lost"]
     \/ remote[k][a] = "inProgress" /\ remote' = [remote EXCEPT ![k][a] = "interrupted"]
  /\ UNCHANGED <<file, run, message, stopAsked, named, tickets, crashes, thread, sends, created>>

RunnerStep(k) ==
  \/ Open(k) \/ RecoverThread(k) \/ Register(k) \/ Enqueue(k) \/ QueueStops(k)
  \/ Resume(k) \/ StartThread(k) \/ AskThread(k) \/ ThreadAnswered(k)
  \/ Prepare(k) \/ Arm(k) \/ Dispatch(k) \/ Send(k) \/ Answered(k) \/ AnsweredLate(k)
  \/ TurnCompleted(k) \/ Reconcile(k) \/ Interrupt(k) \/ Retry(k)
  \/ Finally(k) \/ Close(k)

Trouble(k) ==
  \/ QueueFails(k) \/ Fails(k) \/ ThreadTimesOut(k) \/ Unanswered(k)
  \/ StreamFails(k) \/ Watchdog(k)

User(k) == Begin(k) \/ Reopen(k) \/ Stop(k) \/ ControlStop(k)

CodexStep(k) ==
  \/ CodexOpensThread(k)
  \/ \E a \in Attempts : CodexTakes(k, a) \/ CodexEnds(k, a) \/ CodexLoses(k, a)

Next == \/ \E k \in Turns : RunnerStep(k) \/ Trouble(k) \/ User(k) \/ Flush(k) \/ CodexStep(k)
        \/ Crash

Spec == Init /\ [][Next]_vars

\* A live runner makes progress, Codex ends what it takes, and a conversation
\* that still streams is reopened.
Fairness == \A k \in Turns :
  /\ WF_vars(RunnerStep(k))
  /\ WF_vars(Reopen(k))
  /\ WF_vars(\E a \in Attempts : CodexTakes(k, a) \/ CodexEnds(k, a))

LiveSpec == Spec /\ Fairness

----------------------------------------------------------------------------
(* Properties.                                                             *)

\* The type invariant.
TypeOK ==
  /\ file \in [Turns -> {NoFile} \union Receipt]
  /\ \A k \in Turns :
       /\ run[k].mem \in Receipt
       /\ run[k].slot \in {"no", "waiting", "yes"}
       /\ run[k].says \in {"streaming", "done", "stopped", "error"}
  /\ message \in [Turns -> {"none", "streaming", "done", "stopped", "error"}]
  /\ stopAsked \subseteq Turns
  /\ named \in [Turns -> Attempts \union {NoTurn}]
  /\ tickets \in Seq(Tickets(Turns, Turns))
  /\ thread \in [Turns -> {"none", "asked", "created", "refused"}]

\* One model turn per chat turn: an attempt is sent once, and a later attempt is
\* sent only after Codex refused the earlier ones without doing any work -
\* whatever crashed, was not acknowledged, or was reopened in between. Nor is the
\* Codex thread of a conversation created twice.
OneModelTurn ==
  /\ \A k \in Turns : created[k] + (IF k \in Opened THEN 1 ELSE 0) <= 1
  /\ \A k \in Turns, a \in Attempts :
       /\ sends[k][a] <= 1
       /\ sends[k][a] = 1 => \A b \in 0..(a - 1) : remote[k][b] = "overloaded"

\* A recorded end is the end of the turn in Codex, and the user is shown an answer
\* only if Codex completed the turn.
EndsAreTrue ==
  \A k \in Turns :
    /\ file[k] # NoFile /\ file[k].phase = "terminal" /\ file[k].turn # NoTurn
         => Status(k, file[k].turn) = file[k].terminal
    /\ message[k] = "done" => \E a \in Attempts : remote[k][a] = "completed"

\* Work that was sent and may still go on holds a slot of the installation, unless
\* the server was told that it is over. And the runner of an answered turn gave its
\* slot back: only a crash or a failed write between the answer and the release
\* leaves one behind, which nothing in the program ever gives back.
WorkHoldsItsTicket ==
  \A k \in Turns :
    /\ (\E a \in Attempts : remote[k][a] \in {"sent", "inProgress"}) => HoldsSlot(tickets, k)
    /\ HoldsSlot(tickets, k) /\ message[k] = "done" =>
         run[k].at # "off" \/ crashes > 0 \/ faults > 0

\* The user is shown "stopped" only when no model work goes on.
StoppedIsStopped ==
  \A k \in Turns : message[k] = "stopped"
                     => \A a \in Attempts : remote[k][a] \notin {"sent", "inProgress"}

\* A turn that Codex has ended is eventually shown as such.
EndsAreShown ==
  \A k \in Turns :
    (message[k] = "streaming" /\ \E a \in Attempts : remote[k][a] \in Ended)
      ~> message[k] # "streaming"
=============================================================================
