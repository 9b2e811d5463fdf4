--------------------------- MODULE AutomationRuns ---------------------------
(***************************************************************************)
(* One scheduled automation: its durable record                            *)
(* (src/src/automations/store.ts), the worker that claims it and drives    *)
(* its attempts (src/src/automations/runner.ts) and the conversation turn  *)
(* an attempt runs or recovers (src/src/automations/executor.ts).          *)
(*                                                                         *)
(* Every mutation of the record holds a lock (ResourceLock) and is one     *)
(* step; the run history is a journal to which nobody checks the right to  *)
(* append.  A worker is a process that sweeps; two exist while one replaces *)
(* the other.  An exception that leaves executeClaim ends the process.     *)
(*                                                                         *)
(* A run is an occurrence of the schedule, a number in time order, or a    *)
(* manual request.  Automations do not touch each other's records.         *)
(***************************************************************************)
EXTENDS Integers, Sequences

CONSTANTS Workers, NoWorker,
          Requests, NoRun, \* request ids of "run now"
          Occurrences,     \* bound: instants of the schedule; 1 is a single date
          MaxAttempts,     \* maxAttempts
          MaxEvents        \* bound: what the owner does, crashes and failed
                           \* writes; a lease a live worker lets expire counts twice

ASSUME RunsAssumption ==
  /\ NoWorker \notin Workers
  /\ Requests \intersect Int = {}
  /\ NoRun \notin Requests /\ NoRun \notin Int
  /\ {Occurrences, MaxAttempts} \subseteq Nat \ {0}
  /\ MaxEvents \in Nat

Occs == 1..Occurrences
Runs == Occs \union Requests
YesNo == {"yes", "no"}

VARIABLES task,     \* the record of the automation
          lease,    \* its claim: run, worker, whether it has not expired
          history,  \* run -> the status last appended for each attempt
          message,  \* run -> the assistant message in its conversation
          worker,   \* what each worker is doing
          asks,     \* "run now" requests past their first read
          clock,    \* the last instant of the schedule that has passed
          edits, crashes, faults, overruns

vars == <<task, lease, history, message, worker, asks, clock,
          edits, crashes, faults, overruns>>
bounds == <<edits, crashes, faults, overruns>>

Free == [run |-> NoRun, by |-> NoWorker, live |-> "no"]
Idle == [at |-> "idle", run |-> NoRun, attempt |-> 0, retried |-> "no",
         lost |-> "no", cancelled |-> "no"]

Init ==
  /\ task = [state |-> "active", next |-> 1, retry |-> "no", manual |-> NoRun,
             deleted |-> "no", cancel |-> "no", block |-> "no"]
  /\ lease = Free
  /\ history = [r \in Runs |-> << >>]
  /\ message = [r \in Runs |-> "none"]
  /\ worker = [w \in Workers |-> Idle]
  /\ asks = {}
  /\ clock = 0
  /\ edits = 0 /\ crashes = 0 /\ faults = 0 /\ overruns = 0

Events == edits + crashes + faults + 2 * overruns
Claimed == lease.run # NoRun
YesIf(b) == IF b THEN "yes" ELSE "no"

\* The first instant after t, 0 when the schedule has none.
InstantAfter(t) == IF t < Occurrences THEN t + 1 ELSE 0
Later(a, b) == IF a < b THEN b ELSE a

\* nextAfterOccurrence(max(now, scheduledFor)).
NextAfter(r) == InstantAfter(IF r \in Occs THEN Later(clock, r) ELSE clock)

----------------------------------------------------------------------------
(* The owner.                                                              *)

Owner == Events < MaxEvents /\ edits' = edits + 1

\* A change of state and, possibly, of the instructions or the schedule.
Update(s, kind) ==
  LET invalidates == s = "paused" \/ kind # "rename"
      replans == s = "active" /\ (kind = "schedule" \/ task.state # "active")
  IN /\ Owner
     /\ task.deleted = "no"
     /\ ~(task.block = "yes" /\ s = "active")
     /\ replans => InstantAfter(clock) # 0
     /\ task' = [task EXCEPT
          !.state = s,
          !.retry = IF s = "paused" \/ kind = "schedule" THEN "no" ELSE @,
          !.cancel = IF invalidates /\ Claimed THEN "yes"
                     ELSE IF s = "active" THEN "no" ELSE @,
          !.next = IF replans THEN InstantAfter(clock) ELSE @]
     /\ UNCHANGED <<lease, history, worker, asks, clock, crashes, faults, overruns>>
     /\ UNCHANGED message

Patch ==
  \E s \in {"active", "paused", task.state}, kind \in {"rename", "edit", "schedule"} :
    Update(s, kind)

\* The operator blocks an automation whose connection is not ready, or unblocks
\* it; either way it stays paused.
SetPreparationBlock(b) ==
  /\ Owner
  /\ task.deleted = "no"
  /\ task' = [task EXCEPT !.block = b, !.state = "paused", !.manual = NoRun,
                          !.retry = "no", !.next = 0, !.cancel = YesIf(Claimed)]
  /\ UNCHANGED <<lease, history, worker, asks, clock, crashes, faults, overruns>>
  /\ UNCHANGED message

Delete ==
  /\ Owner
  /\ task.deleted = "no"
  /\ task' = [task EXCEPT !.state = "paused", !.retry = "no", !.deleted = "yes",
                          !.cancel = YesIf(Claimed)]
  /\ UNCHANGED <<lease, history, worker, asks, clock, crashes, faults, overruns>>
  /\ UNCHANGED message

\* "Run now" reads the history before it takes the lock of the record.
AskRun(r) ==
  /\ Owner
  /\ r \notin asks
  /\ history[r] = << >>
  /\ asks' = asks \union {r}
  /\ UNCHANGED <<task, lease, history, message, worker, clock, crashes, faults, overruns>>

AcceptRun(r) ==
  /\ r \in asks
  /\ asks' = asks \ {r}
  /\ task' = IF task.deleted = "no" /\ task.block = "no" /\ task.manual = NoRun /\ ~Claimed
             THEN [task EXCEPT !.manual = r] ELSE task
  /\ UNCHANGED <<lease, history, worker, clock>>
  /\ UNCHANGED message /\ UNCHANGED bounds

Tick ==
  /\ clock < Occurrences
  /\ clock' = clock + 1
  /\ UNCHANGED <<task, lease, history, worker, asks>>
  /\ UNCHANGED message /\ UNCHANGED bounds

----------------------------------------------------------------------------
(* The record, as a worker changes it.                                     *)

\* The run a claim would take: what the owner asked for, or the next instant.
Scheduled == IF task.manual # NoRun THEN task.manual ELSE task.next

\* MUTANT of Claimable: a claim does not respect the lease of another worker.
ClaimableAlways ==
  /\ task.block = "no" /\ task.deleted = "no"
  /\ task.manual # NoRun \/ task.state = "active"
  /\ Scheduled # 0
  /\ task.retry = "yes" \/ task.manual # NoRun \/ task.next <= clock

\* MUTANT of Claimable: an expired lease is not taken over.
ClaimableOnlyFree == ClaimableAlways /\ ~Claimed

Claimable ==
  /\ task.block = "no" /\ task.deleted = "no"
  /\ task.manual # NoRun \/ task.state = "active"
  /\ Scheduled # 0
  /\ task.retry = "yes" \/ task.manual # NoRun \/ task.next <= clock
  /\ lease.live = "no"

Holds(w) == lease.by = w /\ lease.run = worker[w].run

Settled(r) ==
  LET done == IF task.manual # NoRun /\ r = task.manual THEN [task EXCEPT !.manual = NoRun]
              ELSE IF task.deleted = "yes" THEN [task EXCEPT !.next = 0, !.state = "completed"]
              ELSE IF task.state = "paused" THEN [task EXCEPT !.next = 0]
              ELSE [task EXCEPT !.next = NextAfter(r),
                                !.state = IF NextAfter(r) # 0 THEN "active" ELSE "completed"]
  IN [done EXCEPT !.retry = "no", !.cancel = "no"]

\* MUTANT of ToBeRetried: the retry is set on a paused or deleted record too.
ToBeRetriedAlways == [task EXCEPT !.retry = "yes", !.cancel = "no"]

ToBeRetried ==
  [task EXCEPT !.retry = YesIf(task.deleted = "no" /\ (task.state = "active" \/ task.manual # NoRun)),
               !.cancel = "no"]

Cancelled ==
  \/ task.deleted = "yes"
  \/ task.manual = NoRun /\ task.state # "active"
  \/ task.cancel = "yes"

\* The history with a status for an attempt.
Appended(r, attempt, s) ==
  [history EXCEPT ![r] = IF attempt > Len(@) THEN Append(@, s) ELSE [@ EXCEPT ![attempt] = s]]

Latest(r) == IF history[r] = << >> THEN "none" ELSE history[r][Len(history[r])]

----------------------------------------------------------------------------
(* The worker.                                                             *)

At(w, p) == worker[w].at = p
Go(w, p) == worker' = [worker EXCEPT ![w].at = p]
Leave(w) == worker' = [worker EXCEPT ![w] = Idle]
Fault == Events < MaxEvents /\ faults' = faults + 1

\* The process of w ends; what it holds nobody holds.
Ends(w) ==
  /\ Leave(w)
  /\ lease' = IF lease.by = w THEN [lease EXCEPT !.by = NoWorker] ELSE lease

ClaimDue(w) ==
  /\ At(w, "idle")
  /\ Claimable
  /\ lease' = [run |-> Scheduled, by |-> w, live |-> "yes"]
  /\ worker' = [worker EXCEPT ![w] = [Idle EXCEPT !.at = "look", !.run = Scheduled,
                                                  !.retried = task.retry]]
  /\ UNCHANGED <<task, history, asks, clock>>
  /\ UNCHANGED message /\ UNCHANGED bounds

\* MUTANT of Final: a recorded success is not looked for.
FinalFailureOnly(w) == Latest(worker[w].run) = "failed" /\ worker[w].retried = "no"

\* A recorded end is final, unless the record says that it will be retried.
Final(w) ==
  LET s == Latest(worker[w].run)
  IN s = "succeeded" \/ (s = "failed" /\ worker[w].retried = "no")

Look(w) ==
  /\ At(w, "look")
  /\ IF Final(w) THEN Go(w, "reconcile")
     ELSE worker' = [worker EXCEPT ![w].at = "open",
                                   ![w].attempt = Len(history[worker[w].run]) + 1]
  /\ UNCHANGED <<task, lease, history, asks, clock>>
  /\ UNCHANGED message /\ UNCHANGED bounds

\* The end a predecessor recorded is settled.
Reconcile(w) ==
  /\ At(w, "reconcile")
  /\ IF Holds(w)
     THEN task' = Settled(worker[w].run) /\ lease' = Free /\ Leave(w)
     ELSE UNCHANGED task /\ Ends(w)
  /\ UNCHANGED <<history, asks, clock>>
  /\ UNCHANGED message /\ UNCHANGED bounds

Open(w) ==
  /\ At(w, "open")
  /\ history' = Appended(worker[w].run, worker[w].attempt, "running")
  /\ Go(w, "begin")
  /\ UNCHANGED <<task, lease, asks, clock>>
  /\ UNCHANGED message /\ UNCHANGED bounds

\* MUTANT of Answered: an answer that is there is not looked for.
AnsweredNever(r) == message[r] = "none" /\ message[r] = "complete"

Answered(r) == message[r] = "complete"

\* The conversation is ready, which is recorded when it is new, and the turn
\* begins: a complete answer is taken as it is, anything else runs or recovers.
\* It may also be refused: the project, a permission or a limit has changed.
Begin(w) ==
  LET r == worker[w].run
  IN /\ At(w, "begin")
     /\ history' \in {history, Appended(r, worker[w].attempt, "running")}
     /\ \/ Go(w, "caught") /\ UNCHANGED message
        \/ Answered(r) /\ Go(w, "final") /\ UNCHANGED message
        \/ /\ ~Answered(r)
           /\ Go(w, "turn")
           /\ message' = [message EXCEPT ![r] = "streaming"]
     /\ UNCHANGED <<task, lease, asks, clock>> /\ UNCHANGED bounds

\* The turn completes, or it fails, is aborted or times out.
TurnEnds(w) ==
  /\ At(w, "turn")
  /\ \E s \in {"complete", "error"} :
       /\ message' = [message EXCEPT ![worker[w].run] = s]
       /\ Go(w, IF s = "complete" THEN "final" ELSE "caught")
  /\ UNCHANGED <<task, lease, history, asks, clock>> /\ UNCHANGED bounds

\* What renewLease answers.
Renewal(w) == IF ~Holds(w) THEN "lost" ELSE IF Cancelled THEN "cancelled" ELSE "renewed"

Noted(w) == [worker[w] EXCEPT !.lost = IF Renewal(w) = "lost" THEN "yes" ELSE @,
                              !.cancelled = IF Renewal(w) = "cancelled" THEN "yes" ELSE @]

Extended(w) == IF Renewal(w) = "renewed" THEN [lease EXCEPT !.live = "yes"] ELSE lease

\* The timer, from the first append to the end of the claim.  A renewal that
\* fails for whatever reason counts as a lost lease.
RenewTimer(w) ==
  /\ worker[w].at \in {"begin", "turn", "final", "record", "done", "caught", "after"}
  /\ \/ /\ worker' = [worker EXCEPT ![w] = Noted(w)]
        /\ lease' = Extended(w)
        /\ UNCHANGED faults
     \/ /\ Fault
        /\ worker' = [worker EXCEPT ![w].lost = "yes"]
        /\ UNCHANGED lease
  /\ worker' # worker \/ lease' # lease
  /\ UNCHANGED <<task, history, asks, clock, edits, crashes, overruns>>
  /\ UNCHANGED message

\* The last renewal before the end is recorded; the time limit may have passed.
Renew(w) ==
  /\ At(w, "final")
  /\ \E p \in {"record", "caught"} :
       /\ p = "record" => Noted(w).lost = "no" /\ Noted(w).cancelled = "no"
       /\ worker' = [worker EXCEPT ![w] = [Noted(w) EXCEPT !.at = p]]
  /\ lease' = Extended(w)
  /\ UNCHANGED <<task, history, asks, clock>>
  /\ UNCHANGED message /\ UNCHANGED bounds

Record(w) ==
  /\ At(w, "record")
  /\ \/ /\ history' = Appended(worker[w].run, worker[w].attempt, "succeeded")
        /\ Go(w, "done") /\ UNCHANGED faults
     \/ /\ Fault /\ Go(w, "caught") /\ UNCHANGED history
  /\ UNCHANGED <<task, lease, asks, clock, edits, crashes, overruns>>
  /\ UNCHANGED message

Settle(w) ==
  /\ At(w, "done")
  /\ \/ /\ Holds(w)
        /\ task' = Settled(worker[w].run) /\ lease' = Free
        /\ Leave(w) /\ UNCHANGED faults
     \/ /\ ~Holds(w) /\ Go(w, "caught") /\ UNCHANGED <<task, lease, faults>>
     \/ /\ Fault /\ Go(w, "caught") /\ UNCHANGED <<task, lease>>
  /\ UNCHANGED <<history, asks, clock, edits, crashes, overruns>>
  /\ UNCHANGED message

\* A worker that knows it lost its lease writes nothing.
Caught(w) ==
  /\ At(w, "caught")
  /\ \/ /\ worker[w].lost = "yes"
        /\ Ends(w) /\ UNCHANGED <<history, faults>>
     \/ /\ worker[w].lost = "no"
        /\ history' = Appended(worker[w].run, worker[w].attempt, "failed")
        /\ Go(w, "after") /\ UNCHANGED <<lease, faults>>
     \/ /\ worker[w].lost = "no"
        /\ Fault /\ Ends(w) /\ UNCHANGED history
  /\ UNCHANGED <<task, asks, clock, edits, crashes, overruns>>
  /\ UNCHANGED message

\* MUTANT of Retries: one attempt too many.
RetriesOneMore(w) == worker[w].cancelled = "no" /\ worker[w].attempt <= MaxAttempts

Retries(w) == worker[w].cancelled = "no" /\ worker[w].attempt < MaxAttempts

After(w) ==
  /\ At(w, "after")
  /\ \/ /\ Holds(w)
        /\ task' = IF Retries(w) THEN ToBeRetried ELSE Settled(worker[w].run)
        /\ lease' = Free /\ Leave(w) /\ UNCHANGED faults
     \/ /\ ~Holds(w) /\ Ends(w) /\ UNCHANGED <<task, faults>>
     \/ /\ Fault /\ Ends(w) /\ UNCHANGED task
  /\ UNCHANGED <<history, asks, clock, edits, crashes, overruns>>
  /\ UNCHANGED message

Crash(w) ==
  /\ Events < MaxEvents
  /\ crashes' = crashes + 1
  /\ ~At(w, "idle")
  /\ Ends(w)
  /\ UNCHANGED <<task, history, asks, clock, edits, faults, overruns>>
  /\ UNCHANGED message

\* A lease outlives its expiry while nobody renews it.
Expire ==
  /\ lease.live = "yes"
  /\ lease' = [lease EXCEPT !.live = "no"]
  /\ IF lease.by = NoWorker THEN UNCHANGED overruns
     ELSE Events + 2 <= MaxEvents /\ overruns' = overruns + 1
  /\ UNCHANGED <<task, history, worker, asks, clock, edits, crashes, faults>>
  /\ UNCHANGED message

----------------------------------------------------------------------------
WorkerStep(w) ==
  \/ ClaimDue(w) \/ Look(w) \/ Reconcile(w) \/ Open(w) \/ Begin(w) \/ TurnEnds(w)
  \/ Renew(w) \/ Record(w) \/ Settle(w) \/ Caught(w) \/ After(w)

User ==
  \/ Patch \/ Delete
  \/ \E b \in YesNo : SetPreparationBlock(b)
  \/ \E r \in Requests : AskRun(r) \/ AcceptRun(r)

Next ==
  \/ User \/ Tick \/ Expire
  \/ \E w \in Workers : WorkerStep(w) \/ RenewTimer(w) \/ Crash(w)

Spec == Init /\ [][Next]_vars

\* A supervised worker sweeps again and again and every call it makes ends, by
\* its time limit at the latest; a lease nobody renews expires.  Nothing is
\* asked of the owner, of the calendar or of the crashes.
Fairness ==
  /\ \A w \in Workers : WF_vars(WorkerStep(w))
  /\ WF_vars(Expire)

FairSpec == Spec /\ Fairness

----------------------------------------------------------------------------
(* Properties.                                                             *)

\* Every variable stays in its domain; a planned instant is one of the schedule.
TypeOK ==
  /\ task \in [state : {"active", "paused", "completed"}, next : 0..Occurrences,
               retry : YesNo, manual : Requests \union {NoRun}, deleted : YesNo,
               cancel : YesNo, block : YesNo]
  /\ lease \in [run : Runs \union {NoRun}, by : Workers \union {NoWorker}, live : YesNo]
  /\ history \in [Runs -> Seq({"running", "succeeded", "failed"})]
  /\ message \in [Runs -> {"none", "streaming", "complete", "error"}]
  /\ worker \in [Workers ->
       [at : {"idle", "look", "reconcile", "open", "begin", "turn", "final", "record",
              "done", "caught", "after"},
        run : Runs \union {NoRun}, attempt : Nat, retried : YesNo,
        lost : YesNo, cancelled : YesNo]]
  /\ asks \subseteq Requests
  /\ clock \in 0..Occurrences
  /\ {edits, crashes, faults, overruns} \subseteq Nat

\* An occurrence of the schedule is attempted at most maxAttempts times, plus
\* once for each crash, failed write and lease overrun that cut an attempt
\* short, and for each intervention of the owner: a retry that an attempt
\* leaves after the plan has changed belongs to the next occurrence
\* (src/src/automations/runner.ts:161, store.ts:494).
AttemptsBounded ==
  \A o \in Occs :
    Len(history[o]) <= MaxAttempts + crashes + faults + overruns + edits

\* A paused or deleted automation nobody asked to run has no retry waiting,
\* whatever its last attempt was doing when the owner stopped it, so that
\* nothing of the past runs when it is resumed (store.ts:315 and :494).
Quiet ==
  (task.state = "paused" \/ task.deleted = "yes") /\ task.manual = NoRun => task.retry = "no"

Succeeded(r) == \E i \in DOMAIN history[r] : history[r][i] = "succeeded"

\* While every live worker keeps its lease and no write fails, a recorded
\* success closes the history of its run: across a crash before the settlement
\* the next worker settles it and appends nothing (runner.ts:34-46).
FinalWhilePunctual ==
  [][\A r \in Runs : overruns' = 0 /\ faults' = 0 /\ Succeeded(r)
       => history'[r] = history[r]]_vars

\* While every live worker keeps its lease, the complete answer of a run is
\* never replaced: crashes, failed writes and retries recover it instead of
\* asking the model again (executor.ts:165-169, runner.ts:88-89).
AnswerKept ==
  [][\A r \in Runs : overruns' = 0 /\ message[r] = "complete"
       => message'[r] = "complete"]_vars

\* A turn of run r begins.
TurnStarts(r) ==
  \E w \in Workers : worker[w].run = r /\ ~At(w, "turn") /\ worker'[w].at = "turn"

\* Once the plan has moved past an occurrence, no turn of it begins, unless its
\* claim is still the current one (store.ts:301-304).
NotReplayed ==
  [][\A o \in Occs : overruns' = 0 /\ task.next > o /\ lease.run # o => ~TurnStarts(o)]_vars

Runnable == task.state = "active" /\ task.deleted = "no" /\ task.block = "no"
Due(o) == task.next = o /\ o <= clock /\ Runnable

\* An occurrence that is due while the automation is active does not stay so:
\* it is settled, or the owner changes the plan, in spite of crashes, failed
\* writes and two workers that believe they own it (runner.ts:27, store.ts:404).
DueIsSettled == \A o \in Occs : Due(o) ~> ~Due(o)
=============================================================================
