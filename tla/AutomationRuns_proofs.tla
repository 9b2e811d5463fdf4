----------------------- MODULE AutomationRuns_proofs -----------------------
(***************************************************************************)
(* For any workers, requests, instants, attempts and bounds: what the owner *)
(* stops is not retried; the attempts of an occurrence are bounded by what   *)
(* went wrong; and while every live worker keeps its lease, a complete      *)
(* answer is not asked for again, an occurrence behind the plan is not run  *)
(* again, and a recorded success is the end of its run.                     *)
(***************************************************************************)
EXTENDS AutomationRuns, SequenceTheorems, FiniteSetTheorems, TLAPS

Tasks ==
  [state : {"active", "paused", "completed"}, next : 0..Occurrences,
   retry : YesNo, manual : Requests \union {NoRun}, deleted : YesNo,
   cancel : YesNo, block : YesNo]
Leases == [run : Runs \union {NoRun}, by : Workers \union {NoWorker}, live : YesNo]
Statuses == {"running", "succeeded", "failed"}
WorkerStates ==
  [at : {"idle", "look", "reconcile", "open", "begin", "turn", "final", "record",
         "done", "caught", "after"},
   run : Runs \union {NoRun}, attempt : Nat, retried : YesNo,
   lost : YesNo, cancelled : YesNo]

\* The run of a worker that has one.
Running == \A w \in Workers : ~At(w, "idle") => worker[w].run \in Runs

Types == TypeOK /\ Running

----------------------------------------------------------------------------
(* What the operators return.                                              *)

LEMMA Answers == \A b \in BOOLEAN : YesIf(b) \in YesNo
  BY DEF YesIf, YesNo

LEMMA Instants ==
  ASSUME clock \in 0..Occurrences, NEW r \in Runs
  PROVE  InstantAfter(clock) \in 0..Occurrences /\ NextAfter(r) \in 0..Occurrences
  <1>1. \A t \in 0..Occurrences : InstantAfter(t) \in 0..Occurrences
    BY RunsAssumption DEF InstantAfter
  <1>2. (IF r \in Occs THEN Later(clock, r) ELSE clock) \in 0..Occurrences
    BY RunsAssumption DEF Later, Occs
  <1> QED BY <1>1, <1>2 DEF NextAfter

LEMMA SettledIsATask ==
  ASSUME Types, NEW r \in Runs
  PROVE  Settled(r) \in Tasks /\ Settled(r).retry = "no"
  <1>1. task \in Tasks /\ NextAfter(r) \in 0..Occurrences
    BY Instants DEF Types, TypeOK, Tasks
  <1> DEFINE n == NextAfter(r)
             done == IF task.manual # NoRun /\ r = task.manual THEN [task EXCEPT !.manual = NoRun]
                     ELSE IF task.deleted = "yes" THEN [task EXCEPT !.next = 0, !.state = "completed"]
                     ELSE IF task.state = "paused" THEN [task EXCEPT !.next = 0]
                     ELSE [task EXCEPT !.next = n, !.state = IF n # 0 THEN "active" ELSE "completed"]
  <1>2. 0 \in 0..Occurrences
    BY RunsAssumption
  <1>3. done \in Tasks
    <2> HIDE DEF n
    <2>1. n \in 0..Occurrences
      BY <1>1 DEF n
    <2>2. (IF n # 0 THEN "active" ELSE "completed") \in {"active", "paused", "completed"}
      OBVIOUS
    <2> QED BY <1>1, <1>2, <2>1, <2>2 DEF Tasks
  <1>4. Settled(r) = [done EXCEPT !.retry = "no", !.cancel = "no"]
    BY DEF Settled
  <1> HIDE DEF done
  <1> QED BY <1>3, <1>4 DEF Tasks, YesNo

LEMMA RetriedIsATask == ASSUME Types PROVE ToBeRetried \in Tasks
  BY Answers DEF Types, TypeOK, Tasks, ToBeRetried, YesNo, YesIf

LEMMA AppendedIsAHistory ==
  ASSUME history \in [Runs -> Seq(Statuses)], NEW r \in Runs, NEW n \in Nat, NEW s \in Statuses
  PROVE  Appended(r, n, s) \in [Runs -> Seq(Statuses)]
  <1>1. history[r] \in Seq(Statuses)
    OBVIOUS
  <1>2. Append(history[r], s) \in Seq(Statuses)
    BY <1>1
  <1>3. n <= Len(history[r]) => [history[r] EXCEPT ![n] = s] \in Seq(Statuses)
    <2>1. CASE n \in 1..Len(history[r])
      BY <1>1, <2>1, ExceptSeq
    <2>2. CASE n \notin 1..Len(history[r])
      <3> DEFINE h == history[r]
      <3>1. h \in [1..Len(h) -> Statuses] /\ DOMAIN h = 1..Len(h)
        BY <1>1
      <3>2. [h EXCEPT ![n] = s] = [i \in 1..Len(h) |-> h[i]]
        BY <2>2, <3>1
      <3>3. h = [i \in 1..Len(h) |-> h[i]]
        BY <3>1
      <3> QED BY <1>1, <3>2, <3>3
    <2> QED BY <2>1, <2>2
  <1> QED BY <1>1, <1>2, <1>3 DEF Appended

LEMMA ScheduledIsARun == ASSUME Types PROVE Scheduled \in Runs \union {0}
  BY RunsAssumption DEF Types, TypeOK, Scheduled, Runs, Occs

----------------------------------------------------------------------------
(* Every variable stays in its domain.                                     *)

LEMMA TypesInit == Init => Types
  BY RunsAssumption DEF Init, Types, TypeOK, Running, Free, Idle, At, YesNo

\* A worker takes a new state; nobody else changes.
LEMMA WorkerTypes ==
  ASSUME Types, NEW w \in Workers, NEW x \in WorkerStates, x.at # "idle" => x.run \in Runs,
         worker' = [worker EXCEPT ![w] = x]
  PROVE  worker' \in [Workers -> WorkerStates] /\ Running'
  BY DEF Types, TypeOK, Running, At, WorkerStates

LEMMA IdleIsAState == Idle \in WorkerStates /\ Idle.at = "idle"
  BY DEF Idle, WorkerStates, YesNo

\* The fields of a task are changed one by one.
LEMMA TaskWith ==
  ASSUME NEW t \in Tasks
  PROVE  /\ \A v \in {"active", "paused", "completed"} : [t EXCEPT !.state = v] \in Tasks
         /\ \A v \in 0..Occurrences : [t EXCEPT !.next = v] \in Tasks
         /\ \A v \in YesNo : /\ [t EXCEPT !.retry = v] \in Tasks
                           /\ [t EXCEPT !.deleted = v] \in Tasks
                           /\ [t EXCEPT !.cancel = v] \in Tasks
                           /\ [t EXCEPT !.block = v] \in Tasks
         /\ \A v \in Requests \union {NoRun} : [t EXCEPT !.manual = v] \in Tasks
  BY DEF Tasks

LEMMA UpdateTypes ==
  ASSUME Types, NEW s \in {"active", "paused", task.state},
         NEW kind \in {"rename", "edit", "schedule"}, Update(s, kind)
  PROVE  task' \in Tasks
  <1> DEFINE replans == s = "active" /\ (kind = "schedule" \/ task.state # "active")
             retry == IF s = "paused" \/ kind = "schedule" THEN "no" ELSE task.retry
             cancel == IF (s = "paused" \/ kind # "rename") /\ Claimed THEN "yes"
                       ELSE IF s = "active" THEN "no" ELSE task.cancel
             next == IF replans THEN InstantAfter(clock) ELSE task.next
             t1 == [task EXCEPT !.state = s]
             t2 == [t1 EXCEPT !.retry = retry]
             t3 == [t2 EXCEPT !.cancel = cancel]
  <1>1. task \in Tasks /\ InstantAfter(clock) \in 0..Occurrences
    BY RunsAssumption DEF Types, TypeOK, Tasks, InstantAfter
  <1>2. s \in {"active", "paused", "completed"} /\ retry \in YesNo /\ cancel \in YesNo
        /\ next \in 0..Occurrences
    BY <1>1 DEF Tasks, YesNo
  <1>3. task' = [t3 EXCEPT !.next = next]
    BY DEF Update
  <1> HIDE DEF retry, cancel, next
  <1>4. t1 \in Tasks
    BY <1>1, <1>2, TaskWith
  <1> HIDE DEF t1
  <1>5. t2 \in Tasks
    BY <1>4, <1>2, TaskWith
  <1> HIDE DEF t2
  <1>6. t3 \in Tasks
    BY <1>5, <1>2, TaskWith
  <1> HIDE DEF t3
  <1> QED BY <1>3, <1>6, <1>2, TaskWith

LEMMA BlockTypes ==
  ASSUME Types, NEW b \in YesNo, SetPreparationBlock(b)
  PROVE  task' \in Tasks
  <1> DEFINE t1 == [task EXCEPT !.block = b]
             t2 == [t1 EXCEPT !.state = "paused"]
             t3 == [t2 EXCEPT !.manual = NoRun]
             t4 == [t3 EXCEPT !.retry = "no"]
             t5 == [t4 EXCEPT !.next = 0]
  <1>1. t1 \in Tasks
    BY TaskWith DEF Types, TypeOK, Tasks
  <1>2. task' = [t5 EXCEPT !.cancel = YesIf(Claimed)]
    BY DEF SetPreparationBlock
  <1> HIDE DEF t1
  <1>3. t2 \in Tasks
    BY <1>1, TaskWith
  <1> HIDE DEF t2
  <1>4. t3 \in Tasks
    BY <1>3, TaskWith
  <1> HIDE DEF t3
  <1>5. t4 \in Tasks
    BY <1>4, TaskWith DEF YesNo
  <1> HIDE DEF t4
  <1>6. t5 \in Tasks
    <2>1. 0 \in 0..Occurrences
      BY RunsAssumption
    <2> QED BY <1>5, <2>1, TaskWith
  <1> HIDE DEF t5
  <1> QED BY <1>2, <1>6, TaskWith DEF YesIf, YesNo, Claimed

LEMMA DeleteTypes == ASSUME Types, Delete PROVE task' \in Tasks
  <1> DEFINE t1 == [task EXCEPT !.state = "paused"]
             t2 == [t1 EXCEPT !.retry = "no"]
             t3 == [t2 EXCEPT !.deleted = "yes"]
  <1>1. t1 \in Tasks
    BY TaskWith DEF Types, TypeOK, Tasks
  <1>2. task' = [t3 EXCEPT !.cancel = YesIf(Claimed)]
    BY DEF Delete
  <1> HIDE DEF t1
  <1>3. t2 \in Tasks
    BY <1>1, TaskWith DEF YesNo
  <1> HIDE DEF t2
  <1>4. t3 \in Tasks
    BY <1>3, TaskWith DEF YesNo
  <1> HIDE DEF t3
  <1> QED BY <1>2, <1>4, TaskWith DEF YesIf, YesNo, Claimed

LEMMA OwnerTypesTask ==
  ASSUME Types, Owner, task' \in Tasks,
         UNCHANGED <<lease, history, worker, asks, clock, crashes, faults, overruns>>,
         UNCHANGED message
  PROVE  Types'
  BY DEF Types, TypeOK, Running, At, Tasks, Owner

LEMMA OwnerTypes == Types /\ User => Types'
  <1> SUFFICES ASSUME Types, User PROVE Types'
    OBVIOUS
  <1>1. ASSUME NEW s \in {"active", "paused", task.state}, NEW kind \in {"rename", "edit", "schedule"},
               Update(s, kind)
        PROVE  Types'
    <2>1. task' \in Tasks
      BY <1>1, UpdateTypes
    <2>2. Owner /\ UNCHANGED <<lease, history, worker, asks, clock, crashes, faults, overruns>>
          /\ UNCHANGED message
      BY <1>1 DEF Update
    <2> QED BY <2>1, <2>2, OwnerTypesTask
  <1>2. ASSUME NEW b \in YesNo, SetPreparationBlock(b) PROVE Types'
    <2>1. task' \in Tasks
      BY <1>2, BlockTypes
    <2> QED BY <1>2, <2>1, OwnerTypesTask DEF SetPreparationBlock
  <1>3. ASSUME Delete PROVE Types'
    <2>1. task' \in Tasks
      BY <1>3, DeleteTypes
    <2> QED BY <1>3, <2>1, OwnerTypesTask DEF Delete
  <1>4. ASSUME NEW r \in Requests, AskRun(r) PROVE Types'
    BY <1>4 DEF AskRun, Owner, Types, TypeOK, Running, At
  <1>5. ASSUME NEW r \in Requests, AcceptRun(r) PROVE Types'
    <2>1. task' \in Tasks
      BY <1>5, TaskWith DEF AcceptRun, Types, TypeOK, Tasks
    <2> QED BY <1>5, <2>1 DEF AcceptRun, bounds, Types, TypeOK, Running, At, Tasks
  <1> QED BY <1>1, <1>2, <1>3, <1>4, <1>5 DEF User, Patch

\* What a step of a worker does to its own state and to the lease.
LEMMA WorkerMoves ==
  ASSUME Types, NEW w \in Workers
  PROVE  /\ \A p \in {"look", "reconcile", "open", "begin", "turn", "final", "record", "done", "caught", "after"} :
              ~At(w, "idle") /\ Go(w, p) => worker' \in [Workers -> WorkerStates] /\ Running'
         /\ Leave(w) => worker' \in [Workers -> WorkerStates] /\ Running'
         /\ Ends(w) => lease' \in Leases
  <1>1. ASSUME NEW p \in {"look", "reconcile", "open", "begin", "turn", "final", "record", "done", "caught", "after"},
               ~At(w, "idle"), Go(w, p)
        PROVE  worker' \in [Workers -> WorkerStates] /\ Running'
    <2> DEFINE x == [worker[w] EXCEPT !.at = p]
    <2>0. worker[w] \in WorkerStates /\ worker[w].run \in Runs
      BY <1>1 DEF Types, TypeOK, Running, At, WorkerStates
    <2>1. x \in WorkerStates /\ x.run \in Runs
      BY <1>1, <2>0 DEF WorkerStates
    <2>2. worker' = [worker EXCEPT ![w] = x]
      BY <1>1 DEF Go
    <2> HIDE DEF x
    <2> QED BY <2>1, <2>2, WorkerTypes
  <1>2. ASSUME Leave(w) PROVE worker' \in [Workers -> WorkerStates] /\ Running'
    BY <1>2, IdleIsAState, WorkerTypes DEF Leave
  <1>3. ASSUME Ends(w) PROVE lease' \in Leases
    BY <1>3 DEF Ends, Types, TypeOK, Leases
  <1> QED BY <1>1, <1>2, <1>3

LEMMA RenewalTypes ==
  ASSUME Types, NEW w \in Workers
  PROVE  /\ Noted(w) \in WorkerStates
         /\ Noted(w).run = worker[w].run /\ Noted(w).at = worker[w].at
         /\ Noted(w).attempt = worker[w].attempt
         /\ Extended(w) \in Leases
         /\ Extended(w).run = lease.run /\ Extended(w).by = lease.by
         /\ Extended(w).live \in {lease.live, "yes"}
  <1>1. worker[w] \in WorkerStates /\ lease \in Leases
    BY DEF Types, TypeOK, WorkerStates, Leases
  <1>2. PICK a \in YesNo, b \in YesNo : Noted(w) = [worker[w] EXCEPT !.lost = a, !.cancelled = b]
    BY <1>1 DEF Noted, WorkerStates, YesNo
  <1> QED BY <1>1, <1>2 DEF Extended, WorkerStates, Leases, YesNo

Messages == {"none", "streaming", "complete", "error"}

LEMMA TypesFrom ==
  ASSUME Types, task' \in Tasks, lease' \in Leases, history' \in [Runs -> Seq(Statuses)],
         message' \in [Runs -> Messages], worker' \in [Workers -> WorkerStates], Running',
         clock' \in 0..Occurrences, asks' = asks, edits' = edits,
         crashes' \in {crashes, crashes + 1}, faults' \in {faults, faults + 1},
         overruns' \in {overruns, overruns + 1}
  PROVE  Types'
  <1>1. {edits', crashes', faults', overruns'} \subseteq Nat
    BY DEF Types, TypeOK
  <1>2. asks' \subseteq Requests
    BY DEF Types, TypeOK
  <1>3. TypeOK'
    BY <1>1, <1>2 DEF TypeOK, Tasks, Leases, WorkerStates, Messages, Statuses
  <1> QED BY <1>3 DEF Types

LEMMA TypesNow ==
  ASSUME Types
  PROVE  /\ task \in Tasks /\ lease \in Leases /\ history \in [Runs -> Seq(Statuses)]
         /\ message \in [Runs -> Messages] /\ worker \in [Workers -> WorkerStates]
         /\ clock \in 0..Occurrences /\ Free \in Leases
         /\ {edits, crashes, faults, overruns} \subseteq Nat
  BY DEF Types, TypeOK, Tasks, Leases, WorkerStates, Messages, Statuses, Free, YesNo

LEMMA StepTypes ==
  ASSUME Types, NEW w \in Workers, WorkerStep(w)
  PROVE  Types'
  <1> USE TypesNow
  <1>0. ~At(w, "idle") =>
          /\ worker[w].run \in Runs /\ worker[w].attempt \in Nat
          /\ \A s \in Statuses : Appended(worker[w].run, worker[w].attempt, s) \in [Runs -> Seq(Statuses)]
    BY AppendedIsAHistory DEF Types, Running, WorkerStates
  <1>1. CASE ClaimDue(w)
    <2> DEFINE x == [Idle EXCEPT !.at = "look", !.run = Scheduled, !.retried = task.retry]
    <2>1. Scheduled \in Runs
      BY <1>1, ScheduledIsARun DEF ClaimDue, Claimable
    <2>2. x \in WorkerStates /\ x.run \in Runs
      BY <2>1 DEF Idle, WorkerStates, YesNo, Tasks
    <2>3. worker' \in [Workers -> WorkerStates] /\ Running'
      BY <1>1, <2>2, WorkerTypes DEF ClaimDue
    <2>4. lease' \in Leases
      BY <1>1, <2>1 DEF ClaimDue, Leases, YesNo
    <2> QED BY <1>1, <2>3, <2>4, TypesFrom DEF ClaimDue, bounds
  <1>2. CASE Look(w)
    <2>1. ~At(w, "idle")
      BY <1>2 DEF Look, At
    <2>2. CASE Final(w)
      BY <1>2, <2>1, <2>2, WorkerMoves, TypesFrom DEF Look, bounds
    <2>3. CASE ~Final(w)
      <3> DEFINE x == [worker[w] EXCEPT !.at = "open", !.attempt = Len(history[worker[w].run]) + 1]
      <3>1. Len(history[worker[w].run]) \in Nat
        BY <1>0, <2>1
      <3>2. x \in WorkerStates /\ x.run \in Runs
        <4>1. worker[w] \in WorkerStates /\ worker[w].run \in Runs
          BY <1>0, <2>1
        <4>2. Len(history[worker[w].run]) + 1 \in Nat
          BY <3>1
        <4> HIDE TypesNow
        <4>3. \A y \in WorkerStates, n \in Nat : [y EXCEPT !.at = "open", !.attempt = n] \in WorkerStates
              /\ [y EXCEPT !.at = "open", !.attempt = n].run = y.run
          BY DEF WorkerStates
        <4> QED BY <4>1, <4>2, <4>3
      <3>3. worker' = [worker EXCEPT ![w] = x]
        BY <1>2, <2>3 DEF Look
      <3> HIDE DEF x
      <3>4. worker' \in [Workers -> WorkerStates] /\ Running'
        BY <3>2, <3>3, WorkerTypes
      <3> QED BY <1>2, <3>4, TypesFrom DEF Look, bounds
    <2> QED BY <2>2, <2>3
  <1>3. CASE Reconcile(w)
    <2>1. ~At(w, "idle") /\ Leave(w)
      BY <1>3 DEF Reconcile, At, Ends
    <2>2. task' \in Tasks /\ lease' \in Leases
      BY <1>0, <1>3, <2>1, WorkerMoves, SettledIsATask DEF Reconcile
    <2> QED BY <1>3, <2>1, <2>2, WorkerMoves, TypesFrom DEF Reconcile, bounds
  <1>4. CASE Open(w)
    <2>1. ~At(w, "idle") /\ Go(w, "begin")
      BY <1>4 DEF Open, At
    <2>2. history' \in [Runs -> Seq(Statuses)]
      BY <1>0, <1>4, <2>1 DEF Open, Statuses
    <2> QED BY <1>4, <2>1, <2>2, WorkerMoves, TypesFrom DEF Open, bounds
  <1>5. CASE Begin(w)
    <2>1. ~At(w, "idle") /\ \E p \in {"caught", "final", "turn"} : Go(w, p)
      BY <1>5 DEF Begin, At
    <2>2. history' \in [Runs -> Seq(Statuses)]
      BY <1>0, <1>5, <2>1 DEF Begin, Statuses
    <2>3. message' \in [Runs -> Messages]
      BY <1>5 DEF Begin, Messages
    <2>4. worker' \in [Workers -> WorkerStates] /\ Running'
      BY <2>1, WorkerMoves
    <2> QED BY <1>5, <2>2, <2>3, <2>4, TypesFrom DEF Begin, bounds
  <1>6. CASE TurnEnds(w)
    <2>1. ~At(w, "idle") /\ \E p \in {"caught", "final"} : Go(w, p)
      BY <1>6 DEF TurnEnds, At
    <2>2. message' \in [Runs -> Messages]
      BY <1>6 DEF TurnEnds, Messages
    <2>3. worker' \in [Workers -> WorkerStates] /\ Running'
      BY <2>1, WorkerMoves
    <2> QED BY <1>6, <2>2, <2>3, TypesFrom DEF TurnEnds, bounds
  <1>7. CASE Renew(w)
    <2>1. PICK p \in {"record", "caught"} : worker' = [worker EXCEPT ![w] = [Noted(w) EXCEPT !.at = p]]
      BY <1>7 DEF Renew
    <2> DEFINE x == [Noted(w) EXCEPT !.at = p]
    <2>2. x \in WorkerStates /\ x.run \in Runs
      <3>1. Noted(w) \in WorkerStates /\ Noted(w).run = worker[w].run /\ worker[w].run \in Runs
        BY <1>0, <1>7, RenewalTypes DEF Renew, At
      <3> QED BY <3>1 DEF WorkerStates
    <2>3. worker' \in [Workers -> WorkerStates] /\ Running'
      <3> HIDE DEF x
      <3> QED BY <2>1, <2>2, WorkerTypes DEF x
    <2> QED BY <1>7, <2>3, RenewalTypes, TypesFrom DEF Renew, bounds
  <1>8. CASE Record(w)
    <2>1. ~At(w, "idle") /\ \E p \in {"caught", "done"} : Go(w, p)
      BY <1>8 DEF Record, At
    <2>2. history' \in [Runs -> Seq(Statuses)]
      BY <1>0, <1>8, <2>1 DEF Record, Statuses
    <2>3. worker' \in [Workers -> WorkerStates] /\ Running'
      BY <2>1, WorkerMoves
    <2> QED BY <1>8, <2>2, <2>3, TypesFrom DEF Record, Fault
  <1>9. CASE Settle(w)
    <2>1. ~At(w, "idle") /\ (Leave(w) \/ Go(w, "caught"))
      BY <1>9 DEF Settle, At
    <2>2. task' \in Tasks /\ lease' \in Leases
      BY <1>0, <1>9, <2>1, SettledIsATask DEF Settle
    <2>3. worker' \in [Workers -> WorkerStates] /\ Running'
      BY <2>1, WorkerMoves
    <2> QED BY <1>9, <2>2, <2>3, TypesFrom DEF Settle, Fault
  <1>10. CASE Caught(w)
    <2>1. ~At(w, "idle") /\ (Leave(w) \/ Go(w, "after")) /\ (Ends(w) \/ lease' = lease)
      BY <1>10 DEF Caught, At, Ends
    <2>2. history' \in [Runs -> Seq(Statuses)]
      BY <1>0, <1>10, <2>1 DEF Caught, Statuses
    <2>3. worker' \in [Workers -> WorkerStates] /\ Running' /\ lease' \in Leases
      BY <2>1, WorkerMoves
    <2> QED BY <1>10, <2>2, <2>3, TypesFrom DEF Caught, Fault
  <1>11. CASE After(w)
    <2>1. ~At(w, "idle") /\ Leave(w)
      BY <1>11 DEF After, At, Ends
    <2>2. task' \in Tasks /\ lease' \in Leases
      BY <1>0, <1>11, <2>1, WorkerMoves, SettledIsATask, RetriedIsATask DEF After
    <2>3. worker' \in [Workers -> WorkerStates] /\ Running'
      BY <2>1, WorkerMoves
    <2> QED BY <1>11, <2>2, <2>3, TypesFrom DEF After, Fault
  <1> QED BY <1>1, <1>2, <1>3, <1>4, <1>5, <1>6, <1>7, <1>8, <1>9, <1>10, <1>11 DEF WorkerStep

LEMMA WorldTypes ==
  ASSUME Types, Tick \/ Expire \/ \E w \in Workers : RenewTimer(w) \/ Crash(w)
  PROVE  Types'
  <1> USE TypesNow
  <1>1. CASE Tick
    <2>1. clock' \in 0..Occurrences
      BY <1>1, RunsAssumption DEF Tick
    <2> QED BY <1>1, <2>1, TypesFrom DEF Tick, bounds, Types, Running, At
  <1>2. CASE Expire
    <2>1. lease' \in Leases /\ overruns' \in {overruns, overruns + 1}
      BY <1>2 DEF Expire, Leases, YesNo
    <2> QED BY <1>2, <2>1, TypesFrom DEF Expire, Types, Running, At
  <1>3. ASSUME NEW w \in Workers, RenewTimer(w) PROVE Types'
    <2>1. worker[w].run \in Runs /\ worker[w] \in WorkerStates
      BY <1>3 DEF RenewTimer, Types, Running, At
    <2>2. PICK x : /\ worker' = [worker EXCEPT ![w] = x]
                   /\ x \in {Noted(w), [worker[w] EXCEPT !.lost = "yes"]}
      BY <1>3 DEF RenewTimer
    <2>3. x \in WorkerStates /\ x.run \in Runs
      <3>1. CASE x = Noted(w)
        BY <2>1, <3>1, RenewalTypes
      <3>2. CASE x = [worker[w] EXCEPT !.lost = "yes"]
        BY <2>1, <3>2 DEF WorkerStates, YesNo
      <3> QED BY <2>2, <3>1, <3>2
    <2>4. worker' \in [Workers -> WorkerStates] /\ Running'
      BY <2>2, <2>3, WorkerTypes
    <2> QED BY <1>3, <2>4, RenewalTypes, TypesFrom DEF RenewTimer, Fault
  <1>4. ASSUME NEW w \in Workers, Crash(w) PROVE Types'
    <2>1. worker' \in [Workers -> WorkerStates] /\ Running' /\ lease' \in Leases
      BY <1>4, WorkerMoves DEF Crash, Ends
    <2> QED BY <1>4, <2>1, TypesFrom DEF Crash
  <1> QED BY <1>1, <1>2, <1>3, <1>4

LEMMA TypesNext == Types /\ [Next]_vars => Types'
  <1> SUFFICES ASSUME Types, [Next]_vars PROVE Types'
    OBVIOUS
  <1>1. CASE UNCHANGED vars
    BY <1>1 DEF vars, Types, TypeOK, Running, At
  <1> QED BY <1>1, OwnerTypes, StepTypes, WorldTypes DEF Next

\* Every reachable state is well typed, a planned instant is one of the
\* schedule, and a worker that works has a run (store.ts:392-500).
THEOREM TypeCorrect == Spec => []TypeOK
  <1>1. Types => TypeOK
    BY DEF Types
  <1> QED BY TypesInit, TypesNext, <1>1, PTL DEF Spec

----------------------------------------------------------------------------
(* What the owner stops is not retried.                                    *)

LEMMA QuietOwner == ASSUME Types, Quiet, User PROVE Quiet'
  <1>0. task \in Tasks
    BY TypesNow
  <1>1. ASSUME NEW s \in {"active", "paused", task.state}, NEW kind \in {"rename", "edit", "schedule"},
               Update(s, kind)
        PROVE  Quiet'
    <2>1. /\ task'.state = s /\ task'.deleted = task.deleted /\ task.deleted = "no"
          /\ s = "paused" => task'.retry = "no"
      BY <1>0, <1>1 DEF Update, Tasks
    <2> QED BY <2>1 DEF Quiet
  <1>2. ASSUME NEW b \in YesNo, SetPreparationBlock(b) PROVE Quiet'
    <2>1. task'.retry = "no"
      BY <1>0, <1>2 DEF SetPreparationBlock, Tasks
    <2> QED BY <2>1 DEF Quiet
  <1>3. ASSUME Delete PROVE Quiet'
    <2>1. task'.retry = "no"
      BY <1>0, <1>3 DEF Delete, Tasks
    <2> QED BY <2>1 DEF Quiet
  <1>4. ASSUME NEW r \in Requests, AskRun(r) PROVE Quiet'
    BY <1>4 DEF AskRun, Quiet
  <1>5. ASSUME NEW r \in Requests, AcceptRun(r) PROVE Quiet'
    <2>1. task' = task \/ task'.manual = r
      BY <1>0, <1>5 DEF AcceptRun, Tasks
    <2> QED BY <2>1, RunsAssumption DEF Quiet
  <1> QED BY <1>1, <1>2, <1>3, <1>4, <1>5 DEF User, Patch

LEMMA QuietRetry == ASSUME Types, task' = ToBeRetried PROVE Quiet'
  <1>1. task \in Tasks
    BY TypesNow
  <1>2. /\ task'.state = task.state /\ task'.deleted = task.deleted /\ task'.manual = task.manual
        /\ task'.retry = YesIf(task.deleted = "no" /\ (task.state = "active" \/ task.manual # NoRun))
    BY <1>1 DEF ToBeRetried, Tasks
  <1>3. task.deleted \in YesNo
    BY <1>1 DEF Tasks
  <1> QED BY <1>2, <1>3 DEF Quiet, YesIf, YesNo

LEMMA QuietNext == Types /\ Quiet /\ [Next]_vars => Quiet'
  <1> SUFFICES ASSUME Types, Quiet, [Next]_vars PROVE Quiet'
    OBVIOUS
  <1>1. ASSUME NEW w \in Workers, WorkerStep(w) PROVE Quiet'
    <2>1. worker[w].run \in Runs \/ At(w, "idle")
      BY DEF Types, Running
    <2>2. task' = task \/ task' = ToBeRetried \/ (task' = Settled(worker[w].run) /\ ~At(w, "idle"))
      BY <1>1 DEF WorkerStep, ClaimDue, Look, Reconcile, Open, Begin, TurnEnds, Renew, Record,
           Settle, Caught, After, At
    <2> QED BY <2>1, <2>2, QuietRetry, SettledIsATask DEF Quiet
  <1>2. CASE Tick \/ Expire \/ (\E w \in Workers : RenewTimer(w) \/ Crash(w)) \/ UNCHANGED vars
    BY <1>2 DEF Tick, Expire, RenewTimer, Crash, vars, Quiet
  <1> QED BY <1>1, <1>2, QuietOwner DEF Next

\* An automation its owner has paused or deleted has no retry waiting,
\* however the stop and the end of an attempt have met (store.ts:291-365, :494).
THEOREM StoppedIsQuiet == Spec => []Quiet
  <1>1. Init => Quiet
    BY DEF Init, Quiet
  <1> QED BY TypesInit, TypesNext, <1>1, QuietNext, PTL DEF Spec

----------------------------------------------------------------------------
(* While no live worker has lost its lease, whoever works is its holder.   *)

Holder ==
  overruns = 0 =>
    /\ \A w \in Workers : ~At(w, "idle") => Holds(w) /\ lease.live = "yes"
    /\ \A w \in Workers : At(w, "turn") => message[worker[w].run] = "streaming"

LEMMA HolderInit == Init => Holder
  BY DEF Init, Holder, Idle, At

\* At most one worker works.
LEMMA HolderIsAlone ==
  ASSUME Types, Holder, overruns = 0, NEW w \in Workers, ~At(w, "idle")
  PROVE  \A v \in Workers \ {w} : At(v, "idle")
  BY DEF Holder, Holds

\* A step of the only worker there is, w.
LEMMA HolderStep ==
  ASSUME Types, Holder, NEW w \in Workers, WorkerStep(w)
  PROVE  Holder'
  <1> SUFFICES ASSUME overruns' = 0 PROVE Holder'
    BY DEF Holder
  <1>0. overruns = 0
    BY DEF WorkerStep, ClaimDue, Look, Reconcile, Open, Begin, TurnEnds, Renew, Record,
       Settle, Caught, After, bounds
  <1>1. worker \in [Workers -> WorkerStates] /\ message \in [Runs -> Messages] /\ lease \in Leases
    BY TypesNow
  <1>2. ASSUME NEW x, worker' = [worker EXCEPT ![w] = x], \A v \in Workers \ {w} : At(v, "idle"),
               \/ x.at = "idle"
               \/ /\ lease'.by = w /\ lease'.run = x.run /\ lease'.live = "yes"
                  /\ x.at = "turn" => message'[x.run] = "streaming"
        PROVE  Holder'
    BY <1>1, <1>2 DEF Holder, Holds, At
  <1>3. CASE ClaimDue(w)
    <2> DEFINE x == [Idle EXCEPT !.at = "look", !.run = Scheduled, !.retried = task.retry]
    <2>1. \A v \in Workers : At(v, "idle")
      BY <1>0, <1>3 DEF ClaimDue, Claimable, Holder
    <2>2. x.at = "look" /\ x.run = Scheduled
      BY DEF Idle
    <2>3. worker' = [worker EXCEPT ![w] = x] /\ lease' = [run |-> Scheduled, by |-> w, live |-> "yes"]
      BY <1>3 DEF ClaimDue
    <2> HIDE DEF x
    <2> QED BY <1>2, <2>1, <2>2, <2>3
  <1>4. CASE ~ClaimDue(w)
    <2>1. ~At(w, "idle")
      BY <1>4 DEF WorkerStep, Look, Reconcile, Open, Begin, TurnEnds, Renew, Record, Settle, Caught, After, At
    <2>2. \A v \in Workers \ {w} : At(v, "idle")
      BY <1>0, <2>1, HolderIsAlone
    <2>3. lease.by = w /\ lease.run = worker[w].run /\ lease.live = "yes" /\ worker[w] \in WorkerStates
      BY <1>0, <1>1, <2>1 DEF Holder, Holds
    <2>4. ASSUME Leave(w) PROVE Holder'
      BY <1>2, <2>2, <2>4, IdleIsAState DEF Leave
    <2>5. ASSUME NEW p, Go(w, p), lease' = lease, p # "turn" PROVE Holder'
      <3> DEFINE x == [worker[w] EXCEPT !.at = p]
      <3>1. x.at = p /\ x.run = worker[w].run
        BY <2>3 DEF WorkerStates
      <3>2. worker' = [worker EXCEPT ![w] = x]
        BY <2>5 DEF Go
      <3> HIDE DEF x
      <3> QED BY <1>2, <2>2, <2>3, <2>5, <3>1, <3>2
    <2>6. CASE Look(w)
      <3>1. lease' = lease
        BY <2>6 DEF Look
      <3>2. CASE Final(w)
        BY <2>5, <2>6, <3>1, <3>2 DEF Look
      <3>3. CASE ~Final(w)
        <4> DEFINE x == [worker[w] EXCEPT !.at = "open", !.attempt = Len(history[worker[w].run]) + 1]
        <4>1. x.at = "open" /\ x.run = worker[w].run
          BY <2>3 DEF WorkerStates
        <4>2. worker' = [worker EXCEPT ![w] = x]
          BY <2>6, <3>3 DEF Look
        <4> HIDE DEF x
        <4> QED BY <1>2, <2>2, <2>3, <3>1, <4>1, <4>2
      <3> QED BY <3>2, <3>3
    <2>7. CASE Begin(w)
      <3>1. lease' = lease
        BY <2>7 DEF Begin
      <3>2. CASE Go(w, "caught") \/ Go(w, "final")
        BY <2>5, <3>1, <3>2
      <3>3. CASE Go(w, "turn") /\ message' = [message EXCEPT ![worker[w].run] = "streaming"]
        <4> DEFINE x == [worker[w] EXCEPT !.at = "turn"]
        <4>1. x.at = "turn" /\ x.run = worker[w].run
          BY <2>3 DEF WorkerStates
        <4>2. worker' = [worker EXCEPT ![w] = x]
          BY <3>3 DEF Go
        <4>3. message'[worker[w].run] = "streaming"
          BY <1>1, <2>1, <3>3 DEF Types, Running
        <4> HIDE DEF x
        <4> QED BY <1>2, <2>2, <2>3, <3>1, <4>1, <4>2, <4>3
      <3> QED BY <2>7, <3>2, <3>3 DEF Begin
    <2>8. CASE Renew(w)
      <3>1. PICK p \in {"record", "caught"} : worker' = [worker EXCEPT ![w] = [Noted(w) EXCEPT !.at = p]]
        BY <2>8 DEF Renew
      <3> DEFINE x == [Noted(w) EXCEPT !.at = p]
      <3>2. x.at = p /\ x.run = worker[w].run
        BY RenewalTypes DEF WorkerStates
      <3>3. lease'.by = w /\ lease'.run = worker[w].run /\ lease'.live = "yes"
        BY <2>3, <2>8, RenewalTypes DEF Renew
      <3>4. worker' = [worker EXCEPT ![w] = x]
        BY <3>1
      <3> HIDE DEF x
      <3> QED BY <1>2, <2>2, <3>2, <3>3, <3>4
    <2>9. CASE Reconcile(w) \/ After(w)
      BY <2>4, <2>9 DEF Reconcile, After, Ends
    <2>10. CASE Open(w) \/ Record(w)
      BY <2>5, <2>10 DEF Open, Record
    <2>11. CASE TurnEnds(w)
      BY <2>5, <2>11 DEF TurnEnds
    <2>12. CASE Settle(w)
      BY <2>4, <2>5, <2>12 DEF Settle
    <2>13. CASE Caught(w)
      BY <2>4, <2>5, <2>13 DEF Caught, Ends
    <2> QED BY <1>4, <2>6, <2>7, <2>8, <2>9, <2>10, <2>11, <2>12, <2>13 DEF WorkerStep
  <1> QED BY <1>3, <1>4

LEMMA HolderWorld ==
  ASSUME Types, Holder, User \/ Tick \/ Expire \/ \E w \in Workers : RenewTimer(w) \/ Crash(w)
  PROVE  Holder'
  <1> SUFFICES ASSUME overruns' = 0 PROVE Holder'
    BY DEF Holder
  <1>0. worker \in [Workers -> WorkerStates] /\ lease \in Leases /\ overruns \in Nat
    BY TypesNow
  <1>1. CASE User \/ Tick
    <2>1. UNCHANGED <<worker, lease, message, overruns>>
      BY <1>1 DEF User, Patch, Update, SetPreparationBlock, Delete, AskRun, AcceptRun, Tick, bounds
    <2> QED BY <2>1 DEF Holder, Holds, At
  <1>2. CASE Expire
    <2>1. lease.by = NoWorker /\ overruns = 0
      BY <1>0, <1>2 DEF Expire
    <2>2. \A w \in Workers : At(w, "idle")
      BY <2>1, RunsAssumption DEF Holder, Holds
    <2> QED BY <1>2, <2>2 DEF Expire, Holder, At
  <1>3. ASSUME NEW w \in Workers, RenewTimer(w) PROVE Holder'
    <2>1. overruns = 0 /\ ~At(w, "idle") /\ message' = message
      BY <1>3 DEF RenewTimer, At
    <2>2. \A v \in Workers \ {w} : At(v, "idle")
      BY <2>1, HolderIsAlone
    <2>3. lease'.by = w /\ lease'.run = worker[w].run /\ lease'.live = "yes"
      BY <1>3, <2>1, RenewalTypes DEF RenewTimer, Holder, Holds
    <2>4. PICK x : /\ worker' = [worker EXCEPT ![w] = x]
                   /\ x \in {Noted(w), [worker[w] EXCEPT !.lost = "yes"]}
      BY <1>3 DEF RenewTimer
    <2>5. x.at = worker[w].at /\ x.run = worker[w].run
      BY <1>0, <2>4, RenewalTypes DEF WorkerStates
    <2> QED BY <1>0, <2>1, <2>2, <2>3, <2>4, <2>5 DEF Holder, Holds, At
  <1>4. ASSUME NEW w \in Workers, Crash(w) PROVE Holder'
    <2>1. overruns = 0 /\ ~At(w, "idle") /\ worker' = [worker EXCEPT ![w] = Idle]
      BY <1>4 DEF Crash, Ends, Leave
    <2>2. \A v \in Workers \ {w} : At(v, "idle")
      BY <2>1, HolderIsAlone
    <2>3. \A v \in Workers : At(v, "idle")'
      BY <1>0, <2>1, <2>2, IdleIsAState DEF At
    <2> QED BY <2>3 DEF Holder, At
  <1> QED BY <1>1, <1>2, <1>3, <1>4

LEMMA HolderNext == Types /\ Holder /\ [Next]_vars => Holder'
  <1>1. ASSUME UNCHANGED vars, Holder PROVE Holder'
    BY <1>1 DEF vars, Holder, Holds, At
  <1> QED BY <1>1, HolderStep, HolderWorld DEF Next

HolderInv == Types /\ Holder

\* The conversation of a run changes only while its holder has the turn.
LEMMA MessageSteps ==
  ASSUME HolderInv, [Next]_vars, overruns' = 0
  PROVE  \/ message' = message
         \/ \E w \in Workers : /\ message[worker[w].run] # "complete"
                             /\ \A r \in Runs : r # worker[w].run => message'[r] = message[r]
  <1>0. overruns = 0 /\ message \in [Runs -> Messages]
    <2>1. overruns \in Nat /\ overruns' \in {overruns, overruns + 1}
      BY TypesNow DEF HolderInv, Next, User, Patch, Update, SetPreparationBlock, Delete, AskRun, AcceptRun,
         Tick, Expire, RenewTimer, Crash, WorkerStep, ClaimDue, Look, Reconcile, Open, Begin, TurnEnds,
         Renew, Record, Settle, Caught, After, bounds, vars
    <2> QED BY <2>1, TypesNow DEF HolderInv
  <1>1. ASSUME NEW w \in Workers, Begin(w)
        PROVE  message' = message \/ (/\ message[worker[w].run] # "complete"
                                      /\ \A r \in Runs : r # worker[w].run => message'[r] = message[r])
    BY <1>0, <1>1 DEF Begin, Answered
  <1>2. ASSUME NEW w \in Workers, TurnEnds(w)
        PROVE  /\ message[worker[w].run] # "complete"
               /\ \A r \in Runs : r # worker[w].run => message'[r] = message[r]
    <2>1. message[worker[w].run] = "streaming"
      BY <1>0, <1>2 DEF TurnEnds, HolderInv, Holder
    <2> QED BY <1>0, <1>2, <2>1 DEF TurnEnds
  <1>3. \/ message' = message \/ \E w \in Workers : Begin(w) \/ TurnEnds(w)
    BY DEF Next, User, Patch, Update, SetPreparationBlock, Delete, AskRun, AcceptRun, Tick, Expire,
       RenewTimer, Crash, WorkerStep, ClaimDue, Look, Reconcile, Open, Renew, Record, Settle, Caught, After, vars
  <1> QED BY <1>1, <1>2, <1>3

\* While every live worker keeps its lease, a complete answer is never replaced
\* by a new turn, for any workers, crashes, failed writes and retries
\* (executor.ts:165-169, runner.ts:88-89).
THEOREM AnswerIsKept == Spec => AnswerKept
  <1>1. ASSUME HolderInv, [Next]_vars
        PROVE  [\A r \in Runs : overruns' = 0 /\ message[r] = "complete" => message'[r] = "complete"]_vars
    BY <1>1, MessageSteps
  <1>2. Init => HolderInv
    BY TypesInit, HolderInit DEF HolderInv
  <1>3. HolderInv /\ [Next]_vars => HolderInv'
    BY TypesNext, HolderNext DEF HolderInv
  <1> QED BY <1>1, <1>2, <1>3, PTL DEF Spec, AnswerKept

\* A turn begins where its conversation is ready.
LEMMA TurnsBegin ==
  ASSUME Types, [Next]_vars, NEW w \in Workers, ~At(w, "turn"), worker'[w].at = "turn"
  PROVE  At(w, "begin")
  <1>0. worker \in [Workers -> WorkerStates]
    BY TypesNow
  <1>1. ASSUME NEW v \in Workers, WorkerStep(v) PROVE At(w, "begin")
    <2>1. \A x : worker' = [worker EXCEPT ![v] = x] => v = w /\ x.at = "turn"
      BY <1>0 DEF At
    <2>2. \A p : Go(v, p) => v = w /\ p = "turn"
      <3> SUFFICES ASSUME NEW p, Go(v, p) PROVE v = w /\ p = "turn"
        OBVIOUS
      <3>1. v = w
        BY <1>0 DEF Go, At
      <3>2. worker'[w] = [worker[w] EXCEPT !.at = p]
        BY <1>0, <3>1 DEF Go
      <3>3. worker'[w].at = p
        BY <1>0, <3>2 DEF WorkerStates
      <3> QED BY <3>1, <3>3
    <2>3. ~Leave(v)
      BY <2>1, IdleIsAState DEF Leave
    <2>4. ~ClaimDue(v)
      <3> DEFINE x == [Idle EXCEPT !.at = "look", !.run = Scheduled, !.retried = task.retry]
      <3>1. x.at = "look"
        BY DEF Idle
      <3>2. ClaimDue(v) => worker' = [worker EXCEPT ![v] = x]
        BY DEF ClaimDue
      <3> HIDE DEF x
      <3> QED BY <2>1, <3>1, <3>2
    <2>5. ~Look(v)
      <3> DEFINE x == [worker[v] EXCEPT !.at = "open", !.attempt = Len(history[worker[v].run]) + 1]
      <3>1. x.at = "open"
        BY <1>0 DEF WorkerStates
      <3>2. Look(v) => worker' = [worker EXCEPT ![v] = x] \/ Go(v, "reconcile")
        BY DEF Look
      <3> HIDE DEF x
      <3> QED BY <2>1, <2>2, <3>1, <3>2
    <2>6. ~Renew(v)
      <3> SUFFICES ASSUME NEW p \in {"record", "caught"},
                          worker' = [worker EXCEPT ![v] = [Noted(v) EXCEPT !.at = p]]
                   PROVE  FALSE
        BY DEF Renew
      <3> DEFINE x == [Noted(v) EXCEPT !.at = p]
      <3>1. x.at = p
        BY RenewalTypes DEF WorkerStates
      <3>2. worker' = [worker EXCEPT ![v] = x]
        BY DEF x
      <3> HIDE DEF x
      <3> QED BY <2>1, <3>1, <3>2
    <2>7. CASE Begin(v)
      BY <2>2, <2>7 DEF Begin
    <2> QED BY <1>1, <2>2, <2>3, <2>4, <2>5, <2>6, <2>7
        DEF WorkerStep, Reconcile, Ends, Open, TurnEnds, Record, Settle, Caught, After
  <1>2. ASSUME NEW v \in Workers, RenewTimer(v) PROVE FALSE
    <2>1. PICK x : /\ worker' = [worker EXCEPT ![v] = x]
                   /\ x \in {Noted(v), [worker[v] EXCEPT !.lost = "yes"]}
      BY <1>2 DEF RenewTimer
    <2>2. x.at = worker[v].at
      BY <1>0, <2>1, RenewalTypes DEF WorkerStates
    <2> QED BY <1>0, <2>1, <2>2 DEF At
  <1>3. ASSUME NEW v \in Workers, Crash(v) PROVE FALSE
    BY <1>0, <1>3, IdleIsAState DEF Crash, Ends, Leave, At
  <1>4. ASSUME User \/ Tick \/ Expire \/ UNCHANGED vars PROVE FALSE
    BY <1>4 DEF User, Patch, Update, SetPreparationBlock, Delete, AskRun, AcceptRun, Tick, Expire, vars, At
  <1> QED BY <1>1, <1>2, <1>3, <1>4 DEF Next

\* While every live worker keeps its lease, no turn begins of an occurrence the
\* plan has moved past, unless its claim is the current one (store.ts:301-304).
THEOREM NothingReplayed == Spec => NotReplayed
  <1>1. ASSUME HolderInv, [Next]_vars
        PROVE  [\A o \in Occs : overruns' = 0 /\ task.next > o /\ lease.run # o => ~TurnStarts(o)]_vars
    <2> SUFFICES ASSUME NEW o \in Occs, overruns' = 0, TurnStarts(o) PROVE lease.run = o
      OBVIOUS
    <2>1. PICK w \in Workers : worker[w].run = o /\ ~At(w, "turn") /\ worker'[w].at = "turn"
      BY DEF TurnStarts
    <2>2. overruns = 0
      <3>1. overruns \in Nat /\ overruns' \in {overruns, overruns + 1}
        BY <1>1, TypesNow DEF HolderInv, Next, User, Patch, Update, SetPreparationBlock, Delete, AskRun, AcceptRun,
           Tick, Expire, RenewTimer, Crash, WorkerStep, ClaimDue, Look, Reconcile, Open, Begin, TurnEnds,
           Renew, Record, Settle, Caught, After, bounds, vars
      <3> QED BY <3>1
    <2>3. ~At(w, "idle")
      BY <1>1, <2>1, TurnsBegin DEF HolderInv, At
    <2> QED BY <1>1, <2>1, <2>2, <2>3 DEF HolderInv, Holder, Holds
  <1>2. Init => HolderInv
    BY TypesInit, HolderInit DEF HolderInv
  <1>3. HolderInv /\ [Next]_vars => HolderInv'
    BY TypesNext, HolderNext DEF HolderInv
  <1> QED BY <1>1, <1>2, <1>3, PTL DEF Spec, NotReplayed

----------------------------------------------------------------------------
(* While no live worker has lost its lease and no write has failed, the    *)
(* last status of a run tells whether it succeeded, and a worker past its  *)
(* look at the history holds an attempt of a run that has not.             *)

Without(h) == \A i \in DOMAIN h : h[i] # "succeeded"

Fits(x, hs) ==
  /\ x.at = "open" => x.attempt = Len(hs[x.run]) + 1 /\ Without(hs[x.run])
  /\ x.at \in {"begin", "turn", "final", "record", "caught"} =>
       x.attempt = Len(hs[x.run]) /\ x.attempt >= 1 /\ Without(hs[x.run])
  /\ x.at = "after" => Without(hs[x.run])

Closes(hs) == \A r \in Runs : Without(hs[r]) \/ hs[r][Len(hs[r])] = "succeeded"

SuccessInv ==
  overruns = 0 /\ faults = 0 =>
    Closes(history) /\ \A w \in Workers : Fits(worker[w], history)

FinalInv == HolderInv /\ SuccessInv

LEMMA AppendedNext ==
  ASSUME Types, NEW r \in Runs, Without(history[r])
  PROVE  LET hs == Appended(r, Len(history[r]) + 1, "running")
         IN  /\ Len(hs[r]) = Len(history[r]) + 1 /\ Without(hs[r])
             /\ \A q \in Runs : q # r => hs[q] = history[q]
  <1>1. history \in [Runs -> Seq(Statuses)] /\ history[r] \in Seq(Statuses)
    BY TypesNow
  <1> DEFINE h == history[r]
             hs == Appended(r, Len(h) + 1, "running")
  <1>2. Len(h) \in Nat
    BY <1>1
  <1>3. hs = [history EXCEPT ![r] = Append(h, "running")]
    <2>1. Len(h) + 1 > Len(h)
      BY <1>2
    <2> QED BY <2>1, Zenon DEF Appended
  <1>4. hs[r] = Append(h, "running")
    BY <1>1, <1>3
  <1>5. Len(Append(h, "running")) = Len(h) + 1 /\ Without(Append(h, "running"))
    <2>1. Append(h, "running") \in Seq(Statuses)
      BY <1>1 DEF Statuses
    <2>2. \A i \in 1..(Len(h) + 1) : Append(h, "running")[i] = IF i = Len(h) + 1 THEN "running" ELSE h[i]
      BY <1>1
    <2>3. DOMAIN Append(h, "running") = 1..(Len(h) + 1) /\ DOMAIN h = 1..Len(h)
      BY <1>1, <2>1
    <2> QED BY <1>1, <1>2, <2>2, <2>3 DEF Without
  <1> QED BY <1>1, <1>3, <1>4, <1>5

LEMMA AppendedAgain ==
  ASSUME Types, NEW r \in Runs, Without(history[r]), Len(history[r]) >= 1, NEW s \in Statuses
  PROVE  LET hs == Appended(r, Len(history[r]), s)
         IN  /\ Len(hs[r]) = Len(history[r]) /\ hs[r][Len(hs[r])] = s
             /\ s # "succeeded" => Without(hs[r])
             /\ \A q \in Runs : q # r => hs[q] = history[q]
  <1>1. history \in [Runs -> Seq(Statuses)] /\ history[r] \in Seq(Statuses)
    BY TypesNow
  <1> DEFINE h == history[r]
             n == Len(h)
             hs == Appended(r, n, s)
             g == [h EXCEPT ![n] = s]
  <1>2. n \in 1..Len(h)
    BY <1>1
  <1>3. hs = [history EXCEPT ![r] = g]
    <2>1. ~(n > Len(h))
      BY <1>2
    <2> QED BY <2>1, Zenon DEF Appended
  <1>4. hs[r] = g
    BY <1>1, <1>3
  <1>5. g \in Seq(Statuses) /\ Len(g) = Len(h)
        /\ \A j \in 1..Len(h) : g[j] = IF j = n THEN s ELSE h[j]
    BY <1>1, <1>2, ExceptSeq
  <1>6. DOMAIN g = 1..Len(h) /\ DOMAIN h = 1..Len(h)
    BY <1>1, <1>5
  <1> HIDE DEF g
  <1>7. s # "succeeded" => Without(g)
    BY <1>5, <1>6 DEF Without
  <1> QED BY <1>1, <1>2, <1>3, <1>4, <1>5, <1>7

LEMMA SuccessStep ==
  ASSUME FinalInv, NEW w \in Workers, WorkerStep(w)
  PROVE  SuccessInv'
  <1> SUFFICES ASSUME overruns' = 0, faults' = 0 PROVE SuccessInv'
    BY DEF SuccessInv
  <1>0. overruns = 0 /\ faults = 0
    <2>1. faults \in Nat /\ faults' \in {faults, faults + 1} /\ overruns' = overruns
      BY TypesNow DEF FinalInv, HolderInv, WorkerStep, ClaimDue, Look, Reconcile, Open, Begin, TurnEnds,
         Renew, Record, Settle, Caught, After, bounds, Fault
    <2> QED BY <2>1
  <1>1. /\ worker \in [Workers -> WorkerStates] /\ history \in [Runs -> Seq(Statuses)]
        /\ Closes(history) /\ \A v \in Workers : Fits(worker[v], history)
    BY <1>0, TypesNow DEF FinalInv, HolderInv, SuccessInv
  <1>2. ASSUME NEW x, worker' = [worker EXCEPT ![w] = x], \A v \in Workers \ {w} : At(v, "idle"),
               Closes(history'), Fits(x, history')
        PROVE  SuccessInv'
    BY <1>1, <1>2 DEF SuccessInv, Fits, At
  <1>3. CASE ClaimDue(w)
    <2> DEFINE x == [Idle EXCEPT !.at = "look", !.run = Scheduled, !.retried = task.retry]
    <2>1. \A v \in Workers : At(v, "idle")
      BY <1>0, <1>3 DEF ClaimDue, Claimable, FinalInv, HolderInv, Holder
    <2>2. x.at = "look"
      BY DEF Idle
    <2>3. worker' = [worker EXCEPT ![w] = x] /\ history' = history
      BY <1>3 DEF ClaimDue
    <2> HIDE DEF x
    <2> QED BY <1>1, <1>2, <2>1, <2>2, <2>3 DEF Fits
  <1>4. CASE ~ClaimDue(w)
    <2> DEFINE r == worker[w].run
    <2>1. ~At(w, "idle") /\ r \in Runs /\ history[r] \in Seq(Statuses) /\ worker[w] \in WorkerStates
      BY <1>1, <1>4 DEF WorkerStep, Look, Reconcile, Open, Begin, TurnEnds, Renew, Record, Settle, Caught,
         After, At, FinalInv, HolderInv, Types, Running
    <2>2. \A v \in Workers \ {w} : At(v, "idle")
      BY <1>0, <2>1, HolderIsAlone DEF FinalInv, HolderInv
    <2>3. Holds(w)
      BY <1>0, <2>1 DEF FinalInv, HolderInv, Holder
    <2>4. ASSUME Leave(w), history' = history PROVE SuccessInv'
      BY <1>1, <1>2, <2>2, <2>4, IdleIsAState DEF Leave, Fits
    <2>5. ASSUME NEW p, Go(w, p), Closes(history'), Fits([worker[w] EXCEPT !.at = p], history')
          PROVE  SuccessInv'
      BY <1>2, <2>2, <2>5 DEF Go
    <2>6. \A p : /\ [worker[w] EXCEPT !.at = p].at = p
                 /\ [worker[w] EXCEPT !.at = p].run = r
                 /\ [worker[w] EXCEPT !.at = p].attempt = worker[w].attempt
      BY <2>1 DEF WorkerStates
    <2>7. CASE Look(w)
      <3>1. history' = history
        BY <2>7 DEF Look
      <3>2. CASE Final(w)
        <4>1. Go(w, "reconcile")
          BY <2>7, <3>2 DEF Look
        <4> QED BY <1>1, <2>5, <2>6, <3>1, <4>1 DEF Fits
      <3>3. CASE ~Final(w)
        <4> DEFINE x == [worker[w] EXCEPT !.at = "open", !.attempt = Len(history[r]) + 1]
        <4>1. x.at = "open" /\ x.run = r /\ x.attempt = Len(history[r]) + 1
          BY <2>1 DEF WorkerStates
        <4>2. worker' = [worker EXCEPT ![w] = x]
          BY <2>7, <3>3 DEF Look
        <4>3. Without(history[r])
          <5>1. CASE history[r] = << >>
            BY <5>1 DEF Without
          <5>2. CASE history[r] # << >>
            BY <1>1, <2>1, <3>3, <5>2 DEF Final, Latest, Closes
          <5> QED BY <5>1, <5>2
        <4> HIDE DEF x
        <4> QED BY <1>1, <1>2, <2>2, <3>1, <4>1, <4>2, <4>3 DEF Fits
      <3> QED BY <3>2, <3>3
    <2>8. CASE Open(w)
      <3>1. worker[w].attempt = Len(history[r]) + 1 /\ Without(history[r])
        BY <1>1, <2>8 DEF Open, At, Fits
      <3>2. history' = Appended(r, Len(history[r]) + 1, "running") /\ Go(w, "begin")
        BY <2>8, <3>1 DEF Open
      <3>3. Len(history'[r]) = Len(history[r]) + 1 /\ Without(history'[r])
            /\ \A q \in Runs : q # r => history'[q] = history[q]
        BY <2>1, <3>1, <3>2, AppendedNext DEF FinalInv, HolderInv
      <3>4. Closes(history')
        BY <1>1, <3>3 DEF Closes
      <3>5. Fits([worker[w] EXCEPT !.at = "begin"], history')
        BY <2>1, <2>6, <3>1, <3>3 DEF Fits
      <3> QED BY <2>5, <3>2, <3>4, <3>5
    <2>9. ASSUME worker[w].at \in {"begin", "turn", "final", "record", "caught"}
          PROVE  /\ worker[w].attempt = Len(history[r]) /\ Without(history[r])
                 /\ \A s \in Statuses \ {"succeeded"} : LET hs == Appended(r, worker[w].attempt, s)
                      IN Closes(hs) /\ Len(hs[r]) = Len(history[r]) /\ Without(hs[r])
                 /\ Closes(Appended(r, worker[w].attempt, "succeeded"))
                 /\ worker[w].attempt >= 1
      <3>1. worker[w].attempt = Len(history[r]) /\ Without(history[r]) /\ worker[w].attempt >= 1
        BY <1>1, <2>9 DEF Fits
      <3>2. ASSUME NEW s \in Statuses
            PROVE  LET hs == Appended(r, worker[w].attempt, s)
                   IN  /\ Len(hs[r]) = Len(history[r]) /\ hs[r][Len(hs[r])] = s
                       /\ s # "succeeded" => Without(hs[r])
                       /\ \A q \in Runs : q # r => hs[q] = history[q]
        BY <2>1, <3>1, AppendedAgain DEF FinalInv, HolderInv
      <3>3. \A s \in Statuses : Closes(Appended(r, worker[w].attempt, s))
        BY <1>1, <2>1, <3>2 DEF Closes
      <3> QED BY <3>1, <3>2, <3>3 DEF Statuses
    <2>10. ASSUME NEW p \in {"turn", "final", "record", "caught", "after", "done"}, Go(w, p), history' = history,
                  worker[w].at \in {"begin", "turn", "final", "record", "caught"}
           PROVE  SuccessInv'
      BY <1>1, <2>5, <2>6, <2>9, <2>10 DEF Fits
    <2>11. ASSUME NEW p \in {"turn", "final", "caught", "after"}, Go(w, p),
                  NEW s \in Statuses \ {"succeeded"}, history' = Appended(r, worker[w].attempt, s),
                  worker[w].at \in {"begin", "turn", "final", "record", "caught"}
           PROVE  SuccessInv'
      <3>1. Fits([worker[w] EXCEPT !.at = p], history') /\ Closes(history')
        BY <2>6, <2>9, <2>11 DEF Fits
      <3> QED BY <2>5, <2>11, <3>1
    <2>12. CASE Begin(w)
      BY <2>10, <2>11, <2>12 DEF Begin, At, Statuses
    <2>13. CASE TurnEnds(w)
      BY <2>10, <2>13 DEF TurnEnds, At
    <2>14. CASE Renew(w)
      <3>1. PICK p \in {"record", "caught"} : worker' = [worker EXCEPT ![w] = [Noted(w) EXCEPT !.at = p]]
        BY <2>14 DEF Renew
      <3> DEFINE x == [Noted(w) EXCEPT !.at = p]
      <3>2. x.at = p /\ x.run = r /\ x.attempt = worker[w].attempt
        BY RenewalTypes DEF WorkerStates, FinalInv, HolderInv
      <3>3. worker' = [worker EXCEPT ![w] = x] /\ history' = history
        BY <2>14, <3>1 DEF Renew
      <3>4. worker[w].at = "final"
        BY <2>14 DEF Renew, At
      <3> HIDE DEF x
      <3> QED BY <1>1, <1>2, <2>2, <2>9, <3>2, <3>3, <3>4 DEF Fits
    <2>15. CASE Record(w)
      <3>1. CASE history' = history
        BY <1>0, <2>10, <2>15, <3>1 DEF Record, At
      <3>2. CASE history' = Appended(r, worker[w].attempt, "succeeded") /\ Go(w, "done")
        <4>1. worker[w].at = "record"
          BY <2>15 DEF Record, At
        <4> QED BY <2>5, <2>6, <2>9, <3>2, <4>1 DEF Fits
      <3> QED BY <2>15, <3>1, <3>2 DEF Record
    <2>16. CASE Settle(w)
      BY <1>0, <2>3, <2>4, <2>16, TypesNow DEF Settle, Fault, FinalInv, HolderInv
    <2>17. CASE Caught(w)
      BY <2>4, <2>11, <2>17 DEF Caught, Ends, At, Statuses
    <2>18. CASE Reconcile(w) \/ After(w)
      BY <2>4, <2>18 DEF Reconcile, After, Ends
    <2> QED BY <1>4, <2>7, <2>8, <2>12, <2>13, <2>14, <2>15, <2>16, <2>17, <2>18 DEF WorkerStep
  <1> QED BY <1>3, <1>4

LEMMA SuccessWorld ==
  ASSUME FinalInv, User \/ Tick \/ Expire \/ \E w \in Workers : RenewTimer(w) \/ Crash(w)
  PROVE  SuccessInv'
  <1> SUFFICES ASSUME overruns' = 0, faults' = 0 PROVE SuccessInv'
    BY DEF SuccessInv
  <1>0. history' = history /\ worker \in [Workers -> WorkerStates] /\ overruns = 0 /\ faults = 0
    <2>1. {faults, overruns} \subseteq Nat
      BY TypesNow DEF FinalInv, HolderInv
    <2>2. history' = history /\ faults' \in {faults, faults + 1} /\ overruns' \in {overruns, overruns + 1}
      BY DEF User, Patch, Update, SetPreparationBlock, Delete, AskRun, AcceptRun, Tick, Expire,
         RenewTimer, Crash, Fault, bounds
    <2> QED BY <2>1, <2>2, TypesNow DEF FinalInv, HolderInv
  <1>1. Closes(history) /\ \A v \in Workers : Fits(worker[v], history)
    BY <1>0 DEF FinalInv, SuccessInv
  <1>2. ASSUME NEW w \in Workers, NEW x, worker' = [worker EXCEPT ![w] = x], Fits(x, history)
        PROVE  SuccessInv'
    BY <1>0, <1>1, <1>2 DEF SuccessInv
  <1>3. CASE User \/ Tick \/ Expire
    <2>1. worker' = worker
      BY <1>3 DEF User, Patch, Update, SetPreparationBlock, Delete, AskRun, AcceptRun, Tick, Expire
    <2> QED BY <1>0, <1>1, <2>1 DEF SuccessInv
  <1>4. ASSUME NEW w \in Workers, RenewTimer(w) PROVE SuccessInv'
    <2>1. PICK x : /\ worker' = [worker EXCEPT ![w] = x]
                   /\ x \in {Noted(w), [worker[w] EXCEPT !.lost = "yes"]}
      BY <1>4 DEF RenewTimer
    <2>2. x.at = worker[w].at /\ x.run = worker[w].run /\ x.attempt = worker[w].attempt
      BY <1>0, <2>1, RenewalTypes DEF WorkerStates, FinalInv, HolderInv
    <2>3. Fits(x, history)
      BY <1>1, <2>2 DEF Fits
    <2> QED BY <1>2, <2>1, <2>3
  <1>5. ASSUME NEW w \in Workers, Crash(w) PROVE SuccessInv'
    BY <1>2, <1>5, IdleIsAState DEF Crash, Ends, Leave, Fits
  <1> QED BY <1>3, <1>4, <1>5

LEMMA FinalNext == FinalInv /\ [Next]_vars => FinalInv'
  <1>1. HolderInv /\ [Next]_vars => HolderInv'
    BY TypesNext, HolderNext DEF HolderInv
  <1>2. ASSUME FinalInv, UNCHANGED vars PROVE SuccessInv'
    BY <1>2 DEF FinalInv, SuccessInv, vars
  <1> QED BY <1>1, <1>2, SuccessStep, SuccessWorld DEF FinalInv, Next

LEMMA FinalInit == Init => FinalInv
  <1>1. Init => HolderInv
    BY TypesInit, HolderInit DEF HolderInv
  <1>2. ASSUME Init PROVE Closes(history) /\ \A w \in Workers : Fits(worker[w], history)
    BY <1>2, IdleIsAState DEF Init, Closes, Without, Fits
  <1> QED BY <1>1, <1>2 DEF FinalInv, SuccessInv

\* While every live worker keeps its lease and no write fails, nothing is
\* written to the history of a run that has succeeded: whoever takes it over
\* settles it (runner.ts:34-46, :111-130).
THEOREM SuccessIsFinal == Spec => FinalWhilePunctual
  <1>1. ASSUME FinalInv, [Next]_vars
        PROVE  [\A r \in Runs : overruns' = 0 /\ faults' = 0 /\ Succeeded(r)
                  => history'[r] = history[r]]_vars
    <2> SUFFICES ASSUME NEW r \in Runs, overruns' = 0, faults' = 0, Succeeded(r),
                        history' # history
                 PROVE  history'[r] = history[r]
      OBVIOUS
    <2>1. PICK w \in Workers : Open(w) \/ Begin(w) \/ Record(w) \/ Caught(w)
      BY <1>1 DEF Next, User, Patch, Update, SetPreparationBlock, Delete, AskRun, AcceptRun, Tick, Expire,
         RenewTimer, Crash, WorkerStep, ClaimDue, Look, Reconcile, TurnEnds, Renew, Settle, After, vars
    <2>2. overruns = 0 /\ faults = 0 /\ history \in [Runs -> Seq(Statuses)]
      <3>1. {faults, overruns} \subseteq Nat /\ history \in [Runs -> Seq(Statuses)]
        BY <1>1, TypesNow DEF FinalInv, HolderInv
      <3>2. faults' \in {faults, faults + 1} /\ overruns' = overruns
        BY <2>1 DEF Open, Begin, Record, Caught, bounds, Fault
      <3> QED BY <3>1, <3>2
    <2>3. Fits(worker[w], history) /\ worker[w].at \in {"open", "begin", "record", "caught"}
      BY <1>1, <2>1, <2>2 DEF FinalInv, SuccessInv, Open, Begin, Record, Caught, At
    <2>4. worker[w].run # r
      BY <2>3 DEF Fits, Without, Succeeded
    <2>5. \E n, s : history' = Appended(worker[w].run, n, s)
      BY <2>1 DEF Open, Begin, Record, Caught
    <2> QED BY <2>2, <2>4, <2>5 DEF Appended
  <1> QED BY <1>1, FinalInit, FinalNext, PTL DEF Spec, FinalWhilePunctual

----------------------------------------------------------------------------
(* How often an occurrence is attempted.  Every attempt beyond maxAttempts *)
(* is paid for by an event, and so is the one that may still come: of a    *)
(* worker that is about to open it without a live claim (astray), and of   *)
(* the record, when the plan can still reach an occurrence that was        *)
(* attempted and no live claim works on it (owed).                         *)

Opening == {"look", "open"}
Past == {"begin", "turn", "final", "record", "done", "caught", "after"}
Budget == MaxAttempts + crashes + faults + overruns + edits

Ahead(o) == task.next # 0 /\ task.next <= o
Keeps(w, o) == lease.by = w /\ lease.live = "yes" /\ worker[w].run = o
Astray(o) == {w \in Workers : worker[w].run = o /\ worker[w].at \in Opening /\ ~Keeps(w, o)}
Proper(w, o) == Keeps(w, o) /\ worker[w].at \in Past /\ worker[w].lost = "no"
Owed(o) ==
  \/ \E w \in Workers : Keeps(w, o) /\ worker[w].at \in Opening
  \/ Ahead(o) /\ Len(history[o]) # 0 /\ \A w \in Workers : ~Proper(w, o)

Paid(o) ==
  /\ IsFiniteSet(Astray(o)) /\ Cardinality(Astray(o)) <= overruns
  /\ Len(history[o]) + Cardinality(Astray(o)) + (IF Owed(o) THEN 1 ELSE 0) <= Budget

\* What was opened beyond the attempt of the holder, astray workers opened.
Slack(w, o) ==
  lease.by = w /\ worker[w].at \in {"open"} \union Past /\ worker[w].run = o =>
    Len(history[o]) + Cardinality(Astray(o)) <= overruns + worker[w].attempt

Attempts ==
  \A w \in Workers :
    /\ worker[w].at = "open" => worker[w].attempt \in 1 .. (Len(history[worker[w].run]) + 1)
    /\ worker[w].at \in Past => worker[w].attempt \in 1 .. Len(history[worker[w].run])
    /\ worker[w].at \in Opening => worker[w].lost = "no"

Claims == \A w \in Workers : lease.by = w => ~At(w, "idle") /\ lease.run = worker[w].run

\* While a run is claimed, the plan is at that run, or at most one instant
\* ahead of the clock.
Plans ==
  /\ task.state = "active" /\ task.deleted = "no" => task.next # 0
  /\ Claimed /\ task.manual # lease.run =>
       /\ task.next = lease.run \/ task.next <= clock + 1
       /\ task.state = "completed" => task.deleted = "yes"

Counted == \A o \in Occs : Paid(o) /\ \A w \in Workers : Slack(w, o)
BoundInv == Types /\ Attempts /\ Claims /\ Plans /\ Counted

LEMMA AppendedLength ==
  ASSUME Types, NEW r \in Runs, NEW n \in 1 .. (Len(history[r]) + 1), NEW s \in Statuses
  PROVE  /\ Len(Appended(r, n, s)[r]) = IF n > Len(history[r]) THEN Len(history[r]) + 1 ELSE Len(history[r])
         /\ \A q \in Runs : q # r => Appended(r, n, s)[q] = history[q]
  <1>1. history \in [Runs -> Seq(Statuses)] /\ history[r] \in Seq(Statuses)
    BY TypesNow
  <1> DEFINE h == history[r]
             g == IF n > Len(h) THEN Append(h, s) ELSE [h EXCEPT ![n] = s]
  <1>2. Appended(r, n, s) = [history EXCEPT ![r] = g]
    BY Zenon DEF Appended
  <1>3. n > Len(h) => Len(Append(h, s)) = Len(h) + 1
    BY <1>1
  <1>4. ~(n > Len(h)) => Len([h EXCEPT ![n] = s]) = Len(h)
    <2> SUFFICES ASSUME ~(n > Len(h)) PROVE Len([h EXCEPT ![n] = s]) = Len(h)
      OBVIOUS
    <2>1. n \in 1..Len(h)
      BY <1>1
    <2> QED BY <1>1, <2>1, ExceptSeq
  <1>5. Len(g) = IF n > Len(h) THEN Len(h) + 1 ELSE Len(h)
    BY <1>3, <1>4
  <1> HIDE DEF g
  <1> QED BY <1>1, <1>2, <1>5

LEMMA Lengths == ASSUME Types, NEW r \in Runs PROVE Len(history[r]) \in Nat
  BY TypesNow

\* What counts towards the bound never shrinks.
LEMMA BudgetGrows ==
  ASSUME Types, [Next]_vars
  PROVE  /\ Budget \in Nat /\ Budget' \in Nat /\ Budget <= Budget'
         /\ overruns \in Nat /\ overruns' \in Nat /\ overruns <= overruns' /\ MaxAttempts + overruns <= Budget
         /\ (Owner \/ Fault \/ crashes' = crashes + 1 \/ overruns' = overruns + 1) => Budget + 1 <= Budget'
  <1>1. {edits, crashes, faults, overruns} \subseteq Nat
    BY TypesNow
  <1>2. /\ edits' \in {edits, edits + 1} /\ crashes' \in {crashes, crashes + 1}
        /\ faults' \in {faults, faults + 1} /\ overruns' \in {overruns, overruns + 1}
    BY DEF Next, User, Patch, Update, SetPreparationBlock, Delete, AskRun, AcceptRun, Owner, Fault,
           Tick, Expire, RenewTimer, Crash, WorkerStep, ClaimDue, Look, Reconcile, Open, Begin, TurnEnds,
           Renew, Record, Settle, Caught, After, bounds, vars
  <1>3. MaxAttempts \in Nat
    BY RunsAssumption
  <1>4. (Owner => edits' = edits + 1) /\ (Fault => faults' = faults + 1)
    BY DEF Owner, Fault
  <1> QED BY <1>1, <1>2, <1>3, <1>4 DEF Budget

----------------------------------------------------------------------------
(* The kinds of steps of a worker, as far as the bound is concerned.       *)

Sets(w, x) == worker' = [worker EXCEPT ![w] = x]

\* An attempt goes on; only an event, or the loss of the claim, is noted.
Moves(w) ==
  /\ worker[w].at \in Past
  /\ \E x \in WorkerStates :
       /\ Sets(w, x) /\ x.at \in Past
       /\ x.run = worker[w].run /\ x.attempt = worker[w].attempt
       /\ x.lost = worker[w].lost \/ ~Holds(w) \/ Budget + 1 <= Budget'
  /\ lease' \in Leases
  /\ \/ lease' = lease
     \/ lease.by = w /\ lease'.by = w /\ lease'.run = lease.run /\ lease'.live = "yes"
  /\ \A r \in Runs : Len(history'[r]) = Len(history[r])
  /\ UNCHANGED <<task, clock>>

\* It ends without an end on the record.
Quits(w) ==
  /\ ~At(w, "idle") /\ Ends(w)
  /\ lease.by = w => worker[w].lost = "yes" \/ Budget + 1 <= Budget'
  /\ UNCHANGED <<task, clock, history>>

\* It ends on the record.
Concludes(w) ==
  /\ Holds(w) /\ worker[w].at \in {"reconcile"} \union Past
  /\ Leave(w) /\ lease' = Free
  /\ \/ task' = Settled(worker[w].run)
     \/ task' = ToBeRetried /\ At(w, "after") /\ worker[w].attempt < MaxAttempts
  /\ UNCHANGED <<clock, history>>

LEMMA KindsOfSteps ==
  ASSUME Types, Attempts, Claims, [Next]_vars, NEW w \in Workers,
         WorkerStep(w) \/ RenewTimer(w) \/ Crash(w)
  PROVE  ClaimDue(w) \/ Look(w) \/ Open(w) \/ Moves(w) \/ Quits(w) \/ Concludes(w)
  <1>0. /\ worker \in [Workers -> WorkerStates] /\ worker[w] \in WorkerStates /\ lease \in Leases
        /\ history \in [Runs -> Seq(Statuses)]
    BY TypesNow
  <1>1. /\ Fault => Budget + 1 <= Budget'
        /\ crashes' = crashes + 1 => Budget + 1 <= Budget'
    BY BudgetGrows
  <1>2. lease.by = w => Holds(w)
    BY DEF Claims, Holds
  <1>3. ~At(w, "idle") => worker[w].run \in Runs
    BY DEF Types, Running
  <1>4. ASSUME NEW p \in Past, Go(w, p), At(w, worker[w].at), worker[w].at \in Past, lease' = lease,
               \A r \in Runs : Len(history'[r]) = Len(history[r]), UNCHANGED <<task, clock>>
        PROVE  Moves(w)
    <2> DEFINE x == [worker[w] EXCEPT !.at = p]
    <2>1. /\ x \in WorkerStates /\ x.at = p /\ x.run = worker[w].run
          /\ x.attempt = worker[w].attempt /\ x.lost = worker[w].lost
      BY <1>0 DEF WorkerStates, Past
    <2>2. Sets(w, x)
      BY <1>4 DEF Go, Sets
    <2> HIDE DEF x
    <2> QED BY <1>0, <1>4, <2>1, <2>2 DEF Moves
  <1>5. ASSUME worker[w].at \in Past, NEW s \in Statuses, history' = Appended(worker[w].run, worker[w].attempt, s)
        PROVE  \A r \in Runs : Len(history'[r]) = Len(history[r])
    <2> DEFINE r0 == worker[w].run
               n == worker[w].attempt
    <2>1. r0 \in Runs /\ n \in 1 .. Len(history[r0])
      BY <1>3, <1>5 DEF Past, At, Attempts
    <2>2. Len(history[r0]) \in Nat
      BY <2>1, Lengths
    <2>3. n \in 1 .. (Len(history[r0]) + 1) /\ ~(n > Len(history[r0]))
      BY <2>1, <2>2
    <2>4. history' = Appended(r0, n, s)
      BY <1>5
    <2> HIDE DEF r0, n
    <2> QED BY <2>1, <2>3, <2>4, AppendedLength
  <1>6. CASE Reconcile(w)
    BY <1>2, <1>6 DEF Reconcile, Concludes, Quits, At
  <1>7. CASE Begin(w)
    <2>1. worker[w].at \in Past /\ "caught" \in Past /\ "final" \in Past /\ "turn" \in Past /\ At(w, worker[w].at)
      BY <1>7 DEF Begin, At, Past
    <2>2. \A r \in Runs : Len(history'[r]) = Len(history[r])
      BY <1>5, <1>7, <2>1 DEF Begin, Statuses
    <2> QED BY <1>4, <1>7, <2>1, <2>2 DEF Begin
  <1>8. CASE TurnEnds(w)
    <2>1. worker[w].at \in Past /\ "caught" \in Past /\ "final" \in Past /\ At(w, worker[w].at)
      BY <1>8 DEF TurnEnds, At, Past
    <2> QED BY <1>4, <1>8, <2>1 DEF TurnEnds
  <1>n. /\ Noted(w).lost = worker[w].lost \/ ~Holds(w)
        /\ Extended(w) = lease \/ (Holds(w) /\ Extended(w).live = "yes")
    BY <1>0 DEF Noted, Renewal, Extended, WorkerStates, Leases
  <1>h. Holds(w) => lease.by = w
    BY DEF Holds
  <1>9. CASE Renew(w)
    <2>1. PICK p \in {"record", "caught"} : worker' = [worker EXCEPT ![w] = [Noted(w) EXCEPT !.at = p]]
      BY <1>9 DEF Renew
    <2> DEFINE x == [Noted(w) EXCEPT !.at = p]
    <2>2. /\ x \in WorkerStates /\ x.at = p /\ x.run = worker[w].run
          /\ x.attempt = worker[w].attempt /\ x.lost = Noted(w).lost
      BY RenewalTypes DEF WorkerStates
    <2>3. Sets(w, x)
      BY <2>1 DEF Sets
    <2> HIDE DEF x
    <2>4. worker[w].at \in Past /\ p \in Past /\ lease' = Extended(w) /\ UNCHANGED <<task, clock, history>>
      BY <1>9 DEF Renew, At, Past
    <2> QED BY <1>n, <1>h, <2>2, <2>3, <2>4, RenewalTypes DEF Moves
  <1>10. CASE RenewTimer(w)
    <2>1. worker[w].at \in Past /\ UNCHANGED <<task, clock, history>>
      BY <1>10 DEF RenewTimer, Past
    <2>2. CASE worker' = [worker EXCEPT ![w] = Noted(w)] /\ lease' = Extended(w)
      BY <1>n, <1>h, <2>1, <2>2, RenewalTypes DEF Moves, Sets
    <2>3. CASE Fault /\ worker' = [worker EXCEPT ![w].lost = "yes"] /\ lease' = lease
      <3> DEFINE x == [worker[w] EXCEPT !.lost = "yes"]
      <3>1. /\ x \in WorkerStates /\ x.at = worker[w].at /\ x.run = worker[w].run
            /\ x.attempt = worker[w].attempt
        BY <1>0 DEF WorkerStates, YesNo
      <3>2. Sets(w, x)
        BY <2>3 DEF Sets
      <3> HIDE DEF x
      <3> QED BY <1>0, <1>1, <2>1, <2>3, <3>1, <3>2 DEF Moves
    <2> QED BY <1>10, <2>2, <2>3 DEF RenewTimer
  <1>11. CASE Record(w)
    <2>1. worker[w].at \in Past /\ "done" \in Past /\ "caught" \in Past /\ At(w, worker[w].at)
      BY <1>11 DEF Record, At, Past
    <2>2. \A r \in Runs : Len(history'[r]) = Len(history[r])
      BY <1>5, <1>11, <2>1 DEF Record, Statuses
    <2> QED BY <1>4, <1>11, <2>1, <2>2 DEF Record
  <1>12. CASE Settle(w)
    <2>1. worker[w].at \in Past /\ "caught" \in Past /\ At(w, worker[w].at)
      BY <1>12 DEF Settle, At, Past
    <2>2. CASE Go(w, "caught") /\ UNCHANGED <<task, lease>>
      BY <1>4, <1>12, <2>1, <2>2 DEF Settle
    <2> QED BY <1>12, <2>1, <2>2 DEF Settle, Concludes
  <1>13. CASE Caught(w)
    <2>1. worker[w].at \in Past /\ "after" \in Past /\ At(w, worker[w].at) /\ ~At(w, "idle")
      BY <1>13 DEF Caught, At, Past
    <2>2. CASE Ends(w) /\ history' = history /\ (worker[w].lost = "yes" \/ Fault)
      BY <1>1, <1>13, <2>1, <2>2 DEF Caught, Quits
    <2>3. CASE Go(w, "after") /\ history' = Appended(worker[w].run, worker[w].attempt, "failed") /\ lease' = lease
      <3>1. \A r \in Runs : Len(history'[r]) = Len(history[r])
        BY <1>5, <2>1, <2>3 DEF Statuses
      <3> QED BY <1>4, <1>13, <2>1, <2>3, <3>1 DEF Caught
    <2> QED BY <1>13, <2>2, <2>3 DEF Caught
  <1>14. CASE After(w)
    <2>1. worker[w].at \in Past /\ ~At(w, "idle") /\ At(w, "after")
      BY <1>14 DEF After, At, Past
    <2>2. CASE Holds(w) /\ Leave(w) /\ lease' = Free /\ task' = IF Retries(w) THEN ToBeRetried ELSE Settled(worker[w].run)
      BY <1>14, <2>1, <2>2 DEF After, Retries, Concludes
    <2>3. CASE Ends(w) /\ task' = task /\ (~Holds(w) \/ Fault)
      BY <1>1, <1>2, <1>14, <2>1, <2>3 DEF After, Quits
    <2> QED BY <1>14, <2>2, <2>3 DEF After
  <1>15. CASE Crash(w)
    BY <1>1, <1>15 DEF Crash, Quits
  <1> QED BY <1>6, <1>7, <1>8, <1>9, <1>10, <1>11, <1>12, <1>13, <1>14, <1>15 DEF WorkerStep

----------------------------------------------------------------------------
(* Who holds the claim, which attempt a worker is at, and where the plan is. *)

\* Opening an attempt appends one to the history, or finds it there.
LEMMA OpenLength ==
  ASSUME Types, Attempts, NEW w \in Workers, Open(w)
  PROVE  LET r == worker[w].run IN
         /\ r \in Runs /\ worker[w].attempt \in 1 .. (Len(history[r]) + 1)
         /\ Len(history'[r]) = IF worker[w].attempt = Len(history[r]) + 1
                               THEN Len(history[r]) + 1 ELSE Len(history[r])
         /\ \A q \in Runs : q # r => history'[q] = history[q]
  <1> DEFINE r == worker[w].run
             n == worker[w].attempt
  <1>1. r \in Runs /\ n \in 1 .. (Len(history[r]) + 1)
    BY DEF Open, At, Types, Running, Attempts
  <1>2. Len(history[r]) \in Nat
    BY <1>1, Lengths
  <1>3. history' = Appended(r, n, "running")
    BY DEF Open
  <1>4. n > Len(history[r]) <=> n = Len(history[r]) + 1
    BY <1>1, <1>2
  <1> HIDE DEF r, n
  <1>5. /\ Len(history'[r]) = IF n > Len(history[r]) THEN Len(history[r]) + 1 ELSE Len(history[r])
        /\ \A q \in Runs : q # r => history'[q] = history[q]
    BY <1>1, <1>3, AppendedLength DEF Statuses
  <1>6. /\ r \in Runs /\ n \in 1 .. (Len(history[r]) + 1)
        /\ Len(history'[r]) = IF n = Len(history[r]) + 1 THEN Len(history[r]) + 1 ELSE Len(history[r])
        /\ \A q \in Runs : q # r => history'[q] = history[q]
    BY <1>1, <1>4, <1>5
  <1> QED BY <1>6 DEF r, n

\* Opening leaves the worker with its attempt.
LEMMA OpenWorker ==
  ASSUME Types, NEW w \in Workers, Open(w)
  PROVE  /\ worker' \in [Workers -> WorkerStates]
         /\ worker'[w].at = "begin" /\ worker'[w].run = worker[w].run
         /\ worker'[w].attempt = worker[w].attempt /\ worker'[w].lost = worker[w].lost
         /\ \A v \in Workers \ {w} : worker'[v] = worker[v]
  BY TypesNow DEF Open, Go, WorkerStates

LEMMA LookWorker ==
  ASSUME Types, NEW w \in Workers, Look(w)
  PROVE  /\ worker'[w].run = worker[w].run /\ worker'[w].lost = worker[w].lost
         /\ \/ worker'[w].at = "reconcile"
            \/ worker'[w].at = "open" /\ worker'[w].attempt = Len(history[worker[w].run]) + 1
         /\ \A v \in Workers \ {w} : worker'[v] = worker[v]
  BY TypesNow DEF Look, Go, WorkerStates

LEMMA ClaimWorker ==
  ASSUME Types, NEW w \in Workers, ClaimDue(w)
  PROVE  /\ worker'[w].at = "look" /\ worker'[w].run = Scheduled /\ worker'[w].lost = "no"
         /\ lease'.by = w /\ lease'.run = Scheduled /\ lease'.live = "yes"
         /\ \A v \in Workers \ {w} : worker'[v] = worker[v]
  <1> DEFINE x == [Idle EXCEPT !.at = "look", !.run = Scheduled, !.retried = task.retry]
  <1>1. x.at = "look" /\ x.run = Scheduled /\ x.lost = "no"
    BY DEF Idle
  <1>2. worker' = [worker EXCEPT ![w] = x] /\ lease' = [run |-> Scheduled, by |-> w, live |-> "yes"]
    BY DEF ClaimDue
  <1> HIDE DEF x
  <1> QED BY <1>1, <1>2, TypesNow

LEMMA LeaveWorker ==
  ASSUME Types, NEW w \in Workers, Leave(w)
  PROVE  /\ worker'[w].at = "idle"
         /\ \A v \in Workers \ {w} : worker'[v] = worker[v]
  BY TypesNow, IdleIsAState DEF Leave

\* The claim of a worker that ends is nobody's.
LEMMA EndsLease ==
  ASSUME Types, NEW w \in Workers, Ends(w)
  PROVE  /\ lease'.run = lease.run /\ lease'.live = lease.live
         /\ lease'.by = IF lease.by = w THEN NoWorker ELSE lease.by
  BY TypesNow DEF Ends, Leases

LEMMA WorkerKept ==
  ASSUME Types, User \/ Tick \/ Expire \/ UNCHANGED vars
  PROVE  worker' = worker /\ history' = history
  BY DEF User, Patch, Update, SetPreparationBlock, Delete, AskRun, AcceptRun, Tick, Expire, vars

LEMMA AttemptsNext == Types /\ Attempts /\ Claims /\ [Next]_vars => Attempts'
  <1> SUFFICES ASSUME Types, Attempts, Claims, [Next]_vars PROVE Attempts'
    OBVIOUS
  <1>1. CASE User \/ Tick \/ Expire \/ UNCHANGED vars
    BY <1>1, WorkerKept DEF Attempts
  <1>2. ASSUME NEW w \in Workers, WorkerStep(w) \/ RenewTimer(w) \/ Crash(w) PROVE Attempts'
    <2> DEFINE Fine(x, hs) == /\ x.at = "open" => x.attempt \in 1 .. (Len(hs[x.run]) + 1)
                              /\ x.at \in Past => x.attempt \in 1 .. Len(hs[x.run])
                              /\ x.at \in Opening => x.lost = "no"
    <2>0. \A r \in Runs : Len(history[r]) \in Nat
      BY Lengths
    <2>1. ASSUME \A r \in Runs : Len(history'[r]) \in Nat /\ Len(history[r]) <= Len(history'[r]),
                 \A v \in Workers \ {w} : worker'[v] = worker[v], Fine(worker'[w], history')
          PROVE Attempts'
      <3>1. ASSUME NEW v \in Workers, v # w PROVE Fine(worker'[v], history')
        <4>1. worker[v].at = "open" \/ worker[v].at \in Past => worker[v].run \in Runs
          BY DEF Types, Running, At, Past
        <4>2. Fine(worker[v], history) /\ worker'[v] = worker[v]
          BY <2>1, <3>1 DEF Attempts
        <4> QED BY <2>0, <2>1, <4>1, <4>2
      <3> QED BY <2>1, <3>1 DEF Attempts
    <2>2. CASE ClaimDue(w)
      <3>1. history' = history
        BY <2>2 DEF ClaimDue
      <3> QED BY <2>0, <2>1, <2>2, <3>1, ClaimWorker DEF Past
    <2>3. CASE Look(w)
      <3>1. history' = history /\ worker[w].run \in Runs /\ worker[w].lost = "no"
        BY <2>3 DEF Look, At, Types, Running, Attempts, Opening
      <3>2. Len(history[worker[w].run]) \in Nat
        BY <2>0, <3>1
      <3>3. Fine(worker'[w], history')
        BY <2>3, <3>1, <3>2, LookWorker DEF Past
      <3> QED BY <2>0, <2>1, <2>3, <3>1, <3>3, LookWorker
    <2>4. CASE Open(w)
      <3> DEFINE r == worker[w].run
      <3>1. /\ r \in Runs /\ worker[w].attempt \in 1 .. (Len(history[r]) + 1)
            /\ Len(history'[r]) = IF worker[w].attempt = Len(history[r]) + 1
                                  THEN Len(history[r]) + 1 ELSE Len(history[r])
            /\ \A q \in Runs : q # r => history'[q] = history[q]
        BY <2>4, OpenLength
      <3>2. \A q \in Runs : Len(history'[q]) \in Nat /\ Len(history[q]) <= Len(history'[q])
        BY <2>0, <3>1
      <3>3. worker[w].attempt \in 1 .. Len(history'[r])
        BY <2>0, <3>1
      <3>4. Fine(worker'[w], history')
        BY <2>4, <3>3, OpenWorker DEF Past, Opening
      <3> QED BY <2>1, <2>4, <3>2, <3>4, OpenWorker
    <2>5. CASE Moves(w)
      <3>1. PICK x \in WorkerStates : Sets(w, x) /\ x.at \in Past /\ x.run = worker[w].run /\ x.attempt = worker[w].attempt
        BY <2>5 DEF Moves
      <3>2. \A r \in Runs : Len(history'[r]) = Len(history[r])
        BY <2>5 DEF Moves
      <3>3. worker'[w] = x /\ \A v \in Workers \ {w} : worker'[v] = worker[v]
        BY <3>1, TypesNow DEF Sets
      <3>4. worker[w].run \in Runs /\ worker[w].attempt \in 1 .. Len(history[worker[w].run])
        BY <2>5 DEF Moves, Types, Running, At, Past, Attempts
      <3>5. Fine(worker'[w], history')
        BY <3>1, <3>2, <3>3, <3>4 DEF Past, Opening
      <3>6. \A r \in Runs : Len(history'[r]) \in Nat /\ Len(history[r]) <= Len(history'[r])
        BY <2>0, <3>2
      <3> QED BY <2>1, <3>3, <3>5, <3>6
    <2>6. CASE Quits(w) \/ Concludes(w)
      <3>1. Leave(w) /\ history' = history
        BY <2>6 DEF Quits, Ends, Concludes
      <3> QED BY <2>0, <2>1, <3>1, LeaveWorker DEF Past, Opening
    <2> QED BY <1>2, <2>2, <2>3, <2>4, <2>5, <2>6, KindsOfSteps
  <1> QED BY <1>1, <1>2 DEF Next

LEMMA ClaimsNext == Types /\ Attempts /\ Claims /\ [Next]_vars => Claims'
  <1> SUFFICES ASSUME Types, Attempts, Claims, [Next]_vars PROVE Claims'
    OBVIOUS
  <1>1. CASE User \/ Tick \/ Expire \/ UNCHANGED vars
    <2>1. lease'.by = lease.by /\ lease'.run = lease.run
      BY <1>1, TypesNow DEF User, Patch, Update, SetPreparationBlock, Delete, AskRun, AcceptRun, Tick, Expire, vars, Leases
    <2> QED BY <1>1, <2>1, WorkerKept DEF Claims, At
  <1>2. ASSUME NEW w \in Workers, WorkerStep(w) \/ RenewTimer(w) \/ Crash(w) PROVE Claims'
    <2>0. NoWorker \notin Workers
      BY RunsAssumption
    <2>1. CASE ClaimDue(w)
      BY <2>1, ClaimWorker DEF Claims, At
    <2>2. CASE Look(w)
      <3>1. lease' = lease
        BY <2>2 DEF Look
      <3> QED BY <2>2, <3>1, LookWorker DEF Claims, At
    <2>3. CASE Open(w)
      <3>1. lease' = lease
        BY <2>3 DEF Open
      <3> QED BY <2>3, <3>1, OpenWorker DEF Claims, At
    <2>4. CASE Moves(w)
      <3>1. PICK x \in WorkerStates : Sets(w, x) /\ x.at \in Past /\ x.run = worker[w].run
        BY <2>4 DEF Moves
      <3>2. worker'[w] = x /\ \A v \in Workers \ {w} : worker'[v] = worker[v]
        BY <3>1, TypesNow DEF Sets
      <3>3. lease'.by = lease.by /\ lease'.run = lease.run
        BY <2>4 DEF Moves
      <3> QED BY <3>1, <3>2, <3>3 DEF Claims, At, Past
    <2>5. CASE Quits(w)
      <3>1. Ends(w) /\ Leave(w)
        BY <2>5 DEF Quits, Ends
      <3> QED BY <2>0, <3>1, LeaveWorker, EndsLease DEF Claims, At
    <2>6. CASE Concludes(w)
      BY <2>0, <2>6 DEF Concludes, Free, Claims
    <2> QED BY <1>2, <2>1, <2>2, <2>3, <2>4, <2>5, <2>6, KindsOfSteps
  <1> QED BY <1>1, <1>2 DEF Next

\* The settlement of a run plans nothing that was not ahead, and not that run.
LEMMA SettledPlan ==
  ASSUME Types, Plans, NEW r \in Runs, lease.run = r, task' = Settled(r)
  PROVE  /\ task'.state = "active" /\ task'.deleted = "no" => task'.next # 0
         /\ \A o \in Occs : Ahead(o)' => Ahead(o) /\ o # r
  <1>1. task \in Tasks /\ clock \in 0..Occurrences /\ Occurrences \in Nat
    BY TypesNow, RunsAssumption
  <1>2. Claimed /\ Requests \cap Occs = {} /\ NoRun \notin Requests /\ (r \notin Requests => r \in Occs /\ r \in Nat /\ r > 0)
    BY RunsAssumption DEF Claimed, Runs, Occs
  <1> DEFINE n == NextAfter(r)
  <1>3. n \in Nat /\ n <= Occurrences
    BY <1>1, Instants
  <1>4. n # 0 => clock + 1 <= n /\ (r \in Occs => r + 1 <= n)
    <2>1. CASE r \in Occs
      <3>1. n = InstantAfter(Later(clock, r))
        BY <2>1 DEF NextAfter
      <3>2. Later(clock, r) \in Nat /\ clock <= Later(clock, r) /\ r <= Later(clock, r)
        BY <1>1, <2>1, RunsAssumption DEF Later, Occs
      <3> QED BY <1>1, <2>1, <3>1, <3>2, RunsAssumption DEF InstantAfter, Occs
    <2>2. CASE r \notin Occs
      <3>1. n = InstantAfter(clock)
        BY <2>2 DEF NextAfter
      <3> QED BY <1>1, <2>2, <3>1 DEF InstantAfter
    <2> QED BY <2>1, <2>2
  <1> DEFINE byHand == task.manual # NoRun /\ r = task.manual
             stays == [task EXCEPT !.manual = NoRun]
             closed == [task EXCEPT !.next = 0, !.state = "completed"]
             halted == [task EXCEPT !.next = 0]
             planned == [task EXCEPT !.next = n, !.state = IF n # 0 THEN "active" ELSE "completed"]
             done == IF byHand THEN stays
                     ELSE IF task.deleted = "yes" THEN closed
                     ELSE IF task.state = "paused" THEN halted
                     ELSE planned
  <1>5. task' = [done EXCEPT !.retry = "no", !.cancel = "no"]
    BY DEF Settled
  <1>6. stays.next = task.next /\ stays.state = task.state /\ stays.deleted = task.deleted
    BY <1>1 DEF Tasks
  <1>7. closed.next = 0 /\ closed.state = "completed" /\ halted.next = 0 /\ halted.state = task.state
    BY <1>1 DEF Tasks
  <1>8. planned.next = n /\ planned.state = IF n # 0 THEN "active" ELSE "completed"
    <2> HIDE DEF n
    <2> QED BY <1>1 DEF Tasks
  <1>9. \E t \in Tasks : t = done
    <2> HIDE DEF n
    <2>1. n \in 0..Occurrences /\ 0 \in 0..Occurrences
      BY <1>1, <1>3
    <2>2. stays \in Tasks /\ closed \in Tasks /\ halted \in Tasks
      BY <1>1, <2>1 DEF Tasks
    <2>3. planned \in Tasks
      BY <1>1, <2>1 DEF Tasks
    <2> QED BY <2>2, <2>3
  <1> HIDE DEF done, stays, closed, halted, planned
  <1>10. task'.next = done.next /\ task'.state = done.state /\ task'.deleted = done.deleted
    BY <1>5, <1>9 DEF Tasks
  <1>11. CASE byHand
    <2>1. done = stays
      BY <1>11 DEF done
    <2>2. r \in Requests
      BY <1>1, <1>11 DEF Tasks
    <2> QED BY <1>2, <1>6, <1>10, <2>1, <2>2 DEF Plans, Ahead
  <1>12. CASE ~byHand /\ (task.deleted = "yes" \/ task.state = "paused")
    <2>1. done = closed \/ (done = halted /\ task.state = "paused")
      BY <1>12 DEF done
    <2> QED BY <1>7, <1>10, <2>1 DEF Ahead
  <1>13. CASE ~byHand /\ task.deleted # "yes" /\ task.state # "paused"
    <2>1. done = planned
      BY <1>13 DEF done
    <2>m. task.manual # lease.run
      BY <1>2, <1>13 DEF Claimed
    <2>p. (task.next = r \/ task.next <= clock + 1) /\ (task.state = "completed" => task.deleted = "yes")
      BY <1>2, <2>m DEF Plans
    <2>2. task.state = "active" /\ task.deleted = "no"
      BY <1>1, <1>13, <2>p DEF Tasks, YesNo
    <2>3. task.next # 0 /\ task.next \in Nat /\ (task.next = r \/ task.next <= clock + 1)
      BY <1>1, <2>2, <2>p DEF Plans, Tasks
    <2>4. task'.next = n /\ (task'.state = "active" => n # 0)
      BY <1>8, <1>10, <2>1
    <2>5. n # 0 => task.next <= n
      <3>1. task.next = r => r \in Occs
        BY <1>2, <2>3, RunsAssumption
      <3> QED BY <1>1, <1>3, <1>4, <2>3, <3>1
    <2>6. ASSUME NEW o \in Occs, Ahead(o)' PROVE Ahead(o) /\ o # r
      <3>1. o \in Nat /\ n # 0 /\ n <= o
        BY <1>1, <2>4, <2>6 DEF Ahead, Occs
      <3> QED BY <1>3, <1>4, <2>3, <2>5, <2>6, <3>1 DEF Ahead
    <2> QED BY <2>4, <2>6
  <1> QED BY <1>11, <1>12, <1>13

LEMMA PlansOwner == ASSUME Types, Plans, User PROVE Plans'
  <1>1. task \in Tasks /\ clock \in 0..Occurrences
    BY TypesNow
  <1>2. lease' = lease /\ clock' = clock
    BY DEF User, Patch, Update, SetPreparationBlock, Delete, AskRun, AcceptRun
  <1>3. ASSUME NEW s \in {"active", "paused", task.state}, NEW kind \in {"rename", "edit", "schedule"},
               Update(s, kind)
        PROVE  Plans'
    <2> DEFINE replans == s = "active" /\ (kind = "schedule" \/ task.state # "active")
    <2>1. /\ task'.state = s /\ task'.deleted = task.deleted /\ task'.manual = task.manual
          /\ task'.next = IF replans THEN InstantAfter(clock) ELSE task.next
          /\ replans => InstantAfter(clock) # 0
      BY <1>1, <1>3 DEF Update, Tasks
    <2>2. InstantAfter(clock) <= clock + 1
      BY <1>1, RunsAssumption DEF InstantAfter
    <2>3. task'.state = "active" /\ task'.deleted = "no" => task'.next # 0
      BY <2>1 DEF Plans
    <2>4. Claimed' /\ task'.manual # lease'.run => task'.next = lease'.run \/ task'.next <= clock' + 1
      BY <1>2, <2>1, <2>2 DEF Plans, Claimed
    <2>5. Claimed' /\ task'.manual # lease'.run /\ task'.state = "completed" => task'.deleted = "yes"
      BY <1>2, <2>1 DEF Plans, Claimed
    <2> QED BY <2>3, <2>4, <2>5 DEF Plans
  <1>4. ASSUME NEW b \in YesNo, SetPreparationBlock(b) PROVE Plans'
    <2>1. task'.state = "paused" /\ task'.next = 0
      BY <1>1, <1>4 DEF SetPreparationBlock, Tasks
    <2> QED BY <1>1, <1>2, <2>1 DEF Plans
  <1>5. CASE Delete
    <2>1. task'.state = "paused" /\ task'.next = task.next /\ task'.manual = task.manual
      BY <1>1, <1>5 DEF Delete, Tasks
    <2> QED BY <1>2, <2>1 DEF Plans, Claimed
  <1>6. ASSUME NEW r \in Requests, AskRun(r) PROVE Plans'
    BY <1>2, <1>6 DEF AskRun, Plans, Claimed
  <1>7. ASSUME NEW r \in Requests, AcceptRun(r) PROVE Plans'
    <2>1. \/ task' = task
          \/ ~Claimed /\ task'.state = task.state /\ task'.next = task.next /\ task'.deleted = task.deleted
      BY <1>1, <1>7 DEF AcceptRun, Tasks
    <2> QED BY <1>2, <2>1 DEF Plans, Claimed
  <1> QED BY <1>3, <1>4, <1>5, <1>6, <1>7 DEF User, Patch

LEMMA PlansNext == Types /\ Attempts /\ Claims /\ Plans /\ [Next]_vars => Plans'
  <1> SUFFICES ASSUME Types, Attempts, Claims, Plans, [Next]_vars PROVE Plans'
    OBVIOUS
  <1>1. task \in Tasks /\ clock \in Nat /\ lease \in Leases
    BY TypesNow
  <1>2. CASE Tick
    BY <1>1, <1>2 DEF Tick, Plans, Claimed, Tasks
  <1>3. CASE Expire \/ UNCHANGED vars
    <2>1. lease'.run = lease.run /\ task' = task /\ clock' = clock
      BY <1>1, <1>3 DEF Expire, Leases, vars
    <2> QED BY <2>1 DEF Plans, Claimed
  <1>4. ASSUME NEW w \in Workers, WorkerStep(w) \/ RenewTimer(w) \/ Crash(w) PROVE Plans'
    <2>1. CASE ClaimDue(w)
      <3>1. lease'.run = Scheduled /\ task' = task /\ clock' = clock
        BY <2>1, ClaimWorker DEF ClaimDue
      <3>2. task.manual # Scheduled => Scheduled = task.next /\ task.state = "active"
        BY <2>1 DEF ClaimDue, Claimable, Scheduled
      <3> QED BY <3>1, <3>2 DEF Plans
    <2>2. CASE Look(w) \/ Open(w) \/ Moves(w) \/ Quits(w)
      <3>1. lease'.run = lease.run /\ task' = task /\ clock' = clock
        BY <2>2, EndsLease DEF Look, Open, Moves, Quits
      <3> QED BY <3>1 DEF Plans, Claimed
    <2>3. CASE Concludes(w)
      <3>1. ~Claimed'
        BY <2>3 DEF Concludes, Free, Claimed
      <3>2. lease.run = worker[w].run /\ worker[w].run \in Runs
        BY <2>3 DEF Concludes, Holds, Types, Running, At, Past
      <3>3. CASE task' = Settled(worker[w].run)
        BY <3>1, <3>2, <3>3, SettledPlan DEF Plans
      <3>4. CASE task' = ToBeRetried
        <4>1. task'.state = task.state /\ task'.deleted = task.deleted /\ task'.next = task.next
          BY <1>1, <3>4 DEF ToBeRetried, Tasks
        <4> QED BY <3>1, <4>1 DEF Plans
      <3> QED BY <2>3, <3>3, <3>4 DEF Concludes
    <2> QED BY <1>4, <2>1, <2>2, <2>3, KindsOfSteps
  <1> QED BY <1>2, <1>3, <1>4, PlansOwner DEF Next

----------------------------------------------------------------------------
(* The account of the attempts.                                            *)

LEMMA FewerAstray ==
  ASSUME BoundInv, NEW o \in Occs, Astray(o)' \subseteq Astray(o)
  PROVE  /\ IsFiniteSet(Astray(o)') /\ Cardinality(Astray(o)') \in Nat
         /\ Cardinality(Astray(o)) \in Nat /\ Cardinality(Astray(o)') <= Cardinality(Astray(o))
  BY FS_Subset, FS_CardinalityType DEF BoundInv, Counted, Paid

\* No attempt is opened, and whoever becomes owed one was counted before.
LEMMA CountedKept ==
  ASSUME BoundInv, [Next]_vars,
         \A o \in Occs : Len(history'[o]) = Len(history[o]) /\ Astray(o)' \subseteq Astray(o),
         \A o \in Occs : Owed(o)' => \/ Owed(o) \/ Budget + 1 <= Budget'
                                     \/ Len(history[o]) + Cardinality(Astray(o)) + 1 <= Budget,
         \A w \in Workers : lease'.by = w /\ worker'[w].at \in {"open"} \union Past /\ worker'[w].run \in Occs =>
           \/ /\ lease.by = w /\ worker[w].at \in {"open"} \union Past
              /\ worker'[w].run = worker[w].run /\ worker'[w].attempt = worker[w].attempt
           \/ worker'[w].attempt = Len(history[worker'[w].run]) + 1
  PROVE  Counted'
  <1>0. /\ Budget \in Nat /\ Budget' \in Nat /\ Budget <= Budget'
        /\ overruns \in Nat /\ overruns' \in Nat /\ overruns <= overruns'
    BY BudgetGrows DEF BoundInv
  <1>1. ASSUME NEW o \in Occs PROVE Paid(o)'
    <2>1. Len(history[o]) \in Nat /\ Len(history'[o]) = Len(history[o])
      BY <1>1, Lengths DEF BoundInv, Runs
    <2>2. /\ IsFiniteSet(Astray(o)') /\ Cardinality(Astray(o)') \in Nat
          /\ Cardinality(Astray(o)) \in Nat /\ Cardinality(Astray(o)') <= Cardinality(Astray(o))
      BY <1>1, FewerAstray
    <2>3. Paid(o)
      BY <1>1 DEF BoundInv, Counted
    <2>4. Owed(o)' => \/ Owed(o) \/ Budget + 1 <= Budget'
                      \/ Len(history[o]) + Cardinality(Astray(o)) + 1 <= Budget
      BY <1>1
    <2> DEFINE n == Len(history[o])
               c == Cardinality(Astray(o))
               d == Cardinality(Astray(o)')
    <2>5. /\ c <= overruns /\ n + c + (IF Owed(o) THEN 1 ELSE 0) <= Budget
      BY <2>3 DEF Paid
    <2>6. n + d + (IF Owed(o)' THEN 1 ELSE 0) <= Budget'
      <3> HIDE DEF n, c, d
      <3>1. n \in Nat /\ c \in Nat /\ d \in Nat /\ d <= c
        BY <2>1, <2>2 DEF n, c, d
      <3>2. Owed(o)' => \/ Owed(o) \/ Budget + 1 <= Budget' \/ n + c + 1 <= Budget
        BY <2>4 DEF n, c
      <3> QED BY <1>0, <2>5, <3>1, <3>2
    <2>7. d <= overruns'
      BY <1>0, <2>2, <2>5
    <2> QED BY <2>1, <2>2, <2>6, <2>7 DEF Paid
  <1>2. ASSUME NEW o \in Occs, NEW w \in Workers,
               lease'.by = w, worker'[w].at \in {"open"} \union Past, worker'[w].run = o
        PROVE  Len(history'[o]) + Cardinality(Astray(o)') <= overruns' + worker'[w].attempt
    <2> DEFINE n == Len(history[o])
               c == Cardinality(Astray(o))
               d == Cardinality(Astray(o)')
    <2>2. n \in Nat /\ Len(history'[o]) = n
      BY Lengths DEF BoundInv, Runs
    <2>3. d \in Nat /\ c \in Nat /\ d <= c
      BY FewerAstray
    <2>4. c <= overruns
      BY DEF BoundInv, Counted, Paid
    <2>5. \/ (worker'[w].attempt = worker[w].attempt /\ n + c <= overruns + worker[w].attempt)
          \/ worker'[w].attempt = n + 1
      BY <1>2 DEF BoundInv, Counted, Slack
    <2>6. worker[w].attempt \in Nat
      BY TypesNow DEF BoundInv, WorkerStates
    <2> HIDE DEF n, c, d
    <2>7. n + d <= overruns' + worker'[w].attempt
      BY <1>0, <2>2, <2>3, <2>4, <2>5, <2>6
    <2> QED BY <2>2, <2>7 DEF d
  <1> QED BY <1>1, <1>2 DEF Counted, Slack

LEMMA CountedInit == Init => BoundInv
  <1> SUFFICES ASSUME Init PROVE BoundInv
    OBVIOUS
  <1>1. Types
    BY TypesInit
  <1>2. \A w \in Workers : worker[w] = Idle
    BY DEF Init
  <1>3. \A o \in Occs : Len(history[o]) = 0 /\ Astray(o) = {}
    <2> SUFFICES ASSUME NEW o \in Occs PROVE Len(history[o]) = 0 /\ Astray(o) = {}
      OBVIOUS
    <2>1. history[o] = <<>>
      BY DEF Init, Runs
    <2>2. \A w \in Workers : worker[w].at \notin Opening
      BY <1>2, IdleIsAState DEF Opening
    <2> QED BY <2>1, <2>2 DEF Astray
  <1>4. \A o \in Occs : ~Owed(o)
    BY <1>2, <1>3, IdleIsAState DEF Owed, Opening
  <1>5. MaxAttempts \in Nat /\ overruns = 0 /\ Budget = MaxAttempts
    BY RunsAssumption DEF Init, Budget
  <1>6. ASSUME NEW o \in Occs PROVE Paid(o)
    <2>1. IsFiniteSet(Astray(o)) /\ Cardinality(Astray(o)) = 0
      BY <1>3, FS_EmptySet
    <2>2. Len(history[o]) = 0 /\ (IF Owed(o) THEN 1 ELSE 0) = 0
      BY <1>3, <1>4
    <2>3. Len(history[o]) + Cardinality(Astray(o)) + (IF Owed(o) THEN 1 ELSE 0) = 0
      BY <2>1, <2>2
    <2>4. Cardinality(Astray(o)) <= overruns /\ 0 <= Budget
      BY <1>5, <2>1
    <2> QED BY <2>1, <2>3, <2>4 DEF Paid
  <1>7. Attempts /\ \A w \in Workers, o \in Occs : Slack(w, o)
    BY <1>2, IdleIsAState DEF Attempts, Slack, Opening, Past
  <1>8. Claims /\ Plans
    BY RunsAssumption DEF Init, Free, Claims, Plans, Claimed
  <1> QED BY <1>1, <1>6, <1>7, <1>8 DEF BoundInv, Counted

LEMMA CountedWorld ==
  ASSUME BoundInv, [Next]_vars, User \/ Tick \/ UNCHANGED vars
  PROVE  Counted'
  <1>1. worker' = worker /\ history' = history /\ lease' = lease
    BY WorkerKept DEF User, Patch, Update, SetPreparationBlock, Delete, AskRun, AcceptRun, Tick, vars, BoundInv
  <1>2. \A o \in Occs : Astray(o)' = Astray(o)
    BY <1>1 DEF Astray, Keeps
  <1>3. task'.next = task.next \/ Budget + 1 <= Budget'
    <2>1. task \in Tasks
      BY TypesNow DEF BoundInv
    <2>2. Owner \/ (\E r \in Requests : AcceptRun(r)) \/ task' = task
      BY DEF User, Patch, Update, SetPreparationBlock, Delete, AskRun, Tick, vars
    <2>3. \A r \in Requests : AcceptRun(r) => task'.next = task.next
      BY <2>1 DEF AcceptRun, Tasks
    <2> QED BY <2>2, <2>3, BudgetGrows DEF BoundInv
  <1>4. \A o \in Occs : Owed(o)' => Owed(o) \/ Budget + 1 <= Budget'
    BY <1>1, <1>3 DEF Owed, Ahead, Proper, Keeps
  <1> QED BY <1>1, <1>2, <1>4, CountedKept

\* A live worker that lets its lease expire pays for what it may still open.
LEMMA CountedExpire == ASSUME BoundInv, [Next]_vars, Expire PROVE Counted'
  <1>0. worker' = worker /\ history' = history /\ task' = task /\ lease \in Leases
    BY TypesNow DEF Expire, BoundInv
  <1>1. lease'.by = lease.by /\ lease'.run = lease.run /\ lease.live = "yes" /\ lease'.live = "no"
    BY <1>0 DEF Expire, Leases
  <1>2. CASE lease.by = NoWorker
    <2>1. \A w \in Workers, o \in Occs : ~Keeps(w, o) /\ ~Keeps(w, o)'
      BY <1>1, <1>2, RunsAssumption DEF Keeps
    <2>2. \A o \in Occs : Astray(o)' = Astray(o) /\ (Owed(o)' => Owed(o))
      BY <1>0, <2>1 DEF Astray, Owed, Proper, Ahead
    <2> QED BY <1>0, <1>1, <2>2, CountedKept
  <1>3. CASE lease.by # NoWorker
    <2> DEFINE v == lease.by
    <2>0. v \in Workers /\ overruns' = overruns + 1
      BY <1>0, <1>3 DEF Expire, Leases
    <2>1. /\ Budget \in Nat /\ Budget' \in Nat /\ Budget + 1 <= Budget'
          /\ overruns \in Nat
      BY <2>0, BudgetGrows DEF BoundInv
    <2>2. ASSUME NEW o \in Occs
          PROVE  /\ Paid(o)' /\ Cardinality(Astray(o)') \in Nat /\ Cardinality(Astray(o)) \in Nat
                 /\ Cardinality(Astray(o)') <= Cardinality(Astray(o)) + 1
      <3> DEFINE n == Len(history[o])
                 c == Cardinality(Astray(o))
                 d == Cardinality(Astray(o)')
      <3>1. n \in Nat /\ n = Len(history'[o])
        BY <1>0, Lengths DEF BoundInv, Runs
      <3>2. IsFiniteSet(Astray(o)) /\ c <= overruns /\ n + c + (IF Owed(o) THEN 1 ELSE 0) <= Budget
        BY <2>2 DEF BoundInv, Counted, Paid
      <3>3. \A w \in Workers \ {v} : ~Keeps(w, o)
        BY DEF Keeps
      <3>4. \A w \in Workers : ~Keeps(w, o)'
        BY <1>1 DEF Keeps
      <3>5. Astray(o)' \subseteq Astray(o) \union {v}
        BY <1>0, <3>3, <3>4 DEF Astray
      <3>6. v \in Astray(o)' => v \in Astray(o) \/ Owed(o)
        BY <1>0, <2>0 DEF Astray, Owed
      <3>7. IsFiniteSet(Astray(o) \union {v})
            /\ Cardinality(Astray(o) \union {v}) = IF v \in Astray(o) THEN c ELSE c + 1
        BY <3>2, FS_AddElement
      <3>8. c \in Nat /\ IsFiniteSet(Astray(o)') /\ d \in Nat /\ d <= Cardinality(Astray(o) \union {v})
        BY <3>2, <3>5, <3>7, FS_Subset, FS_CardinalityType
      <3>9. v \notin Astray(o)' \/ v \in Astray(o) => d <= c
        <4> SUFFICES ASSUME v \notin Astray(o)' \/ v \in Astray(o) PROVE d <= c
          OBVIOUS
        <4>1. Astray(o)' \subseteq Astray(o)
          BY <3>5
        <4> QED BY <3>2, <4>1, FS_Subset
      <3>10. d <= c + 1 /\ d <= overruns'
        BY <2>0, <2>1, <3>2, <3>7, <3>8
      <3>11. d <= c \/ Owed(o)
        BY <3>6, <3>9
      <3> HIDE DEF n, c, d
      <3>12. n + d + (IF Owed(o)' THEN 1 ELSE 0) <= Budget'
        <4> DEFINE p == IF Owed(o) THEN 1 ELSE 0
                   q == IF Owed(o)' THEN 1 ELSE 0
        <4>0. p \in {0, 1} /\ q \in {0, 1} /\ (Owed(o) => p = 1)
          OBVIOUS
        <4>a. n + c + p <= Budget
          BY <3>2
        <4> HIDE DEF p, q
        <4>1. n + c <= Budget /\ (Owed(o) => n + c + 1 <= Budget)
          BY <2>1, <3>1, <3>8, <4>0, <4>a
        <4>2. n + d <= Budget
          <5>1. CASE d <= c
            BY <2>1, <3>1, <3>8, <4>1, <5>1
          <5>2. CASE Owed(o)
            BY <2>1, <3>1, <3>8, <3>10, <4>1, <5>2
          <5> QED BY <3>11, <5>1, <5>2
        <4>3. n + d + q <= Budget'
          BY <2>1, <3>1, <3>8, <4>0, <4>2
        <4> QED BY <4>3 DEF q
      <3> QED BY <3>1, <3>8, <3>10, <3>12 DEF Paid, n, c, d
    <2>3. ASSUME NEW o \in Occs, NEW w \in Workers PROVE Slack(w, o)'
      <3> SUFFICES ASSUME lease.by = w, worker[w].at \in {"open"} \union Past, worker[w].run = o
                   PROVE  Len(history[o]) + Cardinality(Astray(o)') <= overruns + 1 + worker[w].attempt
        BY <1>0, <1>1, <2>0 DEF Slack
      <3> DEFINE n == Len(history[o])
                 c == Cardinality(Astray(o))
                 d == Cardinality(Astray(o)')
      <3>1. n \in Nat
        BY Lengths DEF BoundInv, Runs
      <3>2. d \in Nat /\ c \in Nat /\ d <= c + 1
        BY <2>2
      <3>3. n + c <= overruns + worker[w].attempt
        BY DEF BoundInv, Counted, Slack
      <3>4. worker[w].attempt \in Nat
        BY TypesNow DEF BoundInv, WorkerStates
      <3> HIDE DEF n, c, d
      <3>5. n + d <= overruns + 1 + worker[w].attempt
        BY <2>1, <3>1, <3>2, <3>3, <3>4
      <3> QED BY <3>5 DEF n, d
    <2> QED BY <2>2, <2>3 DEF Counted
  <1> QED BY <1>2, <1>3

\* The steps of a worker, by kind.
LEMMA CountedClaim == ASSUME BoundInv, [Next]_vars, NEW w \in Workers, ClaimDue(w) PROVE Counted'
  <1>1. /\ worker'[w].at = "look" /\ worker'[w].run = Scheduled
        /\ lease'.by = w /\ lease'.live = "yes"
        /\ \A v \in Workers \ {w} : worker'[v] = worker[v]
    BY ClaimWorker DEF BoundInv
  <1>2. history' = history /\ task' = task /\ lease.live = "no"
    BY DEF ClaimDue, Claimable
  <1>3. \A v \in Workers, o \in Occs : ~Keeps(v, o) /\ (Keeps(v, o)' <=> v = w /\ o = Scheduled)
    BY <1>1, <1>2 DEF Keeps
  <1>4. \A o \in Occs : Astray(o)' \subseteq Astray(o)
    BY <1>1, <1>3 DEF Astray
  <1>5. \A o \in Occs : o = Scheduled => Ahead(o)
    <2>1. task.manual \notin Occs
      BY RunsAssumption, TypesNow DEF Tasks, Occs, BoundInv
    <2>2. \A o \in Occs : o \in Nat /\ o # 0
      BY RunsAssumption DEF Occs
    <2> QED BY <2>1, <2>2 DEF Scheduled, Ahead
  <1>6. \A o \in Occs : Owed(o)' => Owed(o) \/ Len(history[o]) + Cardinality(Astray(o)) + 1 <= Budget
    <2> SUFFICES ASSUME NEW o \in Occs, Owed(o)', ~Owed(o)
                 PROVE  Len(history[o]) + Cardinality(Astray(o)) + 1 <= Budget
      OBVIOUS
    <2>1. Ahead(o)
      BY <1>2, <1>3, <1>5 DEF Owed, Ahead
    <2>2. Len(history[o]) = 0
      BY <1>3, <2>1 DEF Owed, Proper
    <2>3. Cardinality(Astray(o)) \in Nat /\ Cardinality(Astray(o)) <= overruns
      BY FewerAstray, <1>4 DEF BoundInv, Counted, Paid
    <2>4. MaxAttempts + overruns <= Budget /\ overruns \in Nat /\ Budget \in Nat /\ MaxAttempts \in Nat \ {0}
      BY BudgetGrows, RunsAssumption DEF BoundInv
    <2> QED BY <2>2, <2>3, <2>4
  <1>7. \A v \in Workers : lease'.by = v => worker'[v].at \notin {"open"} \union Past
    BY <1>1 DEF Past
  <1> QED BY <1>2, <1>4, <1>6, <1>7, CountedKept

LEMMA CountedLook == ASSUME BoundInv, [Next]_vars, NEW w \in Workers, Look(w) PROVE Counted'
  <1>1. /\ worker'[w].run = worker[w].run
        /\ \/ worker'[w].at = "reconcile"
           \/ worker'[w].at = "open" /\ worker'[w].attempt = Len(history[worker[w].run]) + 1
        /\ \A v \in Workers \ {w} : worker'[v] = worker[v]
    BY LookWorker DEF BoundInv
  <1>2. history' = history /\ task' = task /\ lease' = lease /\ worker[w].at = "look"
    BY DEF Look, At
  <1>3. \A v \in Workers, o \in Occs : Keeps(v, o)' <=> Keeps(v, o)
    BY <1>1, <1>2 DEF Keeps
  <1>4. \A v \in Workers : worker'[v].at \in Opening => worker[v].at \in Opening /\ worker'[v].run = worker[v].run
    BY <1>1, <1>2 DEF Opening
  <1>5. \A v \in Workers, o \in Occs : Proper(v, o) => Proper(v, o)'
    BY <1>1, <1>2, <1>3 DEF Proper, Past
  <1>6. \A o \in Occs : Astray(o)' \subseteq Astray(o) /\ (Owed(o)' => Owed(o))
    BY <1>2, <1>3, <1>4, <1>5 DEF Astray, Owed, Ahead
  <1>7. \A v \in Workers : worker'[v].at \in {"open"} \union Past =>
          worker'[v] = worker[v] \/ worker'[v].attempt = Len(history[worker'[v].run]) + 1
    BY <1>1 DEF Past
  <1> QED BY <1>2, <1>6, <1>7, CountedKept

LEMMA CountedMove == ASSUME BoundInv, [Next]_vars, NEW w \in Workers, Moves(w) PROVE Counted'
  <1>1. PICK x \in WorkerStates :
          /\ Sets(w, x) /\ x.at \in Past
          /\ x.run = worker[w].run /\ x.attempt = worker[w].attempt
          /\ x.lost = worker[w].lost \/ ~Holds(w) \/ Budget + 1 <= Budget'
    BY DEF Moves
  <1>2. worker'[w] = x /\ \A v \in Workers \ {w} : worker'[v] = worker[v]
    BY <1>1, TypesNow DEF Sets, BoundInv
  <1>3. /\ \A r \in Runs : Len(history'[r]) = Len(history[r])
        /\ task' = task /\ worker[w].at \in Past
        /\ lease'.by = lease.by /\ (lease' = lease \/ lease.by = w)
        /\ lease.live = "yes" => lease'.live = "yes"
    BY DEF Moves
  <1>4. lease.by = w => Holds(w)
    BY DEF BoundInv, Claims, Holds
  <1>5. \A v \in Workers, o \in Occs : Keeps(v, o) => Keeps(v, o)'
    BY <1>1, <1>2, <1>3 DEF Keeps
  <1>6. \A v \in Workers, o \in Occs : v # w /\ Keeps(v, o)' => Keeps(v, o)
    BY <1>2, <1>3 DEF Keeps
  <1>7. \A v \in Workers : worker'[v].at \in Opening => v # w
    BY <1>1, <1>2 DEF Opening, Past
  <1>8. \A o \in Occs : Astray(o)' \subseteq Astray(o)
    BY <1>2, <1>5, <1>7 DEF Astray
  <1>9. \A v \in Workers, o \in Occs : Proper(v, o) => Proper(v, o)' \/ Budget + 1 <= Budget'
    <2>1. \A o \in Occs : Proper(w, o) => x.lost = "no" \/ Budget + 1 <= Budget'
      BY <1>1, <1>4 DEF Proper, Keeps
    <2> QED BY <1>1, <1>2, <1>5, <2>1 DEF Proper
  <1>10. \A o \in Occs : Owed(o)' => Owed(o) \/ Budget + 1 <= Budget'
    BY <1>2, <1>3, <1>6, <1>7, <1>9 DEF Owed, Ahead, Runs
  <1>11. \A v \in Workers : worker'[v].at \in {"open"} \union Past =>
           worker[v].at \in {"open"} \union Past /\ worker'[v].run = worker[v].run /\ worker'[v].attempt = worker[v].attempt
    BY <1>1, <1>2, <1>3
  <1>12. \A o \in Occs : Len(history'[o]) = Len(history[o])
    BY <1>3 DEF Runs
  <1> QED BY <1>3, <1>8, <1>10, <1>11, <1>12, CountedKept

LEMMA CountedQuit == ASSUME BoundInv, [Next]_vars, NEW w \in Workers, Quits(w) PROVE Counted'
  <1>1. worker'[w].at = "idle" /\ \A v \in Workers \ {w} : worker'[v] = worker[v]
    BY LeaveWorker DEF Quits, Ends, BoundInv
  <1>2. /\ history' = history /\ task' = task
        /\ lease'.live = lease.live /\ lease'.by = IF lease.by = w THEN NoWorker ELSE lease.by
        /\ lease.by = w => worker[w].lost = "yes" \/ Budget + 1 <= Budget'
    BY EndsLease DEF Quits, BoundInv
  <1>3. \A v \in Workers \ {w}, o \in Occs : Keeps(v, o)' <=> Keeps(v, o)
    BY <1>1, <1>2, RunsAssumption DEF Keeps
  <1>4. \A v \in Workers : worker'[v].at \in Opening \union Past => v # w
    BY <1>1 DEF Opening, Past
  <1>5. \A o \in Occs : Astray(o)' \subseteq Astray(o)
    BY <1>1, <1>3, <1>4 DEF Astray
  <1>6. \A v \in Workers, o \in Occs : Proper(v, o) => Proper(v, o)' \/ Budget + 1 <= Budget'
    <2>1. \A o \in Occs : Proper(w, o) => Budget + 1 <= Budget'
      BY <1>2 DEF Proper, Keeps
    <2> QED BY <1>1, <1>3, <2>1 DEF Proper
  <1>7. \A o \in Occs : Owed(o)' => Owed(o) \/ Budget + 1 <= Budget'
    BY <1>1, <1>2, <1>3, <1>4, <1>6 DEF Owed, Ahead
  <1>8. \A v \in Workers : lease'.by = v /\ worker'[v].at \in {"open"} \union Past => lease.by = v /\ worker'[v] = worker[v]
    BY <1>1, <1>2, RunsAssumption DEF Past
  <1> QED BY <1>2, <1>5, <1>7, <1>8, CountedKept

LEMMA CountedConclusion == ASSUME BoundInv, [Next]_vars, NEW w \in Workers, Concludes(w) PROVE Counted'
  <1> DEFINE r == worker[w].run
  <1>1. worker'[w].at = "idle" /\ \A v \in Workers \ {w} : worker'[v] = worker[v]
    BY LeaveWorker DEF Concludes, BoundInv
  <1>2. /\ history' = history /\ lease.by = w /\ lease.run = r /\ lease'.by = NoWorker
        /\ worker[w].at \in {"reconcile"} \union Past
    BY DEF Concludes, Holds, Free
  <1>3. r \in Runs /\ task \in Tasks
    BY <1>2, TypesNow DEF BoundInv, Types, Running, At, Past
  <1>4. \A v \in Workers, o \in Occs : ~Keeps(v, o)' /\ (Keeps(v, o) => v = w /\ o = r)
    BY <1>2, RunsAssumption DEF Keeps
  <1>5. \A o \in Occs : Astray(o)' \subseteq Astray(o)
    BY <1>1, <1>4 DEF Astray, Opening
  <1>6. ASSUME NEW o \in Occs, Owed(o)'
        PROVE  Owed(o) \/ Len(history[o]) + Cardinality(Astray(o)) + 1 <= Budget
    <2>1. Ahead(o)' /\ Len(history[o]) # 0
      BY <1>2, <1>4, <1>6 DEF Owed
    <2>2. Ahead(o) /\ o # r => Owed(o)
      BY <1>4, <2>1 DEF Owed, Proper
    <2>3. CASE task' = Settled(r)
      BY <1>2, <1>3, <2>1, <2>2, <2>3, SettledPlan DEF BoundInv
    <2>4. CASE task' = ToBeRetried /\ At(w, "after") /\ worker[w].attempt < MaxAttempts
      <3>1. task'.next = task.next
        BY <1>3, <2>4 DEF ToBeRetried, Tasks
      <3>2. Ahead(o)
        BY <2>1, <3>1 DEF Ahead
      <3>3. CASE o = r
        <4>1. Len(history[o]) + Cardinality(Astray(o)) <= overruns + worker[w].attempt
          BY <1>2, <2>4, <3>3 DEF At, Past, BoundInv, Counted, Slack
        <4>2. Len(history[o]) \in Nat /\ Cardinality(Astray(o)) \in Nat
          BY <1>5, FewerAstray, Lengths DEF BoundInv, Runs
        <4>3. MaxAttempts + overruns <= Budget /\ overruns \in Nat /\ Budget \in Nat /\ MaxAttempts \in Nat
          BY BudgetGrows, RunsAssumption DEF BoundInv
        <4>4. worker[w].attempt \in Nat
          BY TypesNow DEF BoundInv, WorkerStates
        <4>5. worker[w].attempt + 1 <= MaxAttempts
          BY <2>4, <4>3, <4>4
        <4> DEFINE n == Len(history[o])
                   c == Cardinality(Astray(o))
                   a == worker[w].attempt
        <4>6. n \in Nat /\ c \in Nat /\ a \in Nat /\ n + c <= overruns + a /\ a + 1 <= MaxAttempts
          BY <4>1, <4>2, <4>4, <4>5
        <4> HIDE DEF n, c, a
        <4>7. n + c + 1 <= MaxAttempts + overruns
          BY <4>3, <4>6
        <4>8. n + c + 1 <= Budget
          BY <4>3, <4>6, <4>7
        <4> QED BY <4>8 DEF n, c
      <3> QED BY <2>2, <3>2, <3>3
    <2> QED BY <2>3, <2>4 DEF Concludes
  <1>7. \A v \in Workers : lease'.by # v
    BY <1>2, RunsAssumption
  <1> QED BY <1>2, <1>5, <1>6, <1>7, CountedKept

\* An attempt is opened: by the holder, who was owed one, or by an astray
\* worker, who was counted.
LEMMA CountedOpen == ASSUME BoundInv, [Next]_vars, NEW w \in Workers, Open(w) PROVE Counted'
  <1> DEFINE r == worker[w].run
             a == worker[w].attempt
  <1>1. /\ r \in Runs /\ a \in 1 .. (Len(history[r]) + 1)
        /\ Len(history'[r]) = IF a = Len(history[r]) + 1 THEN Len(history[r]) + 1 ELSE Len(history[r])
        /\ \A q \in Runs : q # r => history'[q] = history[q]
    BY OpenLength DEF BoundInv
  <1>2. /\ worker'[w].at = "begin" /\ worker'[w].run = r
        /\ worker'[w].attempt = a /\ worker'[w].lost = worker[w].lost
        /\ \A v \in Workers \ {w} : worker'[v] = worker[v]
    BY OpenWorker DEF BoundInv
  <1>3. worker[w].at = "open" /\ worker[w].lost = "no" /\ lease' = lease /\ task' = task
    BY DEF Open, At, BoundInv, Attempts, Opening
  <1>4. \A v \in Workers, o \in Occs : Keeps(v, o)' <=> Keeps(v, o)
    BY <1>2, <1>3 DEF Keeps
  <1>5. \A o \in Occs : Astray(o)' = Astray(o) \ {w}
    BY <1>2, <1>3, <1>4 DEF Astray, Opening
  <1>6. \A v \in Workers, o \in Occs : Proper(v, o) => Proper(v, o)'
    BY <1>2, <1>3, <1>4 DEF Proper, Past
  <1>7. \A o \in Occs : Keeps(w, o) => Proper(w, o)'
    BY <1>2, <1>3 DEF Keeps, Proper, Past
  <1>8. /\ Budget \in Nat /\ Budget' \in Nat /\ Budget <= Budget' /\ MaxAttempts + overruns <= Budget
        /\ overruns \in Nat /\ overruns' \in Nat /\ overruns <= overruns' /\ MaxAttempts \in Nat \ {0}
    BY BudgetGrows, RunsAssumption DEF BoundInv
  <1>9. a \in Nat /\ Len(history[r]) \in Nat
    BY <1>1, Lengths DEF BoundInv
  <1> HIDE DEF r, a
  <1>10. ASSUME NEW o \in Occs
         PROVE  Paid(o)' /\ \A v \in Workers : Slack(v, o)'
    <2> DEFINE n == Len(history[o])
               m == Len(history'[o])
               c == Cardinality(Astray(o))
               d == Cardinality(Astray(o)')
    <2>1. n \in Nat /\ m \in Nat /\ (o # r => m = n)
          /\ (o = r => m = IF a = n + 1 THEN n + 1 ELSE n)
      BY <1>1, Lengths DEF BoundInv, Runs
    <2>2. c \in Nat /\ d \in Nat /\ IsFiniteSet(Astray(o)) /\ IsFiniteSet(Astray(o)')
      BY <1>5, FewerAstray DEF BoundInv, Counted, Paid
    <2>3. d = IF w \in Astray(o) THEN c - 1 ELSE c
      BY <1>5, <2>2, FS_RemoveElement
    <2>4. c <= overruns /\ n + c + (IF Owed(o) THEN 1 ELSE 0) <= Budget
      BY DEF BoundInv, Counted, Paid
    <2>5. w \in Astray(o) <=> o = r /\ ~Keeps(w, o)
      BY <1>3 DEF Astray, Opening, r
    <2>6. CASE o # r
      <3>1. m = n /\ d = c
        BY <2>1, <2>3, <2>5, <2>6
      <3>2. Owed(o)' => Owed(o)
        <4>1. \A v \in Workers : Keeps(v, o)' /\ worker'[v].at \in Opening => Keeps(v, o) /\ worker[v].at \in Opening
          BY <1>2, <1>4 DEF Opening
        <4>2. Ahead(o)' <=> Ahead(o)
          BY <1>3 DEF Ahead
        <4> QED BY <1>6, <3>1, <4>1, <4>2 DEF Owed
      <3>3. \A v \in Workers : lease'.by = v /\ worker'[v].at \in {"open"} \union Past /\ worker'[v].run = o =>
              n + c <= overruns + worker'[v].attempt
        BY <1>2, <1>3, <2>6 DEF BoundInv, Counted, Slack
      <3>4. \A v \in Workers : worker'[v].attempt \in Nat
        BY <1>2, <1>9, TypesNow DEF BoundInv, WorkerStates
      <3> HIDE DEF n, m, c, d
      <3>5. m + d + (IF Owed(o)' THEN 1 ELSE 0) <= Budget' /\ d <= overruns'
        BY <1>8, <2>1, <2>2, <2>4, <3>1, <3>2
      <3>6. \A v \in Workers : lease'.by = v /\ worker'[v].at \in {"open"} \union Past /\ worker'[v].run = o =>
              m + d <= overruns' + worker'[v].attempt
        BY <1>8, <2>1, <2>2, <3>1, <3>3, <3>4
      <3> QED BY <2>2, <3>5, <3>6 DEF Paid, Slack, m, d
    <2>7. CASE o = r
      <3>1. n <= m /\ m <= n + 1 /\ a <= n + 1 /\ a >= 1
        BY <1>1, <1>9, <2>1, <2>7
      <3>2. Keeps(w, o) => Owed(o) /\ ~Owed(o)'
        <4>1. Keeps(w, o) => Owed(o)
          BY <1>3 DEF Owed, Opening
        <4>2. ASSUME Keeps(w, o), NEW v \in Workers, Keeps(v, o)' PROVE worker'[v].at \notin Opening
          <5>1. v = w
            BY <1>3, <4>2 DEF Keeps
          <5> QED BY <1>2, <5>1 DEF Opening
        <4>3. Keeps(w, o) => Proper(w, o)'
          BY <1>7
        <4> QED BY <4>1, <4>2, <4>3 DEF Owed
      <3>3. ~Keeps(w, o) /\ Owed(o)' => Owed(o) \/ n = 0
        <4> SUFFICES ASSUME ~Keeps(w, o), Owed(o)', n # 0 PROVE Owed(o)
          OBVIOUS
        <4>1. \A v \in Workers : Keeps(v, o)' /\ worker'[v].at \in Opening => Keeps(v, o) /\ worker[v].at \in Opening
          BY <1>2, <1>4 DEF Opening
        <4>2. Ahead(o)' <=> Ahead(o)
          BY <1>3 DEF Ahead
        <4> QED BY <1>6, <4>1, <4>2 DEF Owed
      <3>4. /\ Keeps(w, o) => d = c
            /\ ~Keeps(w, o) => d = c - 1
        BY <2>3, <2>5, <2>7
      <3>5. \A v \in Workers : worker'[v].attempt \in Nat
        BY <1>2, <1>9, TypesNow DEF BoundInv, WorkerStates
      <3>6. \A v \in Workers \ {w} : lease'.by = v /\ worker'[v].at \in {"open"} \union Past /\ worker'[v].run = o =>
              ~Keeps(w, o) /\ n + c <= overruns + worker'[v].attempt
        BY <1>2, <1>3 DEF BoundInv, Counted, Slack, Keeps
      <3>7. lease.by = w => n + c <= overruns + a
        BY <1>3, <2>7 DEF BoundInv, Counted, Slack, a, r
      <3>8. worker'[w].attempt = a /\ (m = n \/ (a = n + 1 /\ m = a)) /\ lease' = lease
        BY <1>2, <1>3, <2>1, <2>7
      <3> HIDE DEF n, m, c, d
      <3>9. m + d + (IF Owed(o)' THEN 1 ELSE 0) <= Budget' /\ d <= overruns'
        <4>1. CASE Keeps(w, o)
          <5>1. ~Owed(o)' /\ n + c + 1 <= Budget /\ d = c
            BY <2>4, <3>2, <3>4, <4>1
          <5> QED BY <1>8, <2>1, <2>2, <2>4, <3>1, <5>1
        <4>2. CASE ~Keeps(w, o)
          <5>1. d = c - 1 /\ (Owed(o)' => Owed(o) \/ n = 0)
            BY <3>3, <3>4, <4>2
          <5> QED BY <1>8, <2>1, <2>2, <2>4, <3>1, <5>1
        <4> QED BY <4>1, <4>2
      <3>10. ASSUME NEW v \in Workers, lease'.by = v, worker'[v].at \in {"open"} \union Past, worker'[v].run = o
             PROVE  m + d <= overruns' + worker'[v].attempt
        <4>1. CASE v # w
          <5>1. d = c - 1 /\ n + c <= overruns + worker'[v].attempt
            BY <3>4, <3>6, <3>10, <4>1
          <5> QED BY <1>8, <2>1, <2>2, <3>1, <3>5, <5>1
        <4>2. CASE v = w
          <5>1. n + c <= overruns + a /\ worker'[v].attempt = a
            BY <3>7, <3>8, <3>10, <4>2
          <5>2. d <= c
            BY <2>2, <3>4
          <5> QED BY <1>8, <1>9, <2>1, <2>2, <2>4, <3>8, <5>1, <5>2
        <4> QED BY <4>1, <4>2
      <3> QED BY <2>2, <3>9, <3>10 DEF Paid, Slack, m, d
    <2> QED BY <2>6, <2>7
  <1> QED BY <1>10 DEF Counted

LEMMA CountedNext == BoundInv /\ [Next]_vars => BoundInv'
  <1> SUFFICES ASSUME BoundInv, [Next]_vars PROVE BoundInv'
    OBVIOUS
  <1>1. Types' /\ Attempts' /\ Claims' /\ Plans'
    BY TypesNext, AttemptsNext, ClaimsNext, PlansNext DEF BoundInv
  <1>2. ASSUME NEW w \in Workers, WorkerStep(w) \/ RenewTimer(w) \/ Crash(w) PROVE Counted'
    BY <1>2, KindsOfSteps, CountedClaim, CountedLook, CountedOpen, CountedMove, CountedQuit, CountedConclusion
    DEF BoundInv
  <1>3. Counted'
    BY <1>2, CountedWorld, CountedExpire DEF Next
  <1> QED BY <1>1, <1>3 DEF BoundInv

\* However many workers take over from each other, an occurrence is attempted
\* at most maxAttempts times, plus once for each crash, failed write, lease
\* overrun and intervention of the owner (runner.ts:34-46 and :161).
THEOREM AttemptsAreBounded == Spec => []AttemptsBounded
  <1>1. ASSUME BoundInv PROVE AttemptsBounded
    <2> SUFFICES ASSUME NEW o \in Occs PROVE Len(history[o]) <= Budget
      BY DEF AttemptsBounded, Budget
    <2>1. Paid(o) /\ Len(history[o]) \in Nat
      BY <1>1, Lengths DEF BoundInv, Counted, Runs
    <2>2. Cardinality(Astray(o)) \in Nat
      BY <2>1, FS_CardinalityType DEF Paid
    <2>3. Budget \in Nat
      <3>1. {edits, crashes, faults, overruns} \subseteq Nat /\ MaxAttempts \in Nat
        BY <1>1, TypesNow, RunsAssumption DEF BoundInv
      <3> QED BY <3>1 DEF Budget
    <2> QED BY <2>1, <2>2, <2>3 DEF Paid
  <1> QED BY CountedInit, CountedNext, <1>1, PTL DEF Spec

=============================================================================
