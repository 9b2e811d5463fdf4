-------------------------- MODULE TurnRunner_proofs --------------------------
(***************************************************************************)
(* For any turns, capacity retries, crashes and failed writes: a chat turn *)
(* is sent to Codex once per attempt, its thread is created once, what is  *)
(* recorded and shown as its end is its end, and its work holds a slot.    *)
(*                                                                         *)
(* The argument is the write-ahead discipline of the receipt: whatever has *)
(* reached Codex is covered by the receipt on disk, and by the copy of the *)
(* runner that works, so that no runner can believe that nothing was sent. *)
(* Hence a runner that sees nothing pending may return the slot.           *)
(***************************************************************************)
EXTENDS TurnRunner, FiniteSetTheorems, SequenceTheorems, TLAPS

Files == {NoFile} \union Receipt
Places == {"off", "open", "create", "register", "queue", "start", "ask", "asked", "resume",
           "prepare", "arm", "dispatch", "send", "sent", "await", "interrupt", "retry",
           "again", "leave", "close"}
YesNo == {"yes", "no"}
Says == {"streaming", "done", "stopped", "error"}
Runner == [at : Places, sees : {"new", "existing"}, mem : Receipt, kept : YesNo,
           slot : {"no", "waiting", "yes"}, over : YesNo, abort : YesNo, says : Says]

Shape == /\ run \in [Turns -> Runner] /\ file \in [Turns -> Files]
         /\ message \in [Turns -> {"none"} \union Says]
         /\ remote \in [Turns -> [Attempts -> {"none", "sent", "inProgress", "refused", "lost",
                                               "overloaded"} \union Ended]]
         /\ sends \in [Turns -> [Attempts -> Nat]]
         /\ created \in [Turns -> Nat]

----------------------------------------------------------------------------
(* What receipt d says of turn k is true, and nothing was done that it does *)
(* not admit.                                                               *)
Covers(k, d) ==
  /\ created[k] # 0 => d.creation = "asked" \/ d.thread = "bound"
  /\ \A a \in Attempts : sends[k][a] # 0 =>
       a < d.retries \/ (a = d.retries /\ d.phase \in {"dispatched", "terminal"})
  /\ \A b \in Attempts : b < d.retries => remote[k][b] = "overloaded"
  /\ d.turn # NoTurn => d.turn = d.retries /\ d.thread = "bound"
  /\ d.terminal # "none" => d.phase = "terminal"
  /\ d.phase = "terminal" => \/ ThreadCreationRejected(d)
                             \/ d.turn # NoTurn /\ Status(k, d.turn) = d.terminal

Untouched(k) == created[k] = 0 /\ \A a \in Attempts : sends[k][a] = 0

Completed(k) == \E a \in Attempts : remote[k][a] = "completed"

BeforeThread == {"create", "start", "ask", "asked"}
PastThread == {"prepare", "arm", "dispatch", "send", "sent", "await", "interrupt", "retry"}
Working == {"register", "queue", "resume"} \union PastThread

(* What holds of the runner's place p, its copy d and the disk f where it   *)
(* matters.                                                                 *)
Placed(k, p, d, f) ==
  /\ k \in Opened => p \notin BeforeThread
  /\ p \in BeforeThread => d.thread = "unknown"
  /\ p \in PastThread => d.thread = "bound"
  /\ p \in BeforeThread \union Working => ~ThreadCreationRejected(d)
  /\ p = "ask" => /\ created[k] = 0 /\ d.creation = "asked"
                  /\ f # NoFile /\ f.creation = "asked"
  /\ p \in {"create", "asked"} => d.creation = "asked"
  /\ p \in {"send", "sent"} => d.phase = "dispatched"
  /\ p = "send" => /\ sends[k][d.retries] = 0
                   /\ f # NoFile /\ f.phase = "dispatched" /\ f.retries = d.retries
  /\ p = "retry" => remote[k][d.retries] = "overloaded" /\ d.phase = "terminal"

(* Runner r and disk f are right about turn k. *)
Good(k, r, f) ==
  /\ f = NoFile => Untouched(k)
  /\ f # NoFile => Covers(k, f)
  /\ r.at \notin {"off", "open"} =>
       Covers(k, r.mem) /\ (r.kept = "no" => r.mem.phase = "dispatched")
  /\ Placed(k, r.at, r.mem, f)
  /\ r.says = "done" => Completed(k)

Once(k) ==
  /\ created[k] <= 1 /\ (k \in Opened => created[k] = 0)
  /\ \A a \in Attempts : sends[k][a] <= 1 /\ (sends[k][a] = 0 => remote[k][a] = "none")
  /\ message[k] = "done" => Completed(k)

Inv == Shape /\ \A k \in Turns : Once(k) /\ Good(k, run[k], file[k])

----------------------------------------------------------------------------
LEMMA Numbers == Retries \in Nat /\ NoTurn \notin Attempts
  BY RunnerAssumption DEF NoTurn, Attempts

(* What the invariant says is what the properties ask for. *)
LEMMA InvOnce == Inv => OneModelTurn
  <1> SUFFICES ASSUME Inv PROVE OneModelTurn
    OBVIOUS
  <1> USE Numbers
  <1>1. \A k \in Turns : created[k] + (IF k \in Opened THEN 1 ELSE 0) <= 1
    BY DEF Inv, Once, Shape
  <1>2. ASSUME NEW k \in Turns, NEW a \in Attempts, sends[k][a] = 1, NEW b \in 0..(a - 1)
        PROVE remote[k][b] = "overloaded"
    <2>1. file[k] # NoFile /\ Covers(k, file[k]) /\ file[k] \in Receipt
      BY <1>2 DEF Inv, Good, Untouched, Shape, Files
    <2>2. a <= file[k].retries /\ file[k].retries \in Attempts
      BY <1>2, <2>1 DEF Covers, Receipt, Attempts
    <2>3. b \in Attempts /\ b < file[k].retries
      BY <2>2 DEF Attempts
    <2> QED BY <2>1, <2>3 DEF Covers
  <1> QED BY <1>1, <1>2 DEF Inv, Once, OneModelTurn

LEMMA InvTrue == Inv => EndsAreTrue
  <1> SUFFICES ASSUME Inv, NEW k \in Turns
               PROVE  /\ (file[k] # NoFile /\ file[k].phase = "terminal" /\ file[k].turn # NoTurn)
                           => Status(k, file[k].turn) = file[k].terminal
                      /\ message[k] = "done" => \E a \in Attempts : remote[k][a] = "completed"
    BY DEF EndsAreTrue
  <1> QED BY DEF Inv, Once, Good, Covers, ThreadCreationRejected, Completed

LEMMA InvInit == Init => Inv
  <1> SUFFICES ASSUME Init PROVE Inv
    OBVIOUS
  <1> USE Numbers
  <1>1. Opening(FALSE) \in Receipt
    BY DEF Opening, Receipt, Attempts
  <1>2. Off \in Runner
    BY <1>1 DEF Off, Runner, Places, YesNo, Says
  <1>3. Shape
    BY <1>2 DEF Init, Shape, Files, Says
  <1>4. ASSUME NEW k \in Turns PROVE Once(k) /\ Good(k, run[k], file[k])
    BY <1>4 DEF Init, Once, Good, Placed, Untouched, Off, NoFile, BeforeThread, PastThread, Working
  <1> QED BY <1>3, <1>4 DEF Inv

----------------------------------------------------------------------------
(* Only turn k changes, and in Codex only what has not ended.              *)
Advances(k) ==
  /\ UNCHANGED <<sends, created>>
  /\ remote' \in [Turns -> [Attempts -> {"none", "sent", "inProgress", "refused", "lost",
                                         "overloaded"} \union Ended]]
  /\ \A j \in Turns \ {k} : remote'[j] = remote[j]
  /\ \A a \in Attempts : remote[k][a] \in {"none", "overloaded"} \union Ended
                           => remote'[k][a] = remote[k][a]

Alone(k) ==
  /\ run' \in [Turns -> Runner] /\ file' \in [Turns -> Files]
  /\ message' \in [Turns -> {"none"} \union Says]
  /\ \A j \in Turns \ {k} : run'[j] = run[j] /\ file'[j] = file[j] /\ message'[j] = message[j]

(* It suffices that the new runner and the new disk are right.             *)
LEMMA Step ==
  ASSUME Inv, NEW k \in Turns, Advances(k), Alone(k), Good(k, run'[k], file'[k]),
         message'[k] = "done" => Completed(k)
  PROVE  Inv'
  <1>1. Shape'
    BY DEF Inv, Shape, Advances, Alone
  <1>2. ASSUME NEW j \in Turns PROVE Once(j)' /\ Good(j, run[j], file[j])'
    <2>1. \A a \in Attempts : remote[j][a] \in {"none", "overloaded"} \union Ended
                                => remote'[j][a] = remote[j][a]
      BY DEF Advances
    <2>2. sends'[j] = sends[j] /\ created'[j] = created[j] /\ (Completed(j) => Completed(j)')
      BY <2>1 DEF Advances, Completed, Ended
    <2>3. Once(j)'
      BY <2>1, <2>2 DEF Inv, Once, Alone
    <2>4. Good(j, run'[j], file'[j])
      BY DEF Inv, Alone
    <2>5. ASSUME NEW d \in Receipt, Covers(j, d) PROVE Covers(j, d)'
      <3>1. d.turn # NoTurn => d.turn \in Attempts
        BY DEF Receipt
      <3>2. ASSUME d.phase = "terminal", ~ThreadCreationRejected(d)
            PROVE Status(j, d.turn)' = d.terminal
        <4>1. d.turn \in Attempts /\ Status(j, d.turn) = d.terminal
          BY <2>5, <3>1, <3>2 DEF Covers
        <4>2. remote[j][d.turn] \in {"none", "overloaded"} \union Ended
          BY <4>1 DEF Status, Receipt
        <4> QED BY <4>1, <4>2, <2>1 DEF Status
      <3> QED BY <2>1, <2>2, <2>5, <3>2 DEF Covers
    <2>6. run'[j] \in Runner /\ file'[j] \in Files /\ run'[j].mem \in Receipt
      BY DEF Alone, Runner
    <2>7. Placed(j, run'[j].at, run'[j].mem, file'[j]) => Placed(j, run[j].at, run[j].mem, file[j])'
      BY <2>1, <2>2, <2>6 DEF Placed, Receipt, Runner
    <2> QED BY <2>2, <2>3, <2>4, <2>5, <2>6, <2>7 DEF Good, Untouched, Files
  <1> QED BY <1>1, <1>2 DEF Inv

----------------------------------------------------------------------------
(* What the operations of the receipt make of a receipt that is right.      *)

LEMMA Opens ==
  ASSUME NEW k \in Turns, Untouched(k), NEW b \in BOOLEAN
  PROVE  Opening(b) \in Receipt /\ Covers(k, Opening(b)) /\ ~ThreadCreationRejected(Opening(b))
  BY Numbers DEF Opening, Receipt, Attempts, Covers, Untouched, ThreadCreationRejected

LEMMA Binds ==
  ASSUME NEW k \in Turns, NEW d \in Receipt, Covers(k, d), ~ThreadCreationRejected(d)
  PROVE  BoundThread(d) \in Receipt /\ Covers(k, BoundThread(d))
         /\ ~ThreadCreationRejected(BoundThread(d))
  BY DEF BoundThread, Receipt, Covers, ThreadCreationRejected

LEMMA Names ==
  ASSUME Shape, NEW k \in Turns, NEW d \in Receipt, Covers(k, d), d.thread = "bound",
         Status(k, d.retries) = "inProgress" \/ d.phase = "dispatched"
  PROVE  BoundTurn(d, d.retries) \in Receipt /\ Covers(k, BoundTurn(d, d.retries))
  <1>1. d.phase # "terminal"
    BY DEF Covers, Receipt, Ended, ThreadCreationRejected
  <1> QED BY <1>1 DEF BoundTurn, Receipt, Covers

LEMMA Observes ==
  ASSUME Shape, NEW k \in Turns, NEW d \in Receipt, Covers(k, d), d.thread = "bound",
         Visible(k, d.retries), Status(k, d.retries) # "inProgress"
  PROVE  LET e == Observed(d, d.retries, Status(k, d.retries))
         IN  e \in Receipt /\ Covers(k, e)
             /\ (Shows(Status(k, d.retries)) = "done" => Completed(k))
             /\ Shows(Status(k, d.retries)) \in Says
  <1>1. d.retries \in Attempts /\ Status(k, d.retries) \in Ended
    BY DEF Receipt, Visible, Status, Ended
  <1>2. Shows(Status(k, d.retries)) = "done" => remote[k][d.retries] = "completed"
    BY <1>1 DEF Shows, Status, Ended
  <1>3. Shows(Status(k, d.retries)) \in Says
    BY <1>1 DEF Shows, Ended, Says
  <1>4. Observed(d, d.retries, Status(k, d.retries)) \in Receipt
    BY <1>1 DEF Observed, Receipt
  <1>5. Covers(k, Observed(d, d.retries, Status(k, d.retries)))
    BY <1>1, Numbers DEF Observed, Receipt, Covers
  <1> QED BY <1>1, <1>2, <1>3, <1>4, <1>5 DEF Completed

LEMMA Asks ==
  ASSUME NEW k \in Turns, NEW d \in Receipt, Covers(k, d), ~NeedsRecovery(d)
  PROVE  AskedThread(d) \in Receipt /\ Covers(k, AskedThread(d))
         /\ ~ThreadCreationRejected(AskedThread(d))
  BY DEF AskedThread, Receipt, Covers, NeedsRecovery, ThreadCreationRejected

LEMMA Rejects ==
  ASSUME NEW k \in Turns, NEW d \in Receipt, Covers(k, d), d.creation = "asked", d.thread = "unknown"
  PROVE  Rejected(d) \in Receipt /\ Covers(k, Rejected(d))
  BY DEF Rejected, Receipt, Covers, Ended, ThreadCreationRejected

LEMMA Prepares ==
  ASSUME NEW k \in Turns, NEW d \in Receipt, Covers(k, d), ~NeedsRecovery(d)
  PROVE  Prepared(d) \in Receipt /\ Covers(k, Prepared(d))
         /\ (ThreadCreationRejected(Prepared(d)) => ThreadCreationRejected(d))
  BY DEF Prepared, Receipt, Covers, NeedsRecovery, ThreadCreationRejected

LEMMA Dispatches ==
  ASSUME Shape, NEW k \in Turns, NEW d \in Receipt, Covers(k, d), d.phase = "ready"
  PROVE  Dispatched(d) \in Receipt /\ Covers(k, Dispatched(d)) /\ sends[k][d.retries] = 0
  <1>1. d.retries \in Attempts /\ d.retries \in Nat
    BY Numbers DEF Receipt, Attempts
  <1>2. sends[k][d.retries] = 0
    BY <1>1 DEF Covers
  <1>3. Dispatched(d) \in Receipt
    BY DEF Dispatched, Receipt
  <1> QED BY <1>2, <1>3 DEF Dispatched, Receipt, Covers

LEMMA RetriesNext ==
  ASSUME NEW k \in Turns, NEW d \in Receipt, Covers(k, d), RetryEligible(d),
         remote[k][d.retries] = "overloaded"
  PROVE  Retried(d) \in Receipt /\ Covers(k, Retried(d))
  <1>1. d.retries \in Attempts /\ d.retries + 1 \in Attempts
    BY Numbers DEF Receipt, Attempts, RetryEligible
  <1>2. Retried(d) \in Receipt
    BY <1>1 DEF Retried, Receipt
  <1>3. \A a \in Attempts : a < d.retries \/ a = d.retries => a < d.retries + 1
    BY <1>1, Numbers DEF Attempts
  <1>4. \A a \in Attempts : a < d.retries + 1 => a < d.retries \/ a = d.retries
    BY <1>1, Numbers DEF Attempts
  <1> QED BY <1>1, <1>2, <1>3, <1>4 DEF Retried, Receipt, Covers, RetryEligible, ThreadCreationRejected

----------------------------------------------------------------------------
(* The ways in which the runner of turn k goes on.                          *)

Live(k) == run[k].at \notin {"off", "open"}

LEMMA SameCodex == ASSUME Inv, NEW k \in Turns, UNCHANGED Codex PROVE Advances(k)
  BY DEF Inv, Shape, Advances, Codex

(* The message stays, or takes a value that is true. *)
TellsTruth(k) ==
  /\ message' \in [Turns -> {"none"} \union Says]
  /\ \A j \in Turns \ {k} : message'[j] = message[j]
  /\ message'[k] = "done" => Completed(k)

LEMMA Silent == ASSUME Inv, NEW k \in Turns, UNCHANGED message PROVE TellsTruth(k)
  BY DEF Inv, Shape, Once, TellsTruth

LEMMA Speaks ==
  ASSUME Inv, NEW k \in Turns, NEW s \in Says, Show(k, s), s = "done" => Completed(k)
  PROVE  TellsTruth(k)
  BY DEF Inv, Shape, Once, TellsTruth, Show

(* The runner and the disk become r and f. *)
LEMMA Becomes ==
  ASSUME Inv, NEW k \in Turns, Advances(k), TellsTruth(k), NEW r \in Runner, NEW f \in Files,
         run' = [run EXCEPT ![k] = r], file' = [file EXCEPT ![k] = f], Good(k, r, f)
  PROVE  Inv'
  <1>1. Alone(k) /\ run'[k] = r /\ file'[k] = f
    BY DEF Inv, Shape, Alone, TellsTruth
  <1> QED BY <1>1, Step DEF TellsTruth

LEMMA Updates ==
  ASSUME Inv, NEW k \in Turns, Advances(k), TellsTruth(k), Live(k),
         NEW p \in Places \ {"off", "open"}, NEW d \in Receipt, Update(k, p, d),
         Covers(k, d), Placed(k, p, d, d),
         run[k].kept = "no" => d.turn # NoTurn \/ (d.phase = "dispatched" /\ p \notin {"ask", "send"})
  PROVE  Inv'
  <1> DEFINE keeps == run[k].kept = "yes" \/ d.turn # NoTurn
             r == [run[k] EXCEPT !.at = p, !.mem = d, !.kept = IF keeps THEN "yes" ELSE "no"]
             f == IF keeps THEN d ELSE file[k]
  <1>1. run[k] \in Runner /\ file[k] \in Files /\ Good(k, run[k], file[k])
    BY DEF Inv, Shape
  <1>2. r \in Runner /\ f \in Files
    BY <1>1 DEF Runner, YesNo, Files
  <1>3. run' = [run EXCEPT ![k] = r] /\ file' = [file EXCEPT ![k] = f]
    BY <1>1 DEF Update, Inv, Shape, Runner
  <1>4. d # NoFile
    BY DEF NoFile, Receipt
  <1>5. r.at = p /\ r.mem = d /\ r.says = run[k].says /\ (r.kept = "no" => ~keeps)
    BY <1>1 DEF Runner
  <1>6. Placed(k, p, d, f)
    BY <1>1, <1>4 DEF Placed, Runner, YesNo
  <1>7. Good(k, r, f)
    BY <1>1, <1>4, <1>5, <1>6 DEF Good, Runner, YesNo
  <1> QED BY <1>2, <1>3, <1>7, Becomes

(* The runner goes on with the same copy, the disk stays as it is. *)
LEMMA Shifts ==
  ASSUME Inv, NEW k \in Turns, Advances(k), TellsTruth(k), Live(k), UNCHANGED file,
         NEW r \in Runner, run' = [run EXCEPT ![k] = r],
         r.at \notin {"off", "open"}, r.mem = run[k].mem, r.kept = run[k].kept,
         Placed(k, r.at, r.mem, file[k]), r.says = "done" => Completed(k)
  PROVE  Inv'
  <1>1. file[k] \in Files /\ Good(k, run[k], file[k]) /\ file' = [file EXCEPT ![k] = file[k]]
    BY DEF Inv, Shape
  <1>2. Good(k, r, file[k])
    BY <1>1 DEF Good, Live
  <1> QED BY <1>1, <1>2, Becomes

LEMMA Moves ==
  ASSUME Inv, NEW k \in Turns, Advances(k), TellsTruth(k), Live(k),
         NEW p \in Places \ {"off", "open"}, Move(k, p), Placed(k, p, run[k].mem, file[k])
  PROVE  Inv'
  <1> DEFINE r == [run[k] EXCEPT !.at = p]
  <1>1. run[k] \in Runner /\ Good(k, run[k], file[k])
    BY DEF Inv, Shape
  <1>2. r \in Runner /\ run' = [run EXCEPT ![k] = r] /\ r.at = p /\ r.mem = run[k].mem
        /\ r.kept = run[k].kept /\ r.says = run[k].says
    BY <1>1 DEF Move, Inv, Shape, Runner
  <1> QED BY <1>1, <1>2, Shifts DEF Good, Move

LEMMA Leaves ==
  ASSUME Inv, NEW k \in Turns, Advances(k), TellsTruth(k), Live(k), UNCHANGED file,
         NEW r \in Runner, run' = [run EXCEPT ![k] = r],
         r.at = "leave", r.mem = run[k].mem, r.kept = run[k].kept, r.says = "done" => Completed(k)
  PROVE  Inv'
  <1>1. Placed(k, r.at, r.mem, file[k])
    BY DEF Placed, BeforeThread, PastThread, Working
  <1> QED BY <1>1, Shifts

(* However the fields that do not matter are set. *)
LEMMA Leavings ==
  ASSUME Inv, NEW k \in Turns, NEW s \in Says,
         NEW r, r \in {Leaving(k, s, run[k].mem),
                       [Leaving(k, s, run[k].mem) EXCEPT !.slot = "no"],
                       [Leaving(k, s, run[k].mem) EXCEPT !.over = "yes"]}
  PROVE  r \in Runner /\ r.at = "leave" /\ r.mem = run[k].mem /\ r.kept = run[k].kept /\ r.says = s
  <1>1. run[k] \in Runner
    BY DEF Inv, Shape
  <1> DEFINE l == Leaving(k, s, run[k].mem)
  <1>2. l \in Runner /\ l.at = "leave" /\ l.mem = run[k].mem /\ l.kept = run[k].kept /\ l.says = s
    <2>1. "leave" \in Places
      BY DEF Places
    <2> QED BY <1>1, <2>1 DEF Leaving, Runner
  <1> HIDE DEF l
  <1>3. CASE r = l
    BY <1>2, <1>3
  <1>4. CASE r = [l EXCEPT !.slot = "no"]
    BY <1>2, <1>4 DEF Runner
  <1>5. CASE r = [l EXCEPT !.over = "yes"]
    BY <1>2, <1>5 DEF Runner, YesNo
  <1> QED BY <1>3, <1>4, <1>5 DEF l

LEMMA JustLeaves ==
  ASSUME Inv, NEW k \in Turns, Advances(k), TellsTruth(k), Live(k),
         NEW s \in Says, s = "done" => Completed(k), Leave(k, s)
  PROVE  Inv'
  <1>0. run \in [Turns -> Runner]
    BY DEF Inv, Shape
  <1>1. run' = [run EXCEPT ![k] = Leaving(k, s, run[k].mem)] /\ UNCHANGED file
    BY <1>0 DEF Leave
  <1> DEFINE r == Leaving(k, s, run[k].mem)
  <1>2. r \in Runner /\ r.at = "leave" /\ r.mem = run[k].mem /\ r.kept = run[k].kept /\ r.says = s
    BY Leavings
  <1> HIDE DEF r
  <1>3. run' = [run EXCEPT ![k] = r] /\ UNCHANGED file
    BY <1>1 DEF r
  <1> QED BY <1>2, <1>3, Leaves

(* The runner leaves with the receipt d; the disk stays, or becomes g. *)
LEMMA LeavesHaving ==
  ASSUME Inv, NEW k \in Turns, Advances(k), TellsTruth(k), Live(k),
         NEW s \in Says, s = "done" => Completed(k), NEW d \in Receipt, Covers(k, d),
         NEW g \in Receipt, Covers(k, g), NEW e \in YesNo,
         run' = [run EXCEPT ![k] = [Leaving(k, s, d) EXCEPT !.kept = e]],
         file' \in {file, [file EXCEPT ![k] = g]},
         e = "no" => d.phase = "dispatched"
  PROVE  Inv'
  <1> DEFINE r == [Leaving(k, s, d) EXCEPT !.kept = e]
  <1>1. run[k] \in Runner /\ file[k] \in Files /\ Good(k, run[k], file[k])
    BY DEF Inv, Shape
  <1>2. g # NoFile
    BY DEF NoFile, Receipt
  <1>3. r \in Runner /\ r.at = "leave" /\ r.mem = d /\ r.kept = e /\ r.says = s
    BY <1>1 DEF Leaving, Runner, Places
  <1>4. PICK f \in {file[k], g} : file' = [file EXCEPT ![k] = f]
    BY DEF Inv, Shape
  <1>5. f \in Files
    BY <1>1, <1>4 DEF Files
  <1>6. Good(k, r, f)
    BY <1>1, <1>2, <1>3, <1>4 DEF Good, Placed, BeforeThread, PastThread, Working
  <1> QED BY <1>3, <1>4, <1>5, <1>6, Becomes

LEMMA WritesAhead ==
  ASSUME Inv, NEW k \in Turns, Advances(k), TellsTruth(k), Live(k),
         NEW p \in Places \ {"off", "open"}, NEW d \in Receipt, WriteAhead(k, p, d),
         Covers(k, d), Placed(k, p, d, d), run[k].kept = "yes"
  PROVE  Inv'
  <1>1. CASE Update(k, p, d)
    BY <1>1, Updates
  <1>2. CASE /\ run' = [run EXCEPT ![k] = Leaving(k, "streaming", d)]
             /\ file' \in {file, [file EXCEPT ![k] = d]}
    <2>1. run[k] \in Runner
      BY DEF Inv, Shape
    <2>2. [Leaving(k, "streaming", d) EXCEPT !.kept = "yes"] = Leaving(k, "streaming", d)
      BY <2>1 DEF Leaving, Runner
    <2>3. run' = [run EXCEPT ![k] = [Leaving(k, "streaming", d) EXCEPT !.kept = "yes"]]
      BY <1>2, <2>2
    <2> QED BY <1>2, <2>3, LeavesHaving DEF Says, YesNo
  <1> QED BY <1>1, <1>2 DEF WriteAhead

LEMMA LeavesWith ==
  ASSUME Inv, NEW k \in Turns, Advances(k), TellsTruth(k), Live(k),
         NEW s \in Says, s = "done" => Completed(k), NEW d \in Receipt, Covers(k, d),
         LeaveWith(k, s, d)
  PROVE  Inv'
  BY LeavesHaving DEF LeaveWith, YesNo

(* The facts about a runner that works. *)
LEMMA Facts ==
  ASSUME Inv, NEW k \in Turns, Live(k)
  PROVE  /\ run[k] \in Runner /\ run[k].mem \in Receipt /\ file[k] \in Files
         /\ Covers(k, run[k].mem) /\ Placed(k, run[k].at, run[k].mem, file[k])
         /\ (run[k].kept = "no" => run[k].mem.phase = "dispatched")
         /\ Once(k) /\ Shape /\ run[k].mem.retries \in Attempts
  BY DEF Inv, Shape, Live, Good, Runner, Receipt

(* A read that shows the attempt. *)
LEMMA Projects ==
  ASSUME Inv, NEW k \in Turns, Advances(k), TellsTruth(k), Live(k),
         NEW p \in {"arm", "await"}, run[k].at \in Working,
         run[k].at = "resume" \/ run[k].mem.thread = "bound",
         Visible(k, run[k].mem.retries), Project(k, run[k].mem.retries, p)
  PROVE  Inv'
  <1> DEFINE d == run[k].mem
             b == BoundThread(d)
             a == d.retries
  <1>1. d \in Receipt /\ Covers(k, d) /\ ~ThreadCreationRejected(d) /\ run[k] \in Runner
        /\ Shape /\ (run[k].kept = "no" => d.phase = "dispatched")
    BY Facts DEF Placed
  <1>2. b \in Receipt /\ Covers(k, b) /\ ~ThreadCreationRejected(b) /\ b.thread = "bound" /\ b.retries = a
        /\ b.phase = d.phase
    BY <1>1, Binds DEF BoundThread, Receipt
  <1>3. CASE Status(k, a) = "inProgress"
    <2>1. BoundTurn(b, a) \in Receipt /\ Covers(k, BoundTurn(b, a))
      BY <1>1, <1>2, <1>3, Names
    <2>2. BoundTurn(b, a).turn # NoTurn /\ BoundTurn(b, a).thread = "bound"
      BY <1>1, <1>2, Numbers DEF BoundTurn, Receipt
    <2>3. Placed(k, p, BoundTurn(b, a), BoundTurn(b, a))
      BY <2>2 DEF Placed, BeforeThread, PastThread, Working, ThreadCreationRejected
    <2>4. Update(k, p, BoundTurn(b, a))
      BY <1>3 DEF Project
    <2>5. p \in Places \ {"off", "open"}
      BY DEF Places
    <2> QED BY <2>1, <2>2, <2>3, <2>4, <2>5, Updates
  <1>4. CASE Status(k, a) # "inProgress"
    <2>1. LeaveWith(k, Shows(Status(k, a)), Observed(b, a, Status(k, a)))
      BY <1>4 DEF Project
    <2> QED BY <1>1, <1>2, <1>4, <2>1, Observes, LeavesWith
  <1> QED BY <1>3, <1>4

----------------------------------------------------------------------------
(* Opening, the thread, the queue.                                          *)

LEMMA OpenKeeps == ASSUME Inv, NEW k \in Turns, Open(k) PROVE Inv'
  <1> DEFINE existing == run[k].sees = "existing"
             d == IF file[k] = NoFile THEN Opening(existing) ELSE file[k]
             keeps == file[k] # NoFile \/ ~existing
             opened == [run[k] EXCEPT !.mem = d, !.kept = IF keeps THEN "yes" ELSE "no"]
             r == IF ThreadCreationRejected(d) THEN [opened EXCEPT !.at = "leave", !.says = "error"]
                  ELSE IF ~NeedsRecovery(d) \/ Threaded(k, d) THEN [opened EXCEPT !.at = "register"]
                  ELSE IF d.creation = "asked" THEN [opened EXCEPT !.at = "create"]
                  ELSE [opened EXCEPT !.at = "leave"]
             f == IF keeps THEN d ELSE file[k]
  <1>1. run[k] \in Runner /\ file[k] \in Files /\ Good(k, run[k], file[k])
    BY DEF Inv, Shape
  <1>2. d \in Receipt /\ Covers(k, d)
    BY <1>1, Opens DEF Good, Files
  <1>3. d # NoFile /\ f \in Files /\ (f # NoFile => f = d) /\ (f = NoFile => file[k] = NoFile)
    BY <1>2 DEF NoFile, Receipt, Files
  <1>4. opened \in Runner /\ opened.mem = d /\ opened.says = run[k].says
        /\ (opened.kept = "no" => file[k] = NoFile /\ existing)
    BY <1>1, <1>2 DEF Runner, YesNo
  <1>5. opened.kept = "no" => d.phase = "dispatched"
    BY <1>4 DEF Opening
  <1>6. r \in Runner /\ r.mem = d /\ r.kept = opened.kept
        /\ (r.says = "done" => run[k].says = "done")
    <2> HIDE DEF opened, d
    <2> QED BY <1>4 DEF Runner, Places, Says
  <1>7. \/ r.at = "leave"
        \/ r.at = "register" /\ ~ThreadCreationRejected(d)
        \/ r.at = "create" /\ ~ThreadCreationRejected(d) /\ ~Threaded(k, d) /\ d.creation = "asked"
    <2> HIDE DEF opened, d
    <2> QED BY <1>4 DEF Runner
  <1>8. Placed(k, r.at, d, f)
    BY <1>2, <1>7 DEF Placed, BeforeThread, PastThread, Working, Threaded, Receipt
  <1>9. Good(k, r, f)
    BY <1>1, <1>2, <1>3, <1>5, <1>6, <1>8 DEF Good
  <1>10. run' = [run EXCEPT ![k] = r] /\ file' = [file EXCEPT ![k] = f]
         /\ Advances(k) /\ TellsTruth(k)
    BY <1>1, SameCodex, Silent DEF Open, Screen, Inv, Shape
  <1> QED BY <1>3, <1>6, <1>9, <1>10, Becomes

LEMMA BeginKeeps == ASSUME Inv, NEW k \in Turns, Begin(k) PROVE Inv'
  <1> DEFINE r == [run[k] EXCEPT !.at = "open"]
  <1>1. run[k] \in Runner /\ file[k] \in Files /\ Good(k, run[k], file[k])
    BY DEF Inv, Shape
  <1>2. r \in Runner /\ run' = [run EXCEPT ![k] = r] /\ file' = [file EXCEPT ![k] = file[k]]
        /\ r.at = "open" /\ r.says = run[k].says
    BY <1>1 DEF Begin, Inv, Shape, Runner, Places
  <1>3. Good(k, r, file[k])
    BY <1>1, <1>2 DEF Good, Placed, BeforeThread, PastThread, Working
  <1>4. TellsTruth(k) /\ Advances(k)
    BY SameCodex DEF Begin, TellsTruth, Inv, Shape, Says
  <1> QED BY <1>1, <1>2, <1>3, <1>4, Becomes

LEMMA OffIsRunner == Off \in Runner /\ Off.says = "streaming"
  <1>1. Opening(FALSE) \in Receipt
    BY Numbers DEF Opening, Receipt, Attempts
  <1> QED BY <1>1 DEF Off, Runner, Places, YesNo, Says

(* A fresh runner, or none. *)
LEMMA Restarts ==
  ASSUME Inv, NEW k \in Turns, Advances(k), TellsTruth(k), UNCHANGED file,
         NEW r \in Runner, run' = [run EXCEPT ![k] = r],
         r.at \in {"off", "open"}, r.says = "streaming"
  PROVE  Inv'
  <1>1. file[k] \in Files /\ Good(k, run[k], file[k]) /\ file' = [file EXCEPT ![k] = file[k]]
    BY DEF Inv, Shape
  <1>2. Good(k, r, file[k])
    BY <1>1 DEF Good, Placed, BeforeThread, PastThread, Working
  <1> QED BY <1>1, <1>2, Becomes

LEMMA ReopenKeeps == ASSUME Inv, NEW k \in Turns, Reopen(k) PROVE Inv'
  <1> DEFINE r == [Off EXCEPT !.at = "open", !.sees = "existing"]
  <1>1. r \in Runner /\ r.at = "open" /\ r.says = "streaming"
    BY OffIsRunner DEF Runner, Places
  <1> QED BY <1>1, Restarts, SameCodex, Silent DEF Reopen, Screen

LEMMA CloseKeeps == ASSUME Inv, NEW k \in Turns, Close(k) PROVE Inv'
  <1>1. run[k] \in Runner /\ Good(k, run[k], file[k])
    BY DEF Inv, Shape
  <1>2. Advances(k) /\ TellsTruth(k)
    BY <1>1, SameCodex, Speaks DEF Close, Good, Runner
  <1>3. Off.at = "off"
    BY DEF Off
  <1> QED BY <1>2, <1>3, OffIsRunner, Restarts DEF Close

(* Steps that change neither the place, nor the copy, nor what is said. *)
LEMMA Stays ==
  ASSUME Inv, NEW k \in Turns, Advances(k), TellsTruth(k), UNCHANGED file,
         NEW r \in Runner, run' = [run EXCEPT ![k] = r],
         r.at = run[k].at \/ (r.at = "close" /\ Live(k)), r.mem = run[k].mem,
         r.kept = run[k].kept, r.says = run[k].says
  PROVE  Inv'
  <1>1. file[k] \in Files /\ Good(k, run[k], file[k]) /\ file' = [file EXCEPT ![k] = file[k]]
    BY DEF Inv, Shape
  <1>2. Good(k, r, file[k])
    BY <1>1 DEF Good, Live, Placed, BeforeThread, PastThread, Working
  <1> QED BY <1>1, <1>2, Becomes

LEMMA StopKeeps == ASSUME Inv, NEW k \in Turns, Stop(k) PROVE Inv'
  <1>1. run[k] \in Runner /\ Advances(k) /\ TellsTruth(k) /\ UNCHANGED file
    BY SameCodex, Silent DEF Inv, Shape, Stop
  <1>2. CASE UNCHANGED run
    <2>1. run' = [run EXCEPT ![k] = run[k]]
      BY <1>2 DEF Inv, Shape
    <2> QED BY <1>1, <2>1, Stays
  <1>3. CASE run' = [run EXCEPT ![k].abort = "yes"]
    <2> DEFINE r == [run[k] EXCEPT !.abort = "yes"]
    <2>1. r \in Runner /\ run' = [run EXCEPT ![k] = r] /\ r.at = run[k].at /\ r.mem = run[k].mem
          /\ r.kept = run[k].kept /\ r.says = run[k].says
      BY <1>1, <1>3 DEF Runner, YesNo, Inv, Shape
    <2> QED BY <1>1, <2>1, Stays
  <1> QED BY <1>2, <1>3 DEF Stop

LEMMA FlushKeeps == ASSUME Inv, NEW k \in Turns, Flush(k) PROVE Inv'
  <1>1. run[k] \in Runner /\ Good(k, run[k], file[k]) /\ run' = [run EXCEPT ![k] = run[k]]
    BY DEF Inv, Shape, Flush
  <1>2. Advances(k) /\ TellsTruth(k)
    BY <1>1, SameCodex, Speaks DEF Flush, Good, Runner
  <1> QED BY <1>1, <1>2, Stays DEF Flush

LEMMA FinallyKeeps == ASSUME Inv, NEW k \in Turns, Finally(k) PROVE Inv'
  <1>1. run[k] \in Runner /\ Advances(k) /\ TellsTruth(k) /\ UNCHANGED file /\ Live(k)
    BY SameCodex, Silent DEF Inv, Shape, Finally, Screen, Live
  <1>2. CASE At(k, "again")
    <2> DEFINE r == [Off EXCEPT !.at = "open", !.sees = run[k].sees]
    <2>1. r \in Runner /\ r.at = "open" /\ r.says = "streaming"
      BY <1>1, OffIsRunner DEF Runner, Places
    <2> QED BY <1>1, <1>2, <2>1, Restarts DEF Finally
  <1>3. CASE ~At(k, "again")
    <2> DEFINE r == [run[k] EXCEPT !.at = "close", !.slot = "no"]
    <2>1. r \in Runner /\ r.at = "close" /\ r.mem = run[k].mem /\ r.kept = run[k].kept
          /\ r.says = run[k].says
      BY <1>1 DEF Runner, Places
    <2>2. run' = [run EXCEPT ![k] = r]
      BY <1>3 DEF Finally, Inv, Shape
    <2> QED BY <1>1, <2>1, <2>2, Stays
  <1> QED BY <1>2, <1>3

LEMMA RecoverThreadKeeps == ASSUME Inv, NEW k \in Turns, RecoverThread(k) PROVE Inv'
  <1> DEFINE d == run[k].mem
  <1>1. Advances(k) /\ TellsTruth(k) /\ Live(k)
    BY SameCodex, Silent DEF RecoverThread, Screen, At, Live
  <1>2. d \in Receipt /\ Covers(k, d) /\ ~ThreadCreationRejected(d) /\ d.thread = "unknown"
        /\ d.creation = "asked" /\ (run[k].kept = "no" => d.phase = "dispatched")
    BY <1>1, Facts DEF RecoverThread, At, Placed, BeforeThread
  <1>3. CASE thread[k] = "created"
    <2>1. Update(k, "register", BoundThread(d))
      BY <1>3 DEF RecoverThread
    <2>2. BoundThread(d) \in Receipt /\ Covers(k, BoundThread(d))
          /\ ~ThreadCreationRejected(BoundThread(d)) /\ BoundThread(d).phase = d.phase
      BY <1>2, Binds DEF BoundThread, Receipt
    <2>3. Placed(k, "register", BoundThread(d), BoundThread(d))
      BY <2>2 DEF Placed, BeforeThread, PastThread, Working
    <2> QED BY <1>1, <1>2, <2>1, <2>2, <2>3, Updates DEF Places
  <1>4. CASE thread[k] = "refused"
    <2>1. LeaveWith(k, "error", Rejected(d))
      BY <1>4 DEF RecoverThread
    <2> QED BY <1>1, <1>2, <2>1, Rejects, LeavesWith DEF Says
  <1>5. CASE thread[k] \notin {"created", "refused"}
    <2>1. Leave(k, "streaming")
      BY <1>5 DEF RecoverThread
    <2> QED BY <1>1, <2>1, JustLeaves DEF Says
  <1> QED BY <1>3, <1>4, <1>5

LEMMA RegisterKeeps == ASSUME Inv, NEW k \in Turns, Register(k) PROVE Inv'
  <1>1. Advances(k) /\ TellsTruth(k) /\ Live(k)
    BY SameCodex, Silent DEF Register, At, Live
  <1>2. PICK b \in YesNo : run' = [run EXCEPT ![k].at = "queue", ![k].abort = b]
    BY DEF Register, YesNo
  <1> DEFINE r == [run[k] EXCEPT !.at = "queue", !.abort = b]
  <1>3. run[k] \in Runner /\ Placed(k, run[k].at, run[k].mem, file[k])
    BY <1>1, Facts
  <1>4. r \in Runner /\ run' = [run EXCEPT ![k] = r] /\ r.at = "queue" /\ r.mem = run[k].mem
        /\ r.kept = run[k].kept /\ r.says = run[k].says
    BY <1>2, <1>3 DEF Inv, Shape, Runner, Places
  <1>5. Placed(k, r.at, r.mem, file[k])
    BY <1>3, <1>4 DEF Register, At, Placed, BeforeThread, PastThread, Working
  <1> QED BY <1>1, <1>4, <1>5, Shifts DEF Register, Inv, Good

LEMMA EnqueueKeeps == ASSUME Inv, NEW k \in Turns, Enqueue(k) PROVE Inv'
  <1> DEFINE d == run[k].mem
             r == IF HoldsSlot(tickets', k)
                  THEN [run[k] EXCEPT !.slot = "yes",
                                      !.at = IF Threaded(k, d) THEN "resume" ELSE "start"]
                  ELSE [run[k] EXCEPT !.slot = "waiting"]
  <1>1. Advances(k) /\ TellsTruth(k) /\ Live(k)
    BY SameCodex, Silent DEF Enqueue, At, Live, Screen
  <1>2. run[k] \in Runner /\ d \in Receipt /\ Placed(k, "queue", d, file[k]) /\ run[k].at = "queue"
    BY <1>1, Facts DEF Enqueue, At
  <1>3. r \in Runner /\ r.mem = d /\ r.kept = run[k].kept /\ r.says = run[k].says
    BY <1>2 DEF Runner, Places
  <1>4. r.at \in {"queue", "resume"} \/ (r.at = "start" /\ ~Threaded(k, d))
    BY <1>2 DEF Runner
  <1>5. Placed(k, r.at, d, file[k])
    BY <1>2, <1>4 DEF Placed, BeforeThread, PastThread, Working, Threaded, Receipt
  <1>6. run' = [run EXCEPT ![k] = r]
    BY DEF Enqueue, Inv, Shape
  <1> QED BY <1>1, <1>3, <1>4, <1>5, <1>6, Shifts DEF Enqueue, Inv, Good

LEMMA QueueFailsKeeps == ASSUME Inv, NEW k \in Turns, QueueFails(k) PROVE Inv'
  <1> DEFINE s == Failing(run[k].mem)
             r == [Leaving(k, s, run[k].mem) EXCEPT !.slot = "no"]
  <1>1. Advances(k) /\ TellsTruth(k) /\ Live(k) /\ UNCHANGED file
    BY SameCodex, Silent DEF QueueFails, At, Live, Screen
  <1>2. s \in Says /\ s # "done"
    BY DEF Failing, Says
  <1>3. run' = [run EXCEPT ![k] = r]
    BY DEF QueueFails, Inv, Shape
  <1> HIDE DEF s
  <1>4. r \in Runner /\ r.at = "leave" /\ r.mem = run[k].mem /\ r.kept = run[k].kept /\ r.says = s
    BY <1>2, Leavings
  <1> QED BY <1>1, <1>2, <1>3, <1>4, Leaves

LEMMA QueueStopsKeeps == ASSUME Inv, NEW k \in Turns, QueueStops(k) PROVE Inv'
  <1> DEFINE r == [Leaving(k, "stopped", run[k].mem) EXCEPT !.slot = "no"]
  <1>1. Advances(k) /\ TellsTruth(k) /\ Live(k) /\ UNCHANGED file
    BY SameCodex, Speaks DEF QueueStops, At, Live, Says
  <1>2. run' = [run EXCEPT ![k] = r]
    BY DEF QueueStops, Inv, Shape
  <1>3. r \in Runner /\ r.at = "leave" /\ r.mem = run[k].mem /\ r.kept = run[k].kept
        /\ r.says = "stopped"
    BY Leavings DEF Says
  <1> QED BY <1>1, <1>2, <1>3, Leaves

LEMMA ResumeKeeps == ASSUME Inv, NEW k \in Turns, Resume(k) PROVE Inv'
  <1> DEFINE d == run[k].mem
  <1>1. Advances(k) /\ TellsTruth(k) /\ Live(k) /\ run[k].at = "resume"
    BY SameCodex, Silent DEF Resume, At, Live
  <1>2. d \in Receipt /\ Covers(k, d) /\ ~ThreadCreationRejected(d)
        /\ (run[k].kept = "no" => d.phase = "dispatched")
    BY <1>1, Facts DEF Placed, Working
  <1>3. CASE Visible(k, d.retries)
    <2>1. Project(k, d.retries, "arm")
      BY <1>3 DEF Resume
    <2> QED BY <1>1, <1>3, <2>1, Projects DEF Working
  <1>4. CASE ~Visible(k, d.retries) /\ NeedsRecovery(BoundThread(d))
    <2>1. Leave(k, "streaming")
      BY <1>4 DEF Resume
    <2> QED BY <1>1, <2>1, JustLeaves DEF Says
  <1>5. CASE ~Visible(k, d.retries) /\ ~NeedsRecovery(BoundThread(d))
    <2>1. Update(k, "prepare", BoundThread(d))
      BY <1>5 DEF Resume
    <2>2. BoundThread(d) \in Receipt /\ Covers(k, BoundThread(d))
          /\ ~ThreadCreationRejected(BoundThread(d)) /\ BoundThread(d).thread = "bound"
          /\ run[k].kept # "no"
      BY <1>2, <1>5, Binds DEF BoundThread, Receipt, NeedsRecovery
    <2>3. Placed(k, "prepare", BoundThread(d), BoundThread(d))
      BY <2>2 DEF Placed, BeforeThread, PastThread, Working
    <2> QED BY <1>1, <2>1, <2>2, <2>3, Updates DEF Places
  <1> QED BY <1>3, <1>4, <1>5

LEMMA FailsKeeps == ASSUME Inv, NEW k \in Turns, Fails(k) PROVE Inv'
  <1>1. Advances(k) /\ TellsTruth(k) /\ Live(k)
    BY SameCodex, Silent DEF Fails, Live, Screen
  <1>2. Failing(run[k].mem) \in Says /\ Failing(run[k].mem) # "done"
    BY DEF Failing, Says
  <1> QED BY <1>1, <1>2, JustLeaves DEF Fails

LEMMA StartThreadKeeps == ASSUME Inv, NEW k \in Turns, StartThread(k) PROVE Inv'
  <1> DEFINE d == run[k].mem
  <1>1. Advances(k) /\ TellsTruth(k) /\ Live(k) /\ run[k].at = "start"
    BY SameCodex, Silent DEF StartThread, At, Live, Screen
  <1>2. CASE d.creation = "asked" \/ NeedsRecovery(d)
    <2>1. Leave(k, "streaming")
      BY <1>2 DEF StartThread
    <2> QED BY <1>1, <2>1, JustLeaves DEF Says
  <1>3. CASE ~(d.creation = "asked" \/ NeedsRecovery(d))
    <2>1. d \in Receipt /\ Covers(k, d) /\ d.thread = "unknown" /\ k \notin Opened
          /\ created[k] \in Nat /\ run[k] \in Runner
          /\ (run[k].kept = "no" => d.phase = "dispatched")
      BY <1>1, Facts DEF Placed, BeforeThread, Shape
    <2>2. created[k] = 0 /\ run[k].kept = "yes"
      BY <1>3, <2>1 DEF Covers, NeedsRecovery, Runner, YesNo
    <2>3. AskedThread(d) \in Receipt /\ Covers(k, AskedThread(d))
          /\ ~ThreadCreationRejected(AskedThread(d))
      BY <1>3, <2>1, Asks
    <2>4. AskedThread(d).thread = "unknown" /\ AskedThread(d).creation = "asked"
          /\ AskedThread(d) # NoFile
      BY <2>1, <2>3 DEF AskedThread, Receipt, NoFile
    <2>5. Placed(k, "ask", AskedThread(d), AskedThread(d))
      BY <2>1, <2>2, <2>3, <2>4 DEF Placed, BeforeThread, PastThread, Working
    <2>6. WriteAhead(k, "ask", AskedThread(d))
      BY <1>3 DEF StartThread
    <2> QED BY <1>1, <2>2, <2>3, <2>5, <2>6, WritesAhead DEF Places
  <1> QED BY <1>2, <1>3

LEMMA ThreadAnsweredKeeps == ASSUME Inv, NEW k \in Turns, ThreadAnswered(k) PROVE Inv'
  <1> DEFINE d == run[k].mem
  <1>1. Advances(k) /\ TellsTruth(k) /\ Live(k) /\ run[k].at = "asked"
    BY SameCodex, Silent DEF ThreadAnswered, At, Live, Screen
  <1>2. d \in Receipt /\ Covers(k, d) /\ ~ThreadCreationRejected(d) /\ d.thread = "unknown"
        /\ d.creation = "asked" /\ (run[k].kept = "no" => d.phase = "dispatched")
    BY <1>1, Facts DEF Placed, BeforeThread
  <1>3. CASE thread[k] = "created"
    <2>1. Update(k, "prepare", BoundThread(d))
      BY <1>3 DEF ThreadAnswered
    <2>2. BoundThread(d) \in Receipt /\ Covers(k, BoundThread(d))
          /\ ~ThreadCreationRejected(BoundThread(d)) /\ BoundThread(d).phase = d.phase
          /\ BoundThread(d).thread = "bound"
      BY <1>2, Binds DEF BoundThread, Receipt
    <2>3. Placed(k, "prepare", BoundThread(d), BoundThread(d))
      BY <2>2 DEF Placed, BeforeThread, PastThread, Working
    <2> QED BY <1>1, <1>2, <2>1, <2>2, <2>3, Updates DEF Places
  <1>4. CASE thread[k] = "refused"
    <2>1. LeaveWith(k, "error", Rejected(d))
      BY <1>4 DEF ThreadAnswered
    <2> QED BY <1>1, <1>2, <2>1, Rejects, LeavesWith DEF Says
  <1> QED BY <1>3, <1>4 DEF ThreadAnswered

LEMMA ThreadTimesOutKeeps == ASSUME Inv, NEW k \in Turns, ThreadTimesOut(k) PROVE Inv'
  <1>1. Advances(k) /\ TellsTruth(k) /\ Live(k)
    BY SameCodex, Silent DEF ThreadTimesOut, At, Live, Screen
  <1>2. Failing(run[k].mem) \in Says /\ Failing(run[k].mem) # "done"
    BY DEF Failing, Says
  <1> QED BY <1>1, <1>2, JustLeaves DEF ThreadTimesOut

LEMMA PrepareKeeps == ASSUME Inv, NEW k \in Turns, Prepare(k) PROVE Inv'
  <1> DEFINE d == run[k].mem
  <1>1. Advances(k) /\ TellsTruth(k) /\ Live(k) /\ run[k].at = "prepare"
    BY SameCodex, Silent DEF Prepare, At, Live, Screen
  <1>2. CASE NeedsRecovery(d)
    <2>1. Leave(k, "streaming")
      BY <1>2 DEF Prepare
    <2> QED BY <1>1, <2>1, JustLeaves DEF Says
  <1>3. CASE ~NeedsRecovery(d)
    <2>1. d \in Receipt /\ Covers(k, d) /\ d.thread = "bound" /\ ~ThreadCreationRejected(d)
          /\ (run[k].kept = "no" => d.phase = "dispatched")
      BY <1>1, Facts DEF Placed, PastThread, Working
    <2>2. Prepared(d) \in Receipt /\ Covers(k, Prepared(d)) /\ ~ThreadCreationRejected(Prepared(d))
          /\ Prepared(d).thread = "bound"
      BY <1>3, <2>1, Prepares DEF Prepared, Receipt
    <2>3. Placed(k, "arm", Prepared(d), Prepared(d))
      BY <2>2 DEF Placed, BeforeThread, PastThread, Working
    <2>4. Update(k, "arm", Prepared(d)) /\ run[k].kept # "no"
      BY <1>3, <2>1 DEF Prepare, NeedsRecovery
    <2> QED BY <1>1, <2>2, <2>3, <2>4, Updates DEF Places
  <1> QED BY <1>2, <1>3

LEMMA ArmKeeps == ASSUME Inv, NEW k \in Turns, Arm(k) PROVE Inv'
  <1>1. Advances(k) /\ Live(k) /\ run[k].at = "arm"
    BY SameCodex DEF Arm, At, Live
  <1>2. CASE k \in stopAsked
    <2>1. TellsTruth(k) /\ Leave(k, "stopped")
      BY <1>2, Speaks DEF Arm, Says
    <2> QED BY <1>1, <2>1, JustLeaves DEF Says
  <1>3. CASE k \notin stopAsked
    <2>1. PICK p \in {"dispatch", "await"} : Move(k, p)
      BY <1>3 DEF Arm
    <2>2. TellsTruth(k)
      BY <1>3, Silent DEF Arm
    <2>3. Placed(k, p, run[k].mem, file[k])
      BY <1>1, Facts DEF Placed, BeforeThread, PastThread, Working
    <2> QED BY <1>1, <2>1, <2>2, <2>3, Moves DEF Places
  <1> QED BY <1>2, <1>3

LEMMA DispatchKeeps == ASSUME Inv, NEW k \in Turns, Dispatch(k) PROVE Inv'
  <1> DEFINE d == run[k].mem
  <1>1. Advances(k) /\ TellsTruth(k) /\ Live(k) /\ run[k].at = "dispatch"
    BY SameCodex, Silent DEF Dispatch, At, Live, Screen
  <1>2. CASE d.phase = "ready" /\ d.thread = "bound"
    <2>1. d \in Receipt /\ Covers(k, d) /\ ~ThreadCreationRejected(d) /\ Shape /\ run[k] \in Runner
          /\ (run[k].kept = "no" => d.phase = "dispatched")
      BY <1>1, Facts DEF Placed, PastThread, Working
    <2>2. run[k].kept = "yes"
      BY <1>2, <2>1 DEF Runner, YesNo
    <2>3. Dispatched(d) \in Receipt /\ Covers(k, Dispatched(d)) /\ sends[k][d.retries] = 0
      BY <1>2, <2>1, Dispatches
    <2>4. Dispatched(d).thread = "bound" /\ Dispatched(d).phase = "dispatched"
          /\ Dispatched(d).retries = d.retries /\ Dispatched(d) # NoFile
      BY <1>2, <2>1, <2>3 DEF Dispatched, Receipt, NoFile
    <2>5. Placed(k, "send", Dispatched(d), Dispatched(d))
      BY <2>3, <2>4 DEF Placed, BeforeThread, PastThread, Working, ThreadCreationRejected
    <2>6. WriteAhead(k, "send", Dispatched(d))
      BY <1>2 DEF Dispatch
    <2> QED BY <1>1, <2>2, <2>3, <2>5, <2>6, WritesAhead DEF Places
  <1>3. CASE ~(d.phase = "ready" /\ d.thread = "bound")
    <2>1. Leave(k, "streaming")
      BY <1>3 DEF Dispatch
    <2> QED BY <1>1, <2>1, JustLeaves DEF Says
  <1> QED BY <1>2, <1>3

----------------------------------------------------------------------------
(* The two requests: each is covered by what was written ahead.             *)

LEMMA Elsewhere ==
  ASSUME Inv, NEW j \in Turns, run'[j] = run[j], file'[j] = file[j], message'[j] = message[j],
         remote'[j] = remote[j], sends'[j] = sends[j], created'[j] = created[j]
  PROVE  Once(j)' /\ Good(j, run[j], file[j])'
  <1>1. Once(j) /\ Good(j, run[j], file[j])
    BY DEF Inv
  <1>2. Once(j)'
    BY <1>1 DEF Once, Completed
  <1>3. Good(j, run[j], file[j])'
    BY <1>1 DEF Good, Untouched, Covers, Placed, Completed, Status
  <1> QED BY <1>2, <1>3

LEMMA AskThreadKeeps == ASSUME Inv, NEW k \in Turns, AskThread(k) PROVE Inv'
  <1> DEFINE r == [run[k] EXCEPT !.at = "asked"]
  <1>1. Live(k) /\ run[k].at = "ask"
    BY DEF AskThread, At, Live
  <1>2. /\ run[k] \in Runner /\ Covers(k, run[k].mem) /\ run[k].mem \in Receipt
        /\ run[k].mem.creation = "asked" /\ run[k].mem.thread = "unknown"
        /\ ~ThreadCreationRejected(run[k].mem)
        /\ created[k] = 0 /\ k \notin Opened /\ file[k] # NoFile /\ file[k].creation = "asked"
        /\ Covers(k, file[k]) /\ Once(k) /\ Good(k, run[k], file[k])
    BY <1>1, Facts DEF Placed, BeforeThread, Inv, Good
  <1>3. r \in Runner /\ run'[k] = r /\ r.at = "asked" /\ r.mem = run[k].mem /\ r.kept = run[k].kept
        /\ r.says = run[k].says
    BY <1>2 DEF AskThread, Move, Inv, Shape, Runner, Places
  <1>4. UNCHANGED <<file, message, remote, sends>>
        /\ (\A j \in Turns \ {k} : run'[j] = run[j] /\ created'[j] = created[j])
        /\ created'[k] = 1 /\ (Completed(k) => Completed(k)')
    BY <1>2 DEF AskThread, Move, Screen, Inv, Shape, Completed
  <1>5. Shape'
    <2>1. run' \in [Turns -> Runner]
      BY <1>3 DEF AskThread, Move, Inv, Shape
    <2>2. created' \in [Turns -> Nat]
      BY DEF AskThread, Inv, Shape
    <2> QED BY <1>4, <2>1, <2>2 DEF Inv, Shape
  <1>6. Once(k)'
    BY <1>2, <1>3, <1>4 DEF Once, Completed
  <1>7. Covers(k, run[k].mem)' /\ Covers(k, file[k])'
    BY <1>2, <1>3, <1>4 DEF Covers, Status
  <1>8. Placed(k, run[k].at, run[k].mem, file[k])'
    BY <1>2, <1>3, <1>4 DEF Placed, BeforeThread, PastThread, Working
  <1>9. Good(k, run[k], file[k])'
    BY <1>1, <1>2, <1>3, <1>4, <1>7, <1>8 DEF Good
  <1>10. ASSUME NEW j \in Turns PROVE Once(j)' /\ Good(j, run[j], file[j])'
    BY <1>4, <1>6, <1>9, Elsewhere
  <1> QED BY <1>5, <1>10 DEF Inv

LEMMA SendKeeps == ASSUME Inv, NEW k \in Turns, Send(k) PROVE Inv'
  <1> DEFINE r == [run[k] EXCEPT !.at = "sent"]
             d == run[k].mem
             a == d.retries
             f == file[k]
  <1>1. Live(k) /\ run[k].at = "send"
    BY DEF Send, At, Live
  <1>2. /\ run[k] \in Runner /\ Covers(k, d) /\ d \in Receipt /\ a \in Attempts
        /\ d.thread = "bound" /\ d.phase = "dispatched" /\ ~ThreadCreationRejected(d)
        /\ sends[k][a] = 0 /\ remote[k][a] = "none"
        /\ f # NoFile /\ f.phase = "dispatched" /\ f.retries = a
        /\ Covers(k, f) /\ Once(k) /\ Good(k, run[k], f)
    BY <1>1, Facts DEF Placed, PastThread, Working, Inv, Good, Once
  <1>3. r \in Runner /\ run'[k] = r /\ r.at = "sent" /\ r.mem = d /\ r.kept = run[k].kept
        /\ r.says = run[k].says
    BY <1>2 DEF Send, Move, Inv, Shape, Runner, Places
  <1>4. /\ UNCHANGED <<file, message, created>>
        /\ \A j \in Turns \ {k} : run'[j] = run[j] /\ sends'[j] = sends[j] /\ remote'[j] = remote[j]
        /\ sends'[k][a] = 1 /\ remote'[k][a] = "sent"
        /\ \A b \in Attempts \ {a} : sends'[k][b] = sends[k][b] /\ remote'[k][b] = remote[k][b]
    BY <1>2 DEF Send, Move, Screen, Inv, Shape
  <1>5. Shape'
    <2>1. run' \in [Turns -> Runner]
      BY <1>3 DEF Send, Move, Inv, Shape
    <2>2. sends' \in [Turns -> [Attempts -> Nat]]
      <3>1. [sends[k] EXCEPT ![a] = @ + 1] \in [Attempts -> Nat]
        BY <1>2 DEF Inv, Shape
      <3>2. sends' = [sends EXCEPT ![k] = [sends[k] EXCEPT ![a] = @ + 1]]
        BY DEF Send, Inv, Shape
      <3> QED BY <3>1, <3>2 DEF Inv, Shape
    <2>3. remote' \in [Turns -> [Attempts -> {"none", "sent", "inProgress", "refused", "lost",
                                              "overloaded"} \union Ended]]
      BY DEF Send, Inv, Shape
    <2> QED BY <1>4, <2>1, <2>2, <2>3 DEF Inv, Shape
  <1>6. Completed(k) => Completed(k)'
    BY <1>2, <1>4 DEF Completed
  <1>7. Once(k)'
    BY <1>2, <1>4, <1>6 DEF Once
  <1>8. ASSUME NEW e, Covers(k, e), e.phase = "dispatched", e.retries = a PROVE Covers(k, e)'
    <2>1. \A b \in Attempts : b < a => b # a
      BY <1>2, Numbers DEF Attempts
    <2> QED BY <1>2, <1>4, <1>8, <2>1 DEF Covers
  <1>9. Covers(k, run[k].mem)' /\ Covers(k, file[k])'
    BY <1>2, <1>3, <1>4, <1>8
  <1>10. Placed(k, run[k].at, run[k].mem, file[k])'
    BY <1>2, <1>3, <1>4 DEF Placed, BeforeThread, PastThread, Working
  <1>11. Good(k, run[k], file[k])'
    BY <1>2, <1>3, <1>4, <1>6, <1>9, <1>10 DEF Good
  <1>12. ASSUME NEW j \in Turns PROVE Once(j)' /\ Good(j, run[j], file[j])'
    BY <1>4, <1>7, <1>11, Elsewhere
  <1> QED BY <1>5, <1>12 DEF Inv

----------------------------------------------------------------------------
(* Following the turn to its end.                                           *)

LEMMA AnsweredKeeps == ASSUME Inv, NEW k \in Turns, Answered(k) PROVE Inv'
  <1> DEFINE d == run[k].mem
             b == BoundTurn(d, d.retries)
  <1>1. Advances(k) /\ TellsTruth(k) /\ Live(k) /\ run[k].at = "sent"
    BY SameCodex, Silent DEF Answered, At, Live
  <1>2. d \in Receipt /\ Covers(k, d) /\ d.thread = "bound" /\ d.phase = "dispatched"
        /\ d.retries \in Attempts /\ Shape
    BY <1>1, Facts DEF Placed, PastThread
  <1>3. b \in Receipt /\ Covers(k, b)
    BY <1>2, Names
  <1>4. b.thread = "bound" /\ b.turn # NoTurn
    BY <1>2, Numbers DEF BoundTurn, Receipt
  <1>5. PICK p \in {"interrupt", "await"} : Update(k, p, b)
    BY DEF Answered
  <1>6. Placed(k, p, b, b)
    BY <1>4 DEF Placed, BeforeThread, PastThread, Working, ThreadCreationRejected
  <1> QED BY <1>1, <1>3, <1>4, <1>5, <1>6, Updates DEF Places

LEMMA UnansweredKeeps == ASSUME Inv, NEW k \in Turns, Unanswered(k) PROVE Inv'
  BY SameCodex, Silent, JustLeaves DEF Unanswered, At, Live, Screen, Says

LEMMA AnsweredLateKeeps == ASSUME Inv, NEW k \in Turns, AnsweredLate(k) PROVE Inv'
  <1> DEFINE a == run[k].mem.retries
  <1>1. Advances(k) /\ TellsTruth(k) /\ Live(k) /\ run[k].at = "sent"
    BY SameCodex, Silent DEF AnsweredLate, At, Live
  <1>2. Placed(k, "sent", run[k].mem, file[k]) /\ run[k].mem.thread = "bound"
    BY <1>1, Facts DEF Placed, PastThread
  <1>3. CASE Status(k, a) = "inProgress"
    <2>1. Placed(k, "await", run[k].mem, file[k])
      BY <1>2 DEF Placed, BeforeThread, PastThread, Working
    <2>2. Move(k, "await")
      BY <1>3 DEF AnsweredLate
    <2> QED BY <1>1, <2>1, <2>2, Moves DEF Places
  <1>4. CASE Status(k, a) # "inProgress"
    <2>1. Visible(k, a) /\ Project(k, a, "await")
      BY <1>4 DEF AnsweredLate
    <2> QED BY <1>1, <1>2, <2>1, Projects DEF Working, PastThread
  <1> QED BY <1>3, <1>4

LEMMA TurnCompletedKeeps == ASSUME Inv, NEW k \in Turns, TurnCompleted(k) PROVE Inv'
  <1> DEFINE d == run[k].mem
             a == d.retries
             g == Observed(d, a, Status(k, a))
  <1>1. Advances(k) /\ TellsTruth(k) /\ Live(k) /\ run[k].at \in {"sent", "await", "interrupt"}
        /\ Visible(k, a) /\ Status(k, a) # "inProgress"
    BY SameCodex, Silent DEF TurnCompleted, Screen, Live
  <1>2. d \in Receipt /\ Covers(k, d) /\ d.thread = "bound" /\ a \in Attempts /\ Shape
        /\ run[k] \in Runner /\ (run[k].kept = "no" => d.phase = "dispatched")
    BY <1>1, Facts DEF Placed, PastThread
  <1>3. g \in Receipt /\ Covers(k, g) /\ (Shows(Status(k, a)) = "done" => Completed(k))
        /\ Shows(Status(k, a)) \in Says
    BY <1>1, <1>2, Observes
  <1>4. g.thread = "bound" /\ g.turn # NoTurn /\ g.phase = "terminal" /\ g.retries = a
    BY <1>2, Numbers DEF Observed, Receipt
  <1> HIDE DEF g
  <1>5. CASE remote[k][a] = "overloaded" /\ Update(k, "retry", g)
    <2>1. Placed(k, "retry", g, g)
      BY <1>4, <1>5 DEF Placed, BeforeThread, PastThread, Working, ThreadCreationRejected
    <2> QED BY <1>1, <1>3, <1>4, <1>5, <2>1, Updates DEF Places
  <1>6. CASE LeaveWith(k, Shows(Status(k, a)), g)
    BY <1>1, <1>3, <1>6, LeavesWith
  <1>7. CASE /\ run' = [run EXCEPT ![k] = Leaving(k, "streaming", @.mem)]
             /\ file' \in {file, [file EXCEPT ![k] = g]}
    <2>1. [Leaving(k, "streaming", d) EXCEPT !.kept = run[k].kept] = Leaving(k, "streaming", d)
      BY <1>2 DEF Leaving, Runner
    <2>2. run' = [run EXCEPT ![k] = [Leaving(k, "streaming", d) EXCEPT !.kept = run[k].kept]]
      BY <1>7, <2>1 DEF Inv, Shape
    <2>3. run[k].kept \in YesNo
      BY <1>2 DEF Runner
    <2> QED BY <1>1, <1>2, <1>3, <1>7, <2>2, <2>3, LeavesHaving DEF Says
  <1> QED BY <1>5, <1>6, <1>7 DEF TurnCompleted, g

LEMMA ReconcileKeeps == ASSUME Inv, NEW k \in Turns, Reconcile(k) PROVE Inv'
  <1>1. Advances(k) /\ TellsTruth(k) /\ Live(k) /\ run[k].at = "await"
    BY SameCodex, Silent DEF Reconcile, At, Live
  <1>2. run[k].mem.thread = "bound"
    BY <1>1, Facts DEF Placed, PastThread
  <1> QED BY <1>1, <1>2, Projects DEF Reconcile, Working, PastThread

LEMMA StreamFailsKeeps == ASSUME Inv, NEW k \in Turns, StreamFails(k) PROVE Inv'
  BY SameCodex, Silent, JustLeaves DEF StreamFails, At, Live, Screen, Says

(* An interrupt ends only work that goes on. *)
LEMMA Interrupts ==
  ASSUME Inv, NEW k \in Turns, NEW a, remote[k][a] = "inProgress", UNCHANGED <<sends, created>>,
         remote' = [remote EXCEPT ![k][a] = "interrupted"]
  PROVE  Advances(k)
  <1> DEFINE States == {"none", "sent", "inProgress", "refused", "lost", "overloaded"} \union Ended
             h == [remote[k] EXCEPT ![a] = "interrupted"]
  <1>1. remote \in [Turns -> [Attempts -> States]]
    BY DEF Inv, Shape
  <1>2. remote' = [remote EXCEPT ![k] = h]
    BY <1>1
  <1>3. h \in [Attempts -> States] /\ \A b \in Attempts : b # a => h[b] = remote[k][b]
    BY <1>1 DEF Ended
  <1>4. \A b \in Attempts : remote[k][b] \in {"none", "overloaded"} \union Ended => b # a
    BY DEF Ended
  <1> QED BY <1>1, <1>2, <1>3, <1>4 DEF Advances

LEMMA InterruptKeeps == ASSUME Inv, NEW k \in Turns, Interrupt(k) PROVE Inv'
  <1>1. Live(k) /\ UNCHANGED file
    BY DEF Interrupt, At, Live
  <1>2. CASE /\ remote[k][run[k].mem.retries] = "inProgress"
             /\ Interrupted(k)
             /\ Show(k, "stopped")
             /\ run' = [run EXCEPT ![k] = [Leaving(k, "stopped", @.mem) EXCEPT !.over = "yes"]]
    <2> DEFINE r == [Leaving(k, "stopped", run[k].mem) EXCEPT !.over = "yes"]
    <2>1. Advances(k) /\ TellsTruth(k)
      BY <1>2, Interrupts, Speaks DEF Interrupt, Interrupted, Says
    <2>2. run' = [run EXCEPT ![k] = r]
      BY <1>2 DEF Inv, Shape
    <2>3. r \in Runner /\ r.at = "leave" /\ r.mem = run[k].mem /\ r.kept = run[k].kept
          /\ r.says = "stopped"
      BY Leavings DEF Says
    <2> QED BY <1>1, <2>1, <2>2, <2>3, Leaves
  <1>3. CASE /\ UNCHANGED remote
             /\ Show(k, "error")
             /\ run' = [run EXCEPT ![k] = Leaving(k, "error", @.mem)]
    <2>1. Advances(k) /\ TellsTruth(k)
      BY <1>3, Speaks, SameCodex DEF Interrupt, Codex, Says
    <2> QED BY <1>1, <1>3, <2>1, JustLeaves DEF Leave, Says, Inv, Shape
  <1> QED BY <1>2, <1>3 DEF Interrupt

LEMMA WatchdogKeeps == ASSUME Inv, NEW k \in Turns, Watchdog(k) PROVE Inv'
  <1>1. Live(k) /\ UNCHANGED file
    BY DEF Watchdog, At, Live
  <1>2. CASE /\ Interrupted(k)
             /\ Show(k, "error")
             /\ run' = [run EXCEPT ![k] = [Leaving(k, "error", @.mem) EXCEPT !.over = "yes"]]
    <2> DEFINE r == [Leaving(k, "error", run[k].mem) EXCEPT !.over = "yes"]
    <2>1. Advances(k) /\ TellsTruth(k)
      BY <1>2, Interrupts, Speaks DEF Watchdog, Interrupted, Says
    <2>2. run' = [run EXCEPT ![k] = r]
      BY <1>2 DEF Inv, Shape
    <2>3. r \in Runner /\ r.at = "leave" /\ r.mem = run[k].mem /\ r.kept = run[k].kept
          /\ r.says = "error"
      BY Leavings DEF Says
    <2> QED BY <1>1, <2>1, <2>2, <2>3, Leaves
  <1>3. CASE /\ UNCHANGED <<remote, message>>
             /\ run' = [run EXCEPT ![k] = Leaving(k, "streaming", @.mem)]
    <2>1. Advances(k) /\ TellsTruth(k)
      BY <1>3, Silent, SameCodex DEF Watchdog, Codex
    <2> QED BY <1>1, <1>3, <2>1, JustLeaves DEF Leave, Says, Inv, Shape
  <1> QED BY <1>2, <1>3 DEF Watchdog

LEMMA ControlStopKeeps == ASSUME Inv, NEW k \in Turns, ControlStop(k) PROVE Inv'
  <1> DEFINE r == [Leaving(k, "stopped", run[k].mem) EXCEPT !.over = "yes"]
  <1>1. Advances(k) /\ TellsTruth(k) /\ UNCHANGED file
    BY Interrupts, Speaks DEF ControlStop, Says
  <1>2. CASE Registered(k)
    <2>1. Live(k)
      BY <1>2 DEF Registered, At, Live
    <2>2. run' = [run EXCEPT ![k] = r]
      BY <1>2 DEF ControlStop, Inv, Shape
    <2>3. r \in Runner /\ r.at = "leave" /\ r.mem = run[k].mem /\ r.kept = run[k].kept
          /\ r.says = "stopped"
      BY Leavings DEF Says
    <2> QED BY <1>1, <2>1, <2>2, <2>3, Leaves
  <1>3. CASE ~Registered(k)
    <2>1. run[k] \in Runner /\ run' = [run EXCEPT ![k] = run[k]]
      BY <1>3 DEF ControlStop, Inv, Shape
    <2> QED BY <1>1, <2>1, Stays
  <1> QED BY <1>2, <1>3

LEMMA RetryKeeps == ASSUME Inv, NEW k \in Turns, Retry(k) PROVE Inv'
  <1> DEFINE d == run[k].mem
  <1>1. Advances(k) /\ Live(k) /\ run[k].at = "retry"
    BY SameCodex DEF Retry, At, Live
  <1>2. CASE run[k].abort = "yes"
    <2>1. PICK s \in {"stopped", "error"} : Show(k, s) /\ Leave(k, s)
      BY <1>2 DEF Retry
    <2>2. TellsTruth(k)
      BY <2>1, Speaks DEF Says
    <2> QED BY <1>1, <2>1, <2>2, JustLeaves DEF Says
  <1>3. CASE run[k].abort # "yes" /\ ~RetryEligible(d)
    <2>1. TellsTruth(k) /\ Leave(k, "streaming")
      BY <1>3, Silent DEF Retry
    <2> QED BY <1>1, <2>1, JustLeaves DEF Says
  <1>4. CASE run[k].abort # "yes" /\ RetryEligible(d)
    <2>1. TellsTruth(k) /\ WriteAhead(k, "again", Retried(d))
      BY <1>4, Silent DEF Retry
    <2>2. d \in Receipt /\ Covers(k, d) /\ remote[k][d.retries] = "overloaded"
          /\ d.phase = "terminal" /\ (run[k].kept = "no" => d.phase = "dispatched")
          /\ run[k] \in Runner
      BY <1>1, Facts DEF Placed
    <2>3. Retried(d) \in Receipt /\ Covers(k, Retried(d))
      BY <1>4, <2>2, RetriesNext
    <2>4. Placed(k, "again", Retried(d), Retried(d)) /\ run[k].kept = "yes"
      BY <2>2 DEF Placed, BeforeThread, PastThread, Working, Runner, YesNo
    <2> QED BY <1>1, <2>1, <2>3, <2>4, WritesAhead DEF Places
  <1> QED BY <1>2, <1>3, <1>4

----------------------------------------------------------------------------
(* Codex and the crash.                                                     *)

LEMMA CodexKeeps ==
  ASSUME Inv, NEW k \in Turns, Advances(k), UNCHANGED <<run, file, message>> PROVE Inv'
  <1>1. run[k] \in Runner /\ run' = [run EXCEPT ![k] = run[k]]
    BY DEF Inv, Shape
  <1> QED BY <1>1, Silent, Stays

LEMMA CodexStepKeeps == ASSUME Inv, NEW k \in Turns, CodexStep(k) PROVE Inv'
  <1>1. CASE CodexOpensThread(k)
    <2>1. Advances(k)
      BY <1>1 DEF CodexOpensThread, Advances, Inv, Shape
    <2> QED BY <1>1, <2>1, CodexKeeps DEF CodexOpensThread, Server
  <1>2. ASSUME NEW a \in Attempts, CodexTakes(k, a) \/ CodexEnds(k, a) \/ CodexLoses(k, a)
        PROVE Inv'
    <2>1. PICK s \in {"inProgress", "refused", "overloaded", "lost"} \union Ended :
            remote' = [remote EXCEPT ![k][a] = s]
      BY <1>2 DEF CodexTakes, CodexEnds, CodexLoses, Ended
    <2>2. remote[k][a] \in {"sent", "inProgress"} /\ UNCHANGED <<run, file, message, sends, created>>
      BY <1>2 DEF CodexTakes, CodexEnds, CodexLoses, Server
    <2>3. Advances(k)
      <3> DEFINE States == {"none", "sent", "inProgress", "refused", "lost", "overloaded"} \union Ended
                 h == [remote[k] EXCEPT ![a] = s]
      <3>1. remote \in [Turns -> [Attempts -> States]] /\ s \in States
        BY DEF Inv, Shape
      <3>2. remote' = [remote EXCEPT ![k] = h]
        BY <2>1, <3>1
      <3>3. h \in [Attempts -> States] /\ \A b \in Attempts : b # a => h[b] = remote[k][b]
        BY <3>1
      <3>4. \A b \in Attempts : remote[k][b] \in {"none", "overloaded"} \union Ended => b # a
        BY <2>2 DEF Ended
      <3> QED BY <2>2, <3>1, <3>2, <3>3, <3>4 DEF Advances
    <2> QED BY <2>2, <2>3, CodexKeeps
  <1> QED BY <1>1, <1>2 DEF CodexStep

LEMMA CrashKeeps == ASSUME Inv, Crash PROVE Inv'
  <1>1. Shape'
    BY OffIsRunner DEF Crash, Codex, Inv, Shape
  <1>2. ASSUME NEW j \in Turns PROVE Once(j)' /\ Good(j, run[j], file[j])'
    <2>1. Once(j) /\ Good(j, run[j], file[j]) /\ run'[j] = Off /\ Off.at = "off"
          /\ UNCHANGED <<file, message, remote, sends, created>>
      BY DEF Crash, Codex, Inv, Off
    <2>2. Once(j)'
      BY <2>1 DEF Once, Completed
    <2>3. Good(j, run[j], file[j])'
      BY <2>1, OffIsRunner DEF Good, Untouched, Covers, Status, Placed, BeforeThread, PastThread, Working
    <2> QED BY <2>2, <2>3
  <1> QED BY <1>1, <1>2 DEF Inv

LEMMA InvNext == Inv /\ [Next]_vars => Inv'
  <1> SUFFICES ASSUME Inv, [Next]_vars PROVE Inv'
    OBVIOUS
  <1>1. ASSUME NEW k \in Turns, RunnerStep(k) PROVE Inv'
    BY <1>1, OpenKeeps, RecoverThreadKeeps, RegisterKeeps, EnqueueKeeps, QueueStopsKeeps,
       ResumeKeeps, StartThreadKeeps, AskThreadKeeps, ThreadAnsweredKeeps, PrepareKeeps,
       ArmKeeps, DispatchKeeps, SendKeeps, AnsweredKeeps, AnsweredLateKeeps, TurnCompletedKeeps,
       ReconcileKeeps, InterruptKeeps, RetryKeeps, FinallyKeeps, CloseKeeps DEF RunnerStep
  <1>2. ASSUME NEW k \in Turns, Trouble(k) PROVE Inv'
    BY <1>2, QueueFailsKeeps, FailsKeeps, ThreadTimesOutKeeps, UnansweredKeeps,
       StreamFailsKeeps, WatchdogKeeps DEF Trouble
  <1>3. ASSUME NEW k \in Turns, User(k) PROVE Inv'
    BY <1>3, BeginKeeps, ReopenKeeps, StopKeeps, ControlStopKeeps DEF User
  <1>4. CASE UNCHANGED vars
    BY <1>4 DEF vars, Inv, Shape, Once, Good, Untouched, Covers, Status, Placed, Completed
  <1> QED BY <1>1, <1>2, <1>3, <1>4, FlushKeeps, CodexStepKeeps, CrashKeeps DEF Next

----------------------------------------------------------------------------
(* An attempt of a chat turn reaches Codex at most once, a later one only   *)
(* after a refusal, and a conversation's thread is created at most once:    *)
(* submitAttempt and the receipt it writes ahead, over crashes, lost        *)
(* acknowledgements, Stops and reopenings.                                  *)
THEOREM SentOnce == Spec => []OneModelTurn
  <1>1. Spec => []Inv
    BY InvInit, InvNext, PTL DEF Spec
  <1> QED BY <1>1, InvOnce, PTL

(* What the receipt records as the end of a turn is its end in Codex, and an *)
(* answer is shown as complete only if Codex completed it.                   *)
THEOREM EndsRecordedTruly == Spec => []EndsAreTrue
  <1>1. Spec => []Inv
    BY InvInit, InvNext, PTL DEF Spec
  <1> QED BY <1>1, InvTrue, PTL

----------------------------------------------------------------------------
(* The filter of a sequence, by the ranks of the positions it keeps.       *)

Upto(P, i) == {j \in P : j <= i}

\* Positions have distinct ranks, the ranks 1 .. Cardinality(P).
LEMMA Ranks ==
  ASSUME NEW n \in Nat, NEW P \in SUBSET (1 .. n)
  PROVE  /\ IsFiniteSet(P) /\ Cardinality(P) \in Nat
         /\ \A i \in P : Cardinality(Upto(P, i)) \in 1 .. Cardinality(P)
         /\ \A i, j \in P : i < j => Cardinality(Upto(P, i)) < Cardinality(Upto(P, j))
         /\ \A m \in 1 .. Cardinality(P) : \E i \in P : Cardinality(Upto(P, i)) = m
  <1>1. IsFiniteSet(P) /\ Cardinality(P) \in Nat
    <2>1. IsFiniteSet(1 .. n)
      BY FS_Interval
    <2>2. IsFiniteSet(P)
      BY <2>1, FS_Subset
    <2> QED BY <2>2, FS_CardinalityType
  <1>2. \A i \in P : /\ IsFiniteSet(Upto(P, i)) /\ Cardinality(Upto(P, i)) \in Nat
                     /\ Cardinality(Upto(P, i)) <= Cardinality(P)
    <2> SUFFICES ASSUME NEW i \in P
                 PROVE  /\ IsFiniteSet(Upto(P, i)) /\ Cardinality(Upto(P, i)) \in Nat
                        /\ Cardinality(Upto(P, i)) <= Cardinality(P)
      OBVIOUS
    <2>1. Upto(P, i) \in SUBSET P
      BY DEF Upto
    <2> QED BY <1>1, <2>1, FS_Subset, FS_CardinalityType
  <1>3. \A i \in P : Cardinality(Upto(P, i)) >= 1
    <2> SUFFICES ASSUME NEW i \in P PROVE Cardinality(Upto(P, i)) # 0
      BY <1>2
    <2>1. i \in Upto(P, i)
      BY DEF Upto
    <2> QED BY <1>2, <2>1, FS_EmptySet
  <1>4. ASSUME NEW i \in P, NEW j \in P, i < j
        PROVE  Cardinality(Upto(P, i)) < Cardinality(Upto(P, j))
    <2>1. Upto(P, i) \in SUBSET Upto(P, j)
      <3>1. \A m \in P : m <= i => m <= j
        BY <1>4
      <3> QED BY <3>1 DEF Upto
    <2>2. j \in Upto(P, j) /\ j \notin Upto(P, i)
      BY <1>4 DEF Upto
    <2>3. /\ Cardinality(Upto(P, i)) <= Cardinality(Upto(P, j))
          /\ Cardinality(Upto(P, i)) = Cardinality(Upto(P, j)) => Upto(P, i) = Upto(P, j)
      BY <1>2, <2>1, FS_Subset
    <2> QED BY <1>2, <2>2, <2>3
  <1> DEFINE C == Cardinality(P)
             r == [i \in P |-> Cardinality(Upto(P, i))]
  <1>5. r \in Injection(P, 1 .. C)
    <2>1. r \in [P -> 1 .. C]
      BY <1>1, <1>2, <1>3
    <2>2. \A i, j \in P : r[i] = r[j] => i = j
      <3> SUFFICES ASSUME NEW i \in P, NEW j \in P, r[i] = r[j], i # j PROVE FALSE
        OBVIOUS
      <3>1. i < j \/ j < i
        OBVIOUS
      <3> QED BY <1>2, <1>4, <3>1
    <2> QED BY <2>1, <2>2 DEF Injection, IsInjective
  <1>6. IsFiniteSet(1 .. C) /\ Cardinality(1 .. C) = C
    BY <1>1, FS_Interval
  <1>7. r \in Surjection(P, 1 .. C)
    BY <1>1, <1>5, <1>6, FS_Injection
  <1>8. \A m \in 1 .. C : \E i \in P : r[i] = m
    BY <1>7 DEF Surjection
  <1> QED BY <1>1, <1>2, <1>3, <1>4, <1>8

\* What is kept are the entries at the positions P.
LEMMA Kept ==
  ASSUME NEW T, NEW ts \in Seq(T), NEW P \in SUBSET (DOMAIN ts)
  PROVE  /\ Keep(ts, P) \in Seq(T)
         /\ \A n \in DOMAIN Keep(ts, P) : \E i \in P : Keep(ts, P)[n] = ts[i]
         /\ \A i \in P : \E n \in DOMAIN Keep(ts, P) : Keep(ts, P)[n] = ts[i]
  <1> DEFINE C == Cardinality(P)
             N(n) == CHOOSE i \in P : Cardinality(Upto(P, i)) = n
  <1>1. Len(ts) \in Nat /\ P \in SUBSET (1 .. Len(ts)) /\ \A i \in P : i \in Nat /\ ts[i] \in T
    BY LenProperties, ElementOfSeq
  <1>2. /\ C \in Nat
        /\ \A i \in P : Cardinality(Upto(P, i)) \in 1 .. C
        /\ \A i, j \in P : i < j => Cardinality(Upto(P, i)) < Cardinality(Upto(P, j))
        /\ \A m \in 1 .. C : \E i \in P : Cardinality(Upto(P, i)) = m
    BY <1>1, Ranks
  <1>3. \A n \in 1 .. C : N(n) \in P /\ Cardinality(Upto(P, N(n))) = n
    BY <1>2
  <1>4. Keep(ts, P) = [n \in 1 .. C |-> ts[N(n)]]
    BY DEF Keep, Upto
  <1>5. \A i \in P : N(Cardinality(Upto(P, i))) = i
    <2> SUFFICES ASSUME NEW i \in P PROVE N(Cardinality(Upto(P, i))) = i
      OBVIOUS
    <2> DEFINE n == Cardinality(Upto(P, i))
    <2>1. n \in 1 .. C /\ N(n) \in P /\ Cardinality(Upto(P, N(n))) = n
      BY <1>2, <1>3
    <2>2. i \in Nat /\ N(n) \in Nat
      BY <1>1, <2>1
    <2> HIDE DEF N
    <2>3. ~(i < N(n)) /\ ~(N(n) < i)
      BY <1>2, <2>1
    <2> QED BY <2>2, <2>3
  <1> HIDE DEF N
  <1>6. \A n \in 1 .. C : ts[N(n)] \in T
    BY <1>1, <1>3
  <1>7. Keep(ts, P) \in Seq(T)
    <2>1. [n \in 1 .. C |-> ts[N(n)]] \in [1 .. C -> T]
      BY <1>6
    <2> QED BY <1>2, <1>4, <2>1, SeqDef
  <1> QED BY <1>2, <1>3, <1>4, <1>5, <1>7

----------------------------------------------------------------------------
(* The queue: a runner polls for its own turn, so that a ticket's owner is  *)
(* its key, nobody's slot goes to anybody else, and nobody's slot goes but  *)
(* by its own release.                                                      *)

OwnTickets == {t \in Tickets(Turns, Turns) : t.owner = t.key}

LEMMA ReleaseFrees ==
  ASSUME NEW ts \in Seq(OwnTickets), NEW k \in Turns
  PROVE  /\ Released(ts, k, k) \in Seq(OwnTickets)
         /\ ~HoldsSlot(Released(ts, k, k), k)
         /\ \A j \in Turns \ {k} : HoldsSlot(Released(ts, k, k), j) <=> HoldsSlot(ts, j)
  <1> DEFINE P == {i \in DOMAIN ts : ts[i].key # k \/ ts[i].owner # k}
             us == Released(ts, k, k)
  <1>1. P \in SUBSET (DOMAIN ts) /\ us = Keep(ts, P)
    BY DEF Released
  <1>2. \A i \in DOMAIN ts : ts[i].owner = ts[i].key
    BY ElementOfSeq, LenProperties DEF OwnTickets
  <1>3. \A i \in DOMAIN ts : i \in P <=> ts[i].key # k
    BY <1>2
  <1> HIDE DEF P, us
  <1>4. /\ us \in Seq(OwnTickets)
        /\ \A n \in DOMAIN us : \E i \in P : us[n] = ts[i]
        /\ \A i \in P : \E n \in DOMAIN us : us[n] = ts[i]
    BY <1>1, Kept
  <1>5. ~HoldsSlot(us, k)
    BY <1>1, <1>3, <1>4 DEF HoldsSlot
  <1>6. ASSUME NEW j \in Turns \ {k} PROVE HoldsSlot(us, j) <=> HoldsSlot(ts, j)
    BY <1>1, <1>3, <1>4 DEF HoldsSlot
  <1> QED BY <1>4, <1>5, <1>6 DEF us

LEMMA PollKeepsSlots ==
  ASSUME NEW ts \in Seq(OwnTickets), NEW k \in Turns, NEW r \in BOOLEAN
  PROVE  /\ Poll(ts, k, k, r) \in Seq(OwnTickets)
         /\ HoldsSlot(ts, k) => HoldsSlot(Poll(ts, k, k, r), k)
         /\ \A j \in Turns \ {k} : HoldsSlot(Poll(ts, k, k, r), j) <=> HoldsSlot(ts, j)
  <1> DEFINE P == {i \in DOMAIN ts : ts[i].state = "running" \/ ts[i].key = k \/ ts[i].stale = "no"}
             f == Fresh(ts, k)
             e == Enter(f, k, k, r)
             a == Adopt(e, k, k)
             p == AdmitHead(a, k)
             new == Ticket(k, k, IF r THEN "running" ELSE "waiting")
  <1>1. P \in SUBSET (DOMAIN ts) /\ f = Keep(ts, P)
    BY DEF Fresh
  <1>2. \A i \in DOMAIN ts : ts[i].state = "running" => i \in P
    OBVIOUS
  <1> HIDE DEF P, f
  <1>3. /\ f \in Seq(OwnTickets)
        /\ \A n \in DOMAIN f : \E i \in P : f[n] = ts[i]
        /\ \A i \in P : \E n \in DOMAIN f : f[n] = ts[i]
    BY <1>1, Kept
  <1>4. \A j : HoldsSlot(f, j) <=> HoldsSlot(ts, j)
    BY <1>1, <1>2, <1>3 DEF HoldsSlot
  <1>5. /\ e \in Seq(OwnTickets)
        /\ HoldsSlot(f, k) => HoldsSlot(e, k)
        /\ \A j \in Turns \ {k} : HoldsSlot(e, j) <=> HoldsSlot(f, j)
    <2>1. CASE HasTicket(f, k)
      BY <1>3, <2>1 DEF Enter
    <2>2. CASE ~HasTicket(f, k)
      <3>1. new \in OwnTickets /\ new.key = k
        BY DEF Ticket, Tickets, OwnTickets
      <3>2. e = Append(f, new)
        BY <2>2 DEF Enter
      <3> HIDE DEF e, new
      <3>3. /\ e \in Seq(OwnTickets) /\ Len(f) \in Nat /\ Len(e) = Len(f) + 1
            /\ \A i \in 1 .. Len(f) : e[i] = f[i]
            /\ e[Len(f) + 1] = new
        BY <1>3, <3>1, <3>2, AppendProperties, LenProperties
      <3>4. DOMAIN f = 1 .. Len(f) /\ DOMAIN e = 1 .. Len(f) + 1
        BY <1>3, <3>3, LenProperties
      <3>5. \A i : i \in DOMAIN e <=> i \in DOMAIN f \/ i = Len(f) + 1
        BY <3>3, <3>4
      <3>6. \A i \in DOMAIN f : e[i] = f[i]
        BY <3>3, <3>4
      <3> QED BY <3>1, <3>3, <3>5, <3>6 DEF HoldsSlot
    <2> QED BY <2>1, <2>2
  <1> HIDE DEF e
  <1>6. DOMAIN e = 1 .. Len(e) /\ Len(e) \in Nat /\ \A i \in DOMAIN e : e[i] \in OwnTickets
    BY <1>5, LenProperties, ElementOfSeq
  <1>7. /\ DOMAIN a = DOMAIN e /\ a = [i \in DOMAIN e |-> a[i]]
        /\ \A i \in DOMAIN e : a[i] \in OwnTickets /\ a[i].key = e[i].key /\ a[i].state = e[i].state
    BY <1>6 DEF Adopt, OwnTickets, Tickets
  <1> HIDE DEF a
  <1>8. /\ DOMAIN p = DOMAIN e /\ p = [i \in DOMAIN e |-> p[i]]
        /\ \A i \in DOMAIN e : /\ p[i] \in OwnTickets /\ p[i].key = e[i].key
                               /\ p[i].state = e[i].state \/ (e[i].key = k /\ p[i].state = "running")
    <2>1. CASE p = a
      BY <1>7, <2>1
    <2>2. CASE p = GiveSlot(a, k)
      <3>1. p = [i \in DOMAIN e |-> IF a[i].key = k THEN [a[i] EXCEPT !.state = "running"] ELSE a[i]]
        BY <1>7, <2>2 DEF GiveSlot
      <3> HIDE DEF p
      <3> QED BY <1>7, <3>1 DEF OwnTickets, Tickets
    <2> QED BY <2>1, <2>2 DEF AdmitHead
  <1> HIDE DEF p
  <1>9. p \in Seq(OwnTickets)
    <2>1. p \in [1 .. Len(e) -> OwnTickets]
      BY <1>6, <1>8
    <2> QED BY <1>6, <2>1, SeqDef
  <1>10. /\ HoldsSlot(e, k) => HoldsSlot(p, k)
         /\ \A j \in Turns \ {k} : HoldsSlot(p, j) <=> HoldsSlot(e, j)
    BY <1>8 DEF HoldsSlot
  <1>11. p = Poll(ts, k, k, r)
    BY DEF Poll, p, a, e, f
  <1> QED BY <1>4, <1>5, <1>9, <1>10, <1>11

----------------------------------------------------------------------------
(* Who holds a slot.                                                        *)

Slotted == {k \in Turns : HoldsSlot(tickets, k)}

Works(k) == \E a \in Attempts : remote[k][a] \in {"sent", "inProgress"}
Sent(k) == \E a \in Attempts : sends[k][a] # 0

\* Where a runner is that has been admitted and has not left.
Admitted == {"start", "ask", "asked", "resume", "prepare", "arm", "dispatch", "send", "sent",
             "await", "interrupt", "retry", "again"}

(* A turn is only sent in a bound thread, of which the receipts know. *)
Bound(k) ==
  /\ Sent(k) /\ file[k] # NoFile => file[k].thread = "bound"
  /\ Sent(k) /\ Live(k) => run[k].mem.thread = "bound"
  /\ At(k, "send") => file[k] # NoFile /\ file[k].thread = "bound"

(* The runner knows whether it has a slot, and work has one.               *)
Held(k) ==
  /\ run[k].slot = "yes" => k \in Slotted
  /\ run[k].slot = "waiting" => At(k, "queue") /\ k \notin Slotted
  /\ run[k].at \in Admitted => run[k].slot = "yes"
  /\ run[k].at \in {"off", "open", "create", "register", "close"} => run[k].slot = "no"
  /\ run[k].over = "yes" => run[k].at \in {"leave", "close"} /\ ~Works(k)
  /\ Works(k) => k \in Slotted

Misfortune == crashes > 0 \/ faults > 0

(* Who says that the turn is answered has a slot and gives it back.         *)
Answering(k) ==
  /\ run[k].says = "done" =>
       /\ run[k].at \in {"leave", "close"}
       /\ At(k, "leave") => run[k].slot = "yes" /\ ~HasPendingModelTurn(run[k].mem)
  /\ message[k] = "done" =>
       /\ run[k].at \in {"leave", "close", "off"}
       /\ ~At(k, "off") => run[k].says = "done"
  /\ (message[k] = "done" /\ At(k, "off")) \/ (run[k].says = "done" /\ At(k, "close"))
       => k \notin Slotted \/ Misfortune

Fit(k) == Bound(k) /\ Held(k) /\ Answering(k)

Counters == crashes \in Nat /\ faults \in Nat

Named == named \in [Turns -> Attempts \union {NoTurn}]

Begun == \A k \in Turns : message[k] = "none" => At(k, "off")

SlotInv == /\ Inv /\ tickets \in Seq(OwnTickets) /\ Counters /\ Named /\ Begun
           /\ \A k \in Turns : Fit(k)

LEMMA SlotInvHolds == SlotInv => WorkHoldsItsTicket
  <1> SUFFICES ASSUME SlotInv, NEW k \in Turns
               PROVE  /\ (\E a \in Attempts : remote[k][a] \in {"sent", "inProgress"})
                           => HoldsSlot(tickets, k)
                      /\ HoldsSlot(tickets, k) /\ message[k] = "done" =>
                           run[k].at # "off" \/ crashes > 0 \/ faults > 0
    BY DEF WorkHoldsItsTicket
  <1>1. Held(k) /\ Answering(k) /\ (k \in Slotted <=> HoldsSlot(tickets, k))
    BY DEF SlotInv, Fit, Slotted
  <1> QED BY <1>1 DEF Held, Answering, Works, Misfortune, At

LEMMA SlotInvInit == Init => SlotInv
  <1> SUFFICES ASSUME Init PROVE SlotInv
    OBVIOUS
  <1>1. tickets \in Seq(OwnTickets)
    BY EmptySeq DEF Init
  <1>2. ASSUME NEW k \in Turns PROVE Fit(k)
    BY <1>2 DEF Init, Fit, Bound, Held, Answering, Sent, Works, At, Live, Off, Admitted
  <1> QED BY <1>1, <1>2, InvInit DEF SlotInv, Counters, Named, Begun, Init, Off, At

(* An attempt that works is the last one sent, and the receipt names it. *)
LEMMA LastOneWorks ==
  ASSUME Inv, NEW k \in Turns, NEW a \in Attempts, NEW b \in Attempts,
         remote[k][a] \in {"sent", "inProgress"}, remote[k][b] \in {"sent", "inProgress"}
  PROVE  a = b
  <1> USE Numbers
  <1>1. sends[k][a] = 1 /\ sends[k][b] = 1
    <2>1. Once(k) /\ sends[k] \in [Attempts -> Nat]
      BY DEF Inv, Shape
    <2>2. sends[k][a] # 0 /\ sends[k][b] # 0
      BY <2>1 DEF Once
    <2>3. sends[k][a] \in Nat /\ sends[k][b] \in Nat /\ sends[k][a] <= 1 /\ sends[k][b] <= 1
      BY <2>1 DEF Once
    <2> QED BY <2>2, <2>3
  <1>2. OneModelTurn
    BY InvOnce
  <1>3. ~(b < a) /\ ~(a < b)
    BY <1>1, <1>2 DEF OneModelTurn, Attempts
  <1> QED BY <1>3 DEF Attempts

LEMMA NothingPending ==
  ASSUME SlotInv, NEW k \in Turns, Live(k), ~HasPendingModelTurn(run[k].mem)
  PROVE  ~Works(k)
  <1> DEFINE d == run[k].mem
  <1> SUFFICES ASSUME NEW a \in Attempts, remote[k][a] \in {"sent", "inProgress"} PROVE FALSE
    BY DEF Works
  <1> USE Numbers
  <1>1. Inv /\ Fit(k) /\ d \in Receipt /\ Covers(k, d) /\ Once(k) /\ Shape
    BY Facts DEF SlotInv
  <1>2. sends[k][a] # 0
    BY <1>1 DEF Once
  <1>3. d.thread = "bound"
    BY <1>1, <1>2 DEF Fit, Bound, Sent
  <1>4. d.phase # "dispatched"
    BY <1>1 DEF HasPendingModelTurn, Covers
  <1>5. ~(a < d.retries)
    BY <1>1 DEF Covers
  <1>6. a = d.retries /\ d.phase = "terminal"
    BY <1>1, <1>2, <1>4, <1>5 DEF Covers
  <1>7. Status(k, a) = d.terminal
    BY <1>1, <1>3, <1>6 DEF Covers, ThreadCreationRejected
  <1> QED BY <1>1, <1>7 DEF Status, Receipt, Ended

----------------------------------------------------------------------------
(* What a step of turn k leaves alone.                                      *)

SameTurn(j) == /\ run'[j] = run[j] /\ file'[j] = file[j] /\ message'[j] = message[j]
               /\ remote'[j] = remote[j] /\ sends'[j] = sends[j]

Later == /\ crashes' \in {crashes, crashes + 1} /\ faults' \in {faults, faults + 1}

TurnStep(k) == RunnerStep(k) \/ Trouble(k) \/ User(k) \/ Flush(k) \/ CodexStep(k)

LEMMA OthersStay ==
  ASSUME Inv, NEW k \in Turns, NEW j \in Turns, j # k, TurnStep(k)
  PROVE  SameTurn(j) /\ Later
  <1> USE DEF Inv, Shape, SameTurn, Later
  <1>1. CASE Open(k)
    BY <1>1 DEF Open, Screen, Codex
  <1>2. CASE RecoverThread(k)
    BY <1>2 DEF RecoverThread, Update, LeaveWith, Leave, Screen, Codex
  <1>3. CASE Register(k)
    BY <1>3 DEF Register, Codex
  <1>4. CASE Enqueue(k)
    BY <1>4 DEF Enqueue, Screen, Codex
  <1>5. CASE QueueStops(k)
    BY <1>5 DEF QueueStops, Show, Codex
  <1>6. CASE Resume(k)
    BY <1>6 DEF Resume, Project, Update, LeaveWith, Leave, NoFault, Codex
  <1>7. CASE StartThread(k)
    BY <1>7 DEF StartThread, Leave, WriteAhead, Update, NoFault, Fault, Screen, Codex
  <1>8. CASE AskThread(k)
    BY <1>8 DEF AskThread, Move, Screen
  <1>9. CASE ThreadAnswered(k)
    BY <1>9 DEF ThreadAnswered, Update, LeaveWith, NoFault, Screen, Codex
  <1>10. CASE Prepare(k)
    BY <1>10 DEF Prepare, Leave, Update, NoFault, Screen, Codex
  <1>11. CASE Arm(k)
    BY <1>11 DEF Arm, Show, Leave, Move, Codex
  <1>12. CASE Dispatch(k)
    BY <1>12 DEF Dispatch, Leave, WriteAhead, Update, NoFault, Fault, Screen, Codex
  <1>13. CASE Send(k)
    BY <1>13 DEF Send, Move, Screen
  <1>14. CASE Answered(k)
    BY <1>14 DEF Answered, Update, NoFault, Codex
  <1>15. CASE AnsweredLate(k)
    BY <1>15 DEF AnsweredLate, Move, Project, Update, LeaveWith, NoFault, Codex
  <1>16. CASE TurnCompleted(k)
    BY <1>16 DEF TurnCompleted, Update, LeaveWith, NoFault, Fault, Screen, Codex
  <1>17. CASE Reconcile(k)
    BY <1>17 DEF Reconcile, Project, Update, LeaveWith, NoFault, Codex
  <1>18. CASE Interrupt(k)
    BY <1>18 DEF Interrupt, Interrupted, Show, NoFault, Fault
  <1>19. CASE Retry(k)
    BY <1>19 DEF Retry, Show, Leave, WriteAhead, Update, NoFault, Fault, Codex
  <1>20. CASE Finally(k)
    BY <1>20 DEF Finally, NoFault, Fault, Screen, Codex
  <1>21. CASE Close(k)
    BY <1>21 DEF Close, Show, Codex
  <1>22. CASE QueueFails(k)
    BY <1>22 DEF QueueFails, Screen, Codex
  <1>23. CASE Fails(k)
    BY <1>23 DEF Fails, Leave, Fault, Screen, Codex
  <1>24. CASE ThreadTimesOut(k)
    BY <1>24 DEF ThreadTimesOut, Leave, Screen, Codex
  <1>25. CASE Unanswered(k)
    BY <1>25 DEF Unanswered, Leave, Screen, Codex
  <1>26. CASE StreamFails(k)
    BY <1>26 DEF StreamFails, Leave, Fault, Screen, Codex
  <1>27. CASE Watchdog(k)
    BY <1>27 DEF Watchdog, Interrupted, Show, Fault
  <1>28. CASE Begin(k)
    BY <1>28 DEF Begin, Codex
  <1>29. CASE Reopen(k)
    BY <1>29 DEF Reopen, Screen, Codex
  <1>30. CASE Stop(k)
    BY <1>30 DEF Stop, Codex
  <1>31. CASE ControlStop(k)
    BY <1>31 DEF ControlStop, Show
  <1>32. CASE Flush(k)
    BY <1>32 DEF Flush, Show, Codex
  <1>33. CASE CodexStep(k)
    BY <1>33 DEF CodexStep, CodexOpensThread, CodexTakes, CodexEnds, CodexLoses, Fault, Server
  <1> QED BY <1>1, <1>2, <1>3, <1>4, <1>5, <1>6, <1>7, <1>8, <1>9, <1>10, <1>11, <1>12, <1>13, <1>14, <1>15, <1>16, <1>17, <1>18, <1>19, <1>20, <1>21, <1>22, <1>23, <1>24, <1>25, <1>26, <1>27, <1>28, <1>29, <1>30, <1>31, <1>32, <1>33
          DEF TurnStep, RunnerStep, Trouble, User

LEMMA NamesStay ==
  ASSUME Inv, Named, NEW k \in Turns, TurnStep(k) PROVE Named'
  <1>1. run[k].mem.retries \in Attempts
    BY DEF Inv, Shape, Runner, Receipt
  <1>2. CASE UNCHANGED named
    BY <1>2 DEF Named
  <1>3. CASE named' = [named EXCEPT ![k] = run[k].mem.retries]
    BY <1>1, <1>3 DEF Named
  <1>4. CASE Resume(k) \/ Answered(k) \/ AnsweredLate(k) \/ Reconcile(k)
    BY <1>2, <1>3, <1>4 DEF Resume, Answered, AnsweredLate, Reconcile, Project
  <1>5. CASE Open(k)
    BY <1>2, <1>5 DEF Open, Screen
  <1>6. CASE RecoverThread(k)
    BY <1>2, <1>6 DEF RecoverThread, Screen
  <1>7. CASE Register(k)
    BY <1>2, <1>7 DEF Register
  <1>8. CASE Enqueue(k)
    BY <1>2, <1>8 DEF Enqueue, Screen
  <1>9. CASE QueueStops(k)
    BY <1>2, <1>9 DEF QueueStops
  <1>10. CASE StartThread(k)
    BY <1>2, <1>10 DEF StartThread, Screen
  <1>11. CASE AskThread(k)
    BY <1>2, <1>11 DEF AskThread, Screen
  <1>12. CASE ThreadAnswered(k)
    BY <1>2, <1>12 DEF ThreadAnswered, Screen
  <1>13. CASE Prepare(k)
    BY <1>2, <1>13 DEF Prepare, Screen
  <1>14. CASE Arm(k)
    BY <1>2, <1>14 DEF Arm
  <1>15. CASE Dispatch(k)
    BY <1>2, <1>15 DEF Dispatch, Screen
  <1>16. CASE Send(k)
    BY <1>2, <1>16 DEF Send, Screen
  <1>17. CASE TurnCompleted(k)
    BY <1>2, <1>17 DEF TurnCompleted, Screen
  <1>18. CASE Interrupt(k)
    BY <1>2, <1>18 DEF Interrupt
  <1>19. CASE Retry(k)
    BY <1>2, <1>19 DEF Retry
  <1>20. CASE Finally(k)
    BY <1>2, <1>20 DEF Finally, Screen
  <1>21. CASE Close(k)
    BY <1>2, <1>21 DEF Close
  <1>22. CASE QueueFails(k)
    BY <1>2, <1>22 DEF QueueFails, Screen
  <1>23. CASE Fails(k)
    BY <1>2, <1>23 DEF Fails, Screen
  <1>24. CASE ThreadTimesOut(k)
    BY <1>2, <1>24 DEF ThreadTimesOut, Screen
  <1>25. CASE Unanswered(k)
    BY <1>2, <1>25 DEF Unanswered, Screen
  <1>26. CASE StreamFails(k)
    BY <1>2, <1>26 DEF StreamFails, Screen
  <1>27. CASE Watchdog(k)
    BY <1>2, <1>27 DEF Watchdog
  <1>28. CASE Begin(k)
    BY <1>2, <1>28 DEF Begin
  <1>29. CASE Reopen(k)
    BY <1>2, <1>29 DEF Reopen, Screen
  <1>30. CASE Stop(k)
    BY <1>2, <1>30 DEF Stop
  <1>31. CASE ControlStop(k)
    BY <1>2, <1>31 DEF ControlStop
  <1>32. CASE Flush(k)
    BY <1>2, <1>32 DEF Flush
  <1>33. CASE CodexStep(k)
    BY <1>2, <1>33 DEF CodexStep, CodexOpensThread, CodexTakes, CodexEnds, CodexLoses, Server
  <1> QED BY <1>4, <1>5, <1>6, <1>7, <1>8, <1>9, <1>10, <1>11, <1>12, <1>13, <1>14, <1>15, <1>16, <1>17, <1>18, <1>19, <1>20, <1>21, <1>22, <1>23, <1>24, <1>25, <1>26, <1>27, <1>28, <1>29, <1>30, <1>31, <1>32, <1>33
          DEF TurnStep, RunnerStep, Trouble, User

LEMMA BegunStay ==
  ASSUME Inv, Begun, NEW k \in Turns, TurnStep(k) PROVE Begun'
  <1> SUFFICES ASSUME message'[k] = "none" PROVE run'[k].at = "off"
    BY OthersStay DEF Begun, SameTurn, At
  <1>1. /\ message[k] = "none" => run[k].at = "off"
        /\ run[k].says # "none" /\ message \in [Turns -> {"none"} \union Says]
    BY DEF Inv, Shape, Runner, Says, Begun, At
  <1>2. CASE Open(k)
    BY <1>1, <1>2 DEF Open, At, Screen
  <1>3. CASE RecoverThread(k)
    BY <1>1, <1>3 DEF RecoverThread, At, Screen
  <1>4. CASE Register(k)
    BY <1>1, <1>4 DEF Register, At
  <1>5. CASE Enqueue(k)
    BY <1>1, <1>5 DEF Enqueue, At, Screen
  <1>6. CASE QueueStops(k)
    BY <1>1, <1>6 DEF QueueStops, At, Show
  <1>7. CASE StartThread(k)
    BY <1>1, <1>7 DEF StartThread, At, Screen
  <1>8. CASE AskThread(k)
    BY <1>1, <1>8 DEF AskThread, At, Screen
  <1>9. CASE ThreadAnswered(k)
    BY <1>1, <1>9 DEF ThreadAnswered, At, Screen
  <1>10. CASE Prepare(k)
    BY <1>1, <1>10 DEF Prepare, At, Screen
  <1>11. CASE Arm(k)
    BY <1>1, <1>11 DEF Arm, At, Show
  <1>12. CASE Dispatch(k)
    BY <1>1, <1>12 DEF Dispatch, At, Screen
  <1>13. CASE Send(k)
    BY <1>1, <1>13 DEF Send, At, Screen
  <1>14. CASE TurnCompleted(k)
    BY <1>1, <1>14 DEF TurnCompleted, At, Screen
  <1>15. CASE Interrupt(k)
    BY <1>1, <1>15 DEF Interrupt, At, Show
  <1>16. CASE Retry(k)
    BY <1>1, <1>16 DEF Retry, At, Show
  <1>17. CASE Finally(k)
    BY <1>1, <1>17 DEF Finally, At, Screen
  <1>18. CASE Close(k)
    BY <1>1, <1>18 DEF Close, At, Show
  <1>19. CASE QueueFails(k)
    BY <1>1, <1>19 DEF QueueFails, At, Screen
  <1>20. CASE Fails(k)
    BY <1>1, <1>20 DEF Fails, At, Screen
  <1>21. CASE ThreadTimesOut(k)
    BY <1>1, <1>21 DEF ThreadTimesOut, At, Screen
  <1>22. CASE Unanswered(k)
    BY <1>1, <1>22 DEF Unanswered, At, Screen
  <1>23. CASE StreamFails(k)
    BY <1>1, <1>23 DEF StreamFails, At, Screen
  <1>24. CASE Watchdog(k)
    BY <1>1, <1>24 DEF Watchdog, At, Show
  <1>25. CASE Begin(k)
    BY <1>1, <1>25 DEF Begin, At
  <1>26. CASE Reopen(k)
    BY <1>1, <1>26 DEF Reopen, At, Screen
  <1>27. CASE Stop(k)
    BY <1>1, <1>27 DEF Stop, At
  <1>28. CASE ControlStop(k)
    BY <1>1, <1>28 DEF ControlStop, At, Show
  <1>29. CASE Flush(k)
    BY <1>1, <1>29 DEF Flush, At, Show
  <1>30. CASE Resume(k)
    BY <1>1, <1>30 DEF Resume, At
  <1>31. CASE Answered(k)
    BY <1>1, <1>31 DEF Answered, At
  <1>32. CASE AnsweredLate(k)
    BY <1>1, <1>32 DEF AnsweredLate, At
  <1>33. CASE Reconcile(k)
    BY <1>1, <1>33 DEF Reconcile, At
  <1>34. CASE CodexStep(k)
    BY <1>1, <1>34 DEF CodexStep, CodexOpensThread, CodexTakes, CodexEnds, CodexLoses, Server
  <1> QED BY <1>2, <1>3, <1>4, <1>5, <1>6, <1>7, <1>8, <1>9, <1>10, <1>11, <1>12, <1>13, <1>14, <1>15, <1>16, <1>17, <1>18, <1>19, <1>20, <1>21, <1>22, <1>23, <1>24, <1>25, <1>26, <1>27, <1>28, <1>29, <1>30, <1>31, <1>32, <1>33, <1>34
          DEF TurnStep, RunnerStep, Trouble, User

LEMMA Rest ==
  ASSUME SlotInv, Inv', NEW k \in Turns, TurnStep(k), tickets' \in Seq(OwnTickets),
         \A j \in Turns \ {k} : j \in Slotted' <=> j \in Slotted,
         Later, Fit(k)'
  PROVE  SlotInv'
  <1>1. Counters' /\ (Misfortune => Misfortune')
    BY DEF SlotInv, Counters, Later, Misfortune
  <1>2. ASSUME NEW j \in Turns, j # k PROVE Fit(j)'
    <2>1. SameTurn(j) /\ Fit(j) /\ (j \in Slotted' <=> j \in Slotted)
      BY <1>2, OthersStay DEF SlotInv
    <2>2. Bound(j)'
      BY <2>1 DEF SameTurn, Fit, Bound, Sent, At, Live
    <2>3. Held(j)'
      BY <2>1 DEF SameTurn, Fit, Held, Works, At
    <2>4. Answering(j)'
      BY <1>1, <2>1 DEF SameTurn, Fit, Answering, At
    <2> QED BY <2>2, <2>3, <2>4 DEF Fit
  <1> QED BY <1>1, <1>2, NamesStay, BegunStay DEF SlotInv

LEMMA SlotsStay ==
  ASSUME SlotInv, UNCHANGED tickets
  PROVE  tickets' \in Seq(OwnTickets) /\ Slotted' = Slotted
  BY DEF SlotInv, Slotted

\* Until its runner leaves, no turn is shown as answered.
LEMMA NotAnswered ==
  ASSUME SlotInv, NEW k \in Turns, run[k].at \notin {"off", "leave", "close"}
  PROVE  message[k] # "done" /\ run[k].says # "done" /\ run[k].over # "yes"
  BY DEF SlotInv, Fit, Held, Answering

(* The runner of turn k, admitted, goes on. *)
LEMMA GoesOn ==
  ASSUME SlotInv, Inv', NEW k \in Turns, TurnStep(k), UNCHANGED tickets, Later,
         run[k].at \in Admitted, run'[k].at \in Admitted,
         run'[k].slot = run[k].slot, run'[k].over = run[k].over, run'[k].says = run[k].says,
         message'[k] # "done", sends'[k] = sends[k], Works(k)' => Works(k),
         Sent(k) => run'[k].mem.thread = "bound",
         file'[k] = file[k] \/ file'[k] = run'[k].mem,
         run'[k].at = "send" => file'[k] # NoFile /\ file'[k].thread = "bound"
  PROVE  SlotInv'
  <1>1. Slotted' = Slotted /\ tickets' \in Seq(OwnTickets) /\ Fit(k)
    BY SlotsStay DEF SlotInv
  <1>2. run[k].at \notin {"off", "open", "leave", "close", "queue", "create", "register"}
        /\ run'[k].at \notin {"off", "open", "leave", "close", "queue", "create", "register"}
    BY DEF Admitted
  <1>3. Bound(k)'
    BY <1>1, <1>2 DEF Fit, Bound, Sent, Live, At
  <1>4. Held(k)'
    BY <1>1, <1>2 DEF Fit, Held, At
  <1>5. Answering(k)'
    BY <1>1, <1>2, NotAnswered DEF Answering, At
  <1> QED BY <1>1, <1>3, <1>4, <1>5, Rest DEF Fit

(* The runner of turn k stops working, with or without a slot. *)
LEMMA GoesAway ==
  ASSUME SlotInv, Inv', NEW k \in Turns, TurnStep(k), UNCHANGED tickets, Later,
         run[k].at \notin {"off", "leave", "close"}, run'[k].at = "leave",
         run[k].slot # "waiting", run'[k].slot = run[k].slot,
         run'[k].over = "yes" => ~Works(k)',
         run'[k].says = "done" => run[k].at \in Admitted /\ ~HasPendingModelTurn(run'[k].mem),
         message'[k] # "done", sends'[k] = sends[k], Works(k)' => Works(k),
         Sent(k) => /\ run'[k].mem.thread = "bound"
                    /\ file'[k] # NoFile => file'[k].thread = "bound"
  PROVE  SlotInv'
  <1>1. Slotted' = Slotted /\ tickets' \in Seq(OwnTickets) /\ Fit(k)
    BY SlotsStay DEF SlotInv
  <1>2. Bound(k)'
    BY <1>1 DEF Fit, Bound, Sent, Live, At
  <1>3. Held(k)'
    BY <1>1 DEF Fit, Held, At, Admitted
  <1>4. run'[k].says = "done" => run'[k].slot = "yes" /\ ~HasPendingModelTurn(run'[k].mem)
    BY <1>1 DEF Fit, Held
  <1>5. HasPendingModelTurn(run[k].mem)' <=> HasPendingModelTurn(run'[k].mem)
    BY DEF HasPendingModelTurn
  <1>6. Answering(k)'
    BY <1>4, <1>5 DEF Answering, At
  <1> QED BY <1>1, <1>2, <1>3, <1>6, Rest DEF Fit

(* What is known of an admitted runner. *)
LEMMA AdmittedFacts ==
  ASSUME SlotInv, NEW k \in Turns, run[k].at \in Admitted
  PROVE  /\ Inv /\ Shape /\ Live(k) /\ run \in [Turns -> Runner] /\ file \in [Turns -> Files]
         /\ run[k] \in Runner /\ run[k].mem \in Receipt
         /\ run[k].slot = "yes" /\ run[k].over # "yes" /\ run[k].says # "done"
         /\ message[k] # "done" /\ run[k].at \notin {"off", "leave", "close"}
         /\ Sent(k) => /\ run[k].mem.thread = "bound"
                       /\ file[k] # NoFile => file[k].thread = "bound"
  <1>1. run[k].at \notin {"off", "open", "leave", "close"} /\ Inv /\ Live(k) /\ Fit(k)
    BY DEF Admitted, SlotInv, Live
  <1>2. Shape /\ run[k] \in Runner /\ run[k].mem \in Receipt
    BY <1>1, Facts
  <1> QED BY <1>1, <1>2, NotAnswered DEF Shape, Fit, Held, Bound

----------------------------------------------------------------------------
(* An admitted runner goes on, or leaves, and Codex is left alone.          *)

Steps(k) == /\ TurnStep(k) /\ Later /\ UNCHANGED <<tickets, remote, sends>>
            /\ run[k].at \in Admitted /\ message'[k] # "done"

LEMMA StepsCalmly ==
  ASSUME NEW k \in Turns, Steps(k)
  PROVE  /\ UNCHANGED tickets /\ sends'[k] = sends[k] /\ (Works(k)' => Works(k))
         /\ TurnStep(k) /\ Later /\ run[k].at \in Admitted /\ message'[k] # "done"
  BY DEF Steps, Works

LEMMA MoveGoesOn ==
  ASSUME SlotInv, Inv', NEW k \in Turns, Steps(k), NEW p \in Admitted \ {"send"}, Move(k, p)
  PROVE  SlotInv'
  <1>1. /\ run'[k].at = p /\ run'[k].slot = run[k].slot /\ run'[k].over = run[k].over
        /\ run'[k].says = run[k].says /\ run'[k].mem = run[k].mem /\ file'[k] = file[k]
    BY StepsCalmly, AdmittedFacts DEF Move, Runner
  <1> QED BY <1>1, StepsCalmly, AdmittedFacts, GoesOn

LEMMA UpdateGoesOn ==
  ASSUME SlotInv, Inv', NEW k \in Turns, Steps(k), NEW p \in Admitted, NEW d \in Receipt,
         Update(k, p, d), d.thread \in {run[k].mem.thread, "bound"},
         p = "send" => run[k].kept = "yes" /\ d.thread = "bound"
  PROVE  SlotInv'
  <1>1. /\ run'[k].at = p /\ run'[k].slot = run[k].slot /\ run'[k].over = run[k].over
        /\ run'[k].says = run[k].says /\ run'[k].mem = d
        /\ file'[k] \in {file[k], d} /\ (p = "send" => file'[k] = d)
    BY StepsCalmly, AdmittedFacts DEF Update, Runner
  <1>2. d # NoFile
    BY DEF Receipt, NoFile
  <1> QED BY <1>1, <1>2, StepsCalmly, AdmittedFacts, GoesOn

(* It leaves with receipt d, and the disk has d, its own, or what was there. *)
LEMMA LeavesFit ==
  ASSUME SlotInv, Inv', NEW k \in Turns, Steps(k),
         run'[k].at = "leave", run'[k].slot = run[k].slot, run'[k].over = run[k].over,
         NEW d \in Receipt, run'[k].mem = d, d.thread \in {run[k].mem.thread, "bound"},
         NEW g \in Receipt, g.thread \in {run[k].mem.thread, "bound"},
         file'[k] \in {file[k], g},
         run'[k].says = "done" => ~HasPendingModelTurn(d)
  PROVE  SlotInv'
  <1>1. run[k].slot # "waiting" /\ run'[k].over # "yes"
    BY StepsCalmly, AdmittedFacts
  <1>2. Sent(k) => d.thread = "bound" /\ g.thread = "bound" /\ (file[k] # NoFile => file[k].thread = "bound")
    BY StepsCalmly, AdmittedFacts
  <1> QED BY <1>1, <1>2, StepsCalmly, AdmittedFacts, GoesAway

LEMMA LeaveGoesAway ==
  ASSUME SlotInv, Inv', NEW k \in Turns, Steps(k), NEW s, s # "done", Leave(k, s)
  PROVE  SlotInv'
  <1>1. /\ run'[k].at = "leave" /\ run'[k].slot = run[k].slot /\ run'[k].over = run[k].over
        /\ run'[k].says = s /\ run'[k].mem = run[k].mem /\ file'[k] = file[k]
        /\ run[k].mem \in Receipt
    BY StepsCalmly, AdmittedFacts DEF Leave, Leaving, Runner
  <1> QED BY <1>1, LeavesFit

LEMMA LeaveWithGoesAway ==
  ASSUME SlotInv, Inv', NEW k \in Turns, Steps(k), NEW s, NEW d \in Receipt, LeaveWith(k, s, d),
         d.thread \in {run[k].mem.thread, "bound"}, s = "done" => ~HasPendingModelTurn(d)
  PROVE  SlotInv'
  <1>1. /\ run'[k].at = "leave" /\ run'[k].slot = run[k].slot /\ run'[k].over = run[k].over
        /\ run'[k].says = s /\ run'[k].mem = d /\ file'[k] = d
    BY StepsCalmly, AdmittedFacts DEF LeaveWith, Leaving, Runner
  <1> QED BY <1>1, LeavesFit

LEMMA WriteAheadGoes ==
  ASSUME SlotInv, Inv', NEW k \in Turns, Steps(k), NEW p \in Admitted, NEW d \in Receipt,
         WriteAhead(k, p, d), d.thread \in {run[k].mem.thread, "bound"},
         p = "send" => run[k].kept = "yes" /\ d.thread = "bound"
  PROVE  SlotInv'
  <1>1. CASE Update(k, p, d)
    BY <1>1, UpdateGoesOn
  <1>2. CASE /\ run' = [run EXCEPT ![k] = Leaving(k, "streaming", d)]
             /\ file' \in {file, [file EXCEPT ![k] = d]}
    <2>1. /\ run'[k].at = "leave" /\ run'[k].slot = run[k].slot /\ run'[k].over = run[k].over
          /\ run'[k].says = "streaming" /\ run'[k].mem = d /\ file'[k] \in {file[k], d}
      BY <1>2, StepsCalmly, AdmittedFacts DEF Leaving, Runner
    <2> QED BY <2>1, LeavesFit
  <1> QED BY <1>1, <1>2 DEF WriteAhead

(* What the operations of the receipt do to its thread. *)
LEMMA Threads ==
  ASSUME NEW d \in Receipt, NEW a \in Attempts, NEW s \in Ended
  PROVE  /\ BoundThread(d) \in Receipt /\ BoundThread(d).thread = "bound"
         /\ BoundTurn(d, a) \in Receipt /\ BoundTurn(d, a).thread = d.thread
         /\ Observed(d, a, s) \in Receipt /\ Observed(d, a, s).thread = d.thread
         /\ ~HasPendingModelTurn(Observed(d, a, s))
         /\ Rejected(d) \in Receipt /\ Rejected(d).thread = d.thread
         /\ AskedThread(d) \in Receipt /\ AskedThread(d).thread = d.thread
         /\ Prepared(d) \in Receipt /\ Prepared(d).thread = d.thread
         /\ Dispatched(d) \in Receipt /\ Dispatched(d).thread = d.thread
  <1>1. BoundThread(d) \in Receipt /\ BoundThread(d).thread = "bound"
    BY DEF Receipt, BoundThread
  <1>2. BoundTurn(d, a) \in Receipt /\ BoundTurn(d, a).thread = d.thread
    BY DEF Receipt, BoundTurn
  <1>3. /\ Observed(d, a, s) \in Receipt /\ Observed(d, a, s).thread = d.thread
        /\ Observed(d, a, s).phase = "terminal"
    BY DEF Receipt, Observed, Ended
  <1>4. /\ Rejected(d) \in Receipt /\ Rejected(d).thread = d.thread
        /\ AskedThread(d) \in Receipt /\ AskedThread(d).thread = d.thread
    <2>1. Rejected(d) \in Receipt /\ Rejected(d).thread = d.thread
      BY DEF Receipt, Rejected, Ended
    <2>2. AskedThread(d) \in Receipt /\ AskedThread(d).thread = d.thread
      BY DEF Receipt, AskedThread
    <2> QED BY <2>1, <2>2
  <1>5. /\ Prepared(d) \in Receipt /\ Prepared(d).thread = d.thread
        /\ Dispatched(d) \in Receipt /\ Dispatched(d).thread = d.thread
    BY DEF Receipt, Prepared, Dispatched
  <1>6. ~HasPendingModelTurn(Observed(d, a, s))
    BY <1>3 DEF HasPendingModelTurn
  <1> QED BY <1>1, <1>2, <1>3, <1>4, <1>5, <1>6

LEMMA ProjectGoes ==
  ASSUME SlotInv, Inv', NEW k \in Turns, Steps(k), NEW p \in Admitted \ {"send"},
         Visible(k, run[k].mem.retries), Project(k, run[k].mem.retries, p)
  PROVE  SlotInv'
  <1> DEFINE d == run[k].mem
             a == d.retries
             b == BoundThread(d)
  <1>1. d \in Receipt /\ a \in Attempts
    BY StepsCalmly, AdmittedFacts DEF Receipt
  <1>2. b \in Receipt /\ b.thread = "bound"
    BY <1>1, Threads DEF Ended
  <1>3. CASE Status(k, a) = "inProgress"
    <2>1. Update(k, p, BoundTurn(b, a))
      BY <1>3 DEF Project
    <2>2. BoundTurn(b, a) \in Receipt /\ BoundTurn(b, a).thread = "bound"
      BY <1>1, <1>2, Threads DEF Ended
    <2> QED BY <2>1, <2>2, UpdateGoesOn
  <1>4. CASE Status(k, a) # "inProgress"
    <2>1. LeaveWith(k, Shows(Status(k, a)), Observed(b, a, Status(k, a)))
      BY <1>4 DEF Project
    <2>2. Status(k, a) \in Ended
      BY <1>4 DEF Visible, Status, Ended
    <2> HIDE DEF b
    <2>3. /\ Observed(b, a, Status(k, a)) \in Receipt
          /\ Observed(b, a, Status(k, a)).thread = "bound"
          /\ ~HasPendingModelTurn(Observed(b, a, Status(k, a)))
      BY <1>1, <1>2, <2>2, Threads
    <2> QED BY <2>1, <2>3, LeaveWithGoesAway
  <1> QED BY <1>3, <1>4

----------------------------------------------------------------------------
(* The actions of an admitted runner.                                       *)

LEMMA StepIs ==
  ASSUME SlotInv, NEW k \in Turns, TurnStep(k), run[k].at \in Admitted,
         UNCHANGED <<tickets, remote, sends>>, Later,
         message'[k] = message[k] \/ message'[k] # "done"
  PROVE  Steps(k)
  BY AdmittedFacts DEF Steps

LEMMA ResumeHolds == ASSUME SlotInv, Inv', NEW k \in Turns, Resume(k) PROVE SlotInv'
  <1> DEFINE d == run[k].mem
  <1>1. Steps(k)
    BY StepIs DEF Resume, At, Admitted, TurnStep, RunnerStep, NoFault, Later, Codex
  <1>2. d \in Receipt
    BY <1>1, StepsCalmly, AdmittedFacts
  <1>3. CASE Visible(k, d.retries)
    <2>1. Project(k, d.retries, "arm") /\ "arm" \in Admitted \ {"send"}
      BY <1>3 DEF Resume, Admitted
    <2> QED BY <1>1, <1>3, <2>1, ProjectGoes
  <1>4. CASE ~Visible(k, d.retries) /\ NeedsRecovery(BoundThread(d))
    <2>1. Leave(k, "streaming")
      BY <1>4 DEF Resume
    <2> QED BY <1>1, <2>1, LeaveGoesAway
  <1>5. CASE ~Visible(k, d.retries) /\ ~NeedsRecovery(BoundThread(d))
    <2>1. Update(k, "prepare", BoundThread(d)) /\ "prepare" \in Admitted
      BY <1>5 DEF Resume, Admitted
    <2>2. BoundThread(d) \in Receipt /\ BoundThread(d).thread = "bound"
      BY <1>2 DEF BoundThread, Receipt
    <2> QED BY <1>1, <2>1, <2>2, UpdateGoesOn
  <1> QED BY <1>3, <1>4, <1>5

LEMMA NotPlain == ASSUME NEW d PROVE Failing(d) # "done"
  BY DEF Failing

LEMMA GivingUpHolds ==
  ASSUME SlotInv, Inv', NEW k \in Turns,
         Fails(k) \/ ThreadTimesOut(k) \/ Unanswered(k) \/ StreamFails(k)
  PROVE  SlotInv'
  <1>1. PICK s : s # "done" /\ Leave(k, s)
    BY NotPlain DEF Fails, ThreadTimesOut, Unanswered, StreamFails
  <1>2. Steps(k)
    BY StepIs DEF Fails, ThreadTimesOut, Unanswered, StreamFails, At, Admitted, TurnStep, Trouble,
                  Fault, Later, Codex, Screen
  <1> QED BY <1>1, <1>2, LeaveGoesAway

LEMMA StartThreadHolds == ASSUME SlotInv, Inv', NEW k \in Turns, StartThread(k) PROVE SlotInv'
  <1> DEFINE d == run[k].mem
  <1>1. Steps(k)
    BY StepIs DEF StartThread, WriteAhead, At, Admitted, TurnStep, RunnerStep, NoFault, Fault, Later,
                  Codex, Screen
  <1>2. d \in Receipt
    BY <1>1, StepsCalmly, AdmittedFacts
  <1>3. CASE Leave(k, "streaming")
    BY <1>1, <1>3, LeaveGoesAway
  <1>4. CASE WriteAhead(k, "ask", AskedThread(d))
    <2>1. AskedThread(d) \in Receipt /\ AskedThread(d).thread = d.thread /\ "ask" \in Admitted
      BY <1>2 DEF AskedThread, Receipt, Admitted
    <2> QED BY <1>1, <1>4, <2>1, WriteAheadGoes
  <1> QED BY <1>3, <1>4 DEF StartThread

LEMMA AskThreadHolds == ASSUME SlotInv, Inv', NEW k \in Turns, AskThread(k) PROVE SlotInv'
  <1>1. Steps(k)
    BY StepIs DEF AskThread, At, Admitted, TurnStep, RunnerStep, Later, Screen
  <1>2. Move(k, "asked") /\ "asked" \in Admitted \ {"send"}
    BY DEF AskThread, Admitted
  <1> QED BY <1>1, <1>2, MoveGoesOn

LEMMA ThreadAnsweredHolds == ASSUME SlotInv, Inv', NEW k \in Turns, ThreadAnswered(k) PROVE SlotInv'
  <1> DEFINE d == run[k].mem
  <1>1. Steps(k)
    BY StepIs DEF ThreadAnswered, At, Admitted, TurnStep, RunnerStep, NoFault, Later, Codex, Screen
  <1>2. d \in Receipt
    BY <1>1, StepsCalmly, AdmittedFacts
  <1>3. CASE Update(k, "prepare", BoundThread(d))
    <2>1. BoundThread(d) \in Receipt /\ BoundThread(d).thread = "bound" /\ "prepare" \in Admitted
      BY <1>2 DEF BoundThread, Receipt, Admitted
    <2> QED BY <1>1, <1>3, <2>1, UpdateGoesOn
  <1>4. CASE LeaveWith(k, "error", Rejected(d))
    <2>1. Rejected(d) \in Receipt /\ Rejected(d).thread = d.thread
      BY <1>2 DEF Rejected, Receipt, Ended
    <2> QED BY <1>1, <1>4, <2>1, LeaveWithGoesAway
  <1> QED BY <1>3, <1>4 DEF ThreadAnswered

LEMMA PrepareHolds == ASSUME SlotInv, Inv', NEW k \in Turns, Prepare(k) PROVE SlotInv'
  <1> DEFINE d == run[k].mem
  <1>1. Steps(k)
    BY StepIs DEF Prepare, At, Admitted, TurnStep, RunnerStep, NoFault, Later, Codex, Screen
  <1>2. d \in Receipt
    BY <1>1, StepsCalmly, AdmittedFacts
  <1>3. CASE Leave(k, "streaming")
    BY <1>1, <1>3, LeaveGoesAway
  <1>4. CASE Update(k, "arm", Prepared(d))
    <2>1. Prepared(d) \in Receipt /\ Prepared(d).thread = d.thread /\ "arm" \in Admitted
      BY <1>2 DEF Prepared, Receipt, Admitted
    <2> QED BY <1>1, <1>4, <2>1, UpdateGoesOn
  <1> QED BY <1>3, <1>4 DEF Prepare

\* Unless it is "done", what is shown now was not an answer before.
LEMMA ShowsNoAnswer ==
  ASSUME SlotInv, NEW k \in Turns, run[k].at \in Admitted, NEW s, s # "done", Show(k, s)
  PROVE  message'[k] # "done"
  BY AdmittedFacts DEF Show, Shape

LEMMA ArmHolds == ASSUME SlotInv, Inv', NEW k \in Turns, Arm(k) PROVE SlotInv'
  <1>1. run[k].at \in Admitted
    BY DEF Arm, At, Admitted
  <1>2. Steps(k)
    <2>1. message'[k] = message[k] \/ message'[k] # "done"
      BY <1>1, ShowsNoAnswer DEF Arm
    <2> QED BY <1>1, <2>1, StepIs DEF Arm, TurnStep, RunnerStep, Later, Codex
  <1>3. CASE Leave(k, "stopped")
    BY <1>2, <1>3, LeaveGoesAway
  <1>4. CASE \E p \in {"dispatch", "await"} : Move(k, p)
    <2>1. {"dispatch", "await"} \subseteq Admitted \ {"send"}
      BY DEF Admitted
    <2> QED BY <1>2, <1>4, <2>1, MoveGoesOn
  <1> QED BY <1>3, <1>4 DEF Arm

LEMMA DispatchHolds == ASSUME SlotInv, Inv', NEW k \in Turns, Dispatch(k) PROVE SlotInv'
  <1> DEFINE d == run[k].mem
  <1>1. Steps(k)
    BY StepIs DEF Dispatch, WriteAhead, At, Admitted, TurnStep, RunnerStep, NoFault, Fault, Later,
                  Codex, Screen
  <1>2. d \in Receipt /\ Live(k) /\ Inv /\ run[k] \in Runner
    BY <1>1, StepsCalmly, AdmittedFacts
  <1>3. CASE d.phase = "ready" /\ d.thread = "bound"
    <2>1. Dispatched(d) \in Receipt /\ Dispatched(d).thread = "bound" /\ "send" \in Admitted
      BY <1>2, <1>3 DEF Dispatched, Receipt, Admitted
    <2>2. run[k].kept = "yes"
      BY <1>2, <1>3, Facts DEF Runner, YesNo
    <2>3. WriteAhead(k, "send", Dispatched(d))
      BY <1>3 DEF Dispatch
    <2> QED BY <1>1, <2>1, <2>2, <2>3, WriteAheadGoes
  <1>4. CASE ~(d.phase = "ready" /\ d.thread = "bound")
    <2>1. Leave(k, "streaming")
      BY <1>4 DEF Dispatch
    <2> QED BY <1>1, <2>1, LeaveGoesAway
  <1> QED BY <1>3, <1>4

LEMMA AnsweredHolds == ASSUME SlotInv, Inv', NEW k \in Turns, Answered(k) PROVE SlotInv'
  <1> DEFINE d == run[k].mem
             b == BoundTurn(d, d.retries)
  <1>1. Steps(k)
    BY StepIs DEF Answered, At, Admitted, TurnStep, RunnerStep, NoFault, Later, Codex
  <1>2. d \in Receipt
    BY <1>1, StepsCalmly, AdmittedFacts
  <1>3. b \in Receipt /\ b.thread = d.thread
    BY <1>2 DEF BoundTurn, Receipt
  <1>4. PICK p \in {"interrupt", "await"} : Update(k, p, b)
    BY DEF Answered
  <1>5. p \in Admitted /\ p # "send"
    BY DEF Admitted
  <1> HIDE DEF b
  <1> QED BY <1>1, <1>3, <1>4, <1>5, UpdateGoesOn

LEMMA AnsweredLateHolds == ASSUME SlotInv, Inv', NEW k \in Turns, AnsweredLate(k) PROVE SlotInv'
  <1>1. Steps(k)
    BY StepIs DEF AnsweredLate, At, Admitted, TurnStep, RunnerStep, NoFault, Later, Codex
  <1>2. "await" \in Admitted \ {"send"}
    BY DEF Admitted
  <1>3. CASE Move(k, "await")
    BY <1>1, <1>2, <1>3, MoveGoesOn
  <1>4. CASE Project(k, run[k].mem.retries, "await")
    BY <1>1, <1>2, <1>4, ProjectGoes DEF AnsweredLate
  <1> QED BY <1>3, <1>4 DEF AnsweredLate

LEMMA ReconcileHolds == ASSUME SlotInv, Inv', NEW k \in Turns, Reconcile(k) PROVE SlotInv'
  <1>1. Steps(k)
    BY StepIs DEF Reconcile, At, Admitted, TurnStep, RunnerStep, NoFault, Later, Codex
  <1>2. "await" \in Admitted \ {"send"} /\ Project(k, run[k].mem.retries, "await")
        /\ Visible(k, run[k].mem.retries)
    BY DEF Admitted, Reconcile
  <1> QED BY <1>1, <1>2, ProjectGoes

LEMMA TurnCompletedHolds == ASSUME SlotInv, Inv', NEW k \in Turns, TurnCompleted(k) PROVE SlotInv'
  <1> DEFINE a == run[k].mem.retries
             d == Observed(run[k].mem, a, Status(k, a))
  <1>1. Steps(k)
    BY StepIs DEF TurnCompleted, At, Admitted, TurnStep, RunnerStep, NoFault, Fault, Later, Codex, Screen
  <1>2. run[k].mem \in Receipt /\ a \in Attempts /\ run[k] \in Runner
    BY <1>1, StepsCalmly, AdmittedFacts DEF Receipt
  <1>3. Status(k, a) \in Ended
    BY DEF TurnCompleted, Visible, Status, Ended
  <1>4. d \in Receipt /\ d.thread = run[k].mem.thread /\ ~HasPendingModelTurn(d)
    BY <1>2, <1>3, Threads
  <1>5. CASE Update(k, "retry", d)
    <2>1. "retry" \in Admitted
      BY DEF Admitted
    <2> HIDE DEF d
    <2> QED BY <1>1, <1>4, <1>5, <2>1, UpdateGoesOn
  <1>6. CASE LeaveWith(k, Shows(Status(k, a)), d)
    <2> HIDE DEF d
    <2> QED BY <1>1, <1>4, <1>6, LeaveWithGoesAway
  <1>7. CASE /\ run' = [run EXCEPT ![k] = Leaving(k, "streaming", @.mem)]
             /\ file' \in {file, [file EXCEPT ![k] = d]}
    <2> HIDE DEF d
    <2>1. run \in [Turns -> Runner] /\ file \in [Turns -> Files]
      BY <1>1, StepsCalmly, AdmittedFacts
    <2>2. /\ run'[k].at = "leave" /\ run'[k].slot = run[k].slot /\ run'[k].over = run[k].over
          /\ run'[k].says = "streaming" /\ run'[k].mem = run[k].mem /\ file'[k] \in {file[k], d}
      BY <1>2, <1>7, <2>1 DEF Leaving, Runner
    <2> QED BY <1>1, <1>2, <1>4, <2>2, LeavesFit
  <1> QED BY <1>5, <1>6, <1>7 DEF TurnCompleted

LEMMA RetryHolds == ASSUME SlotInv, Inv', NEW k \in Turns, Retry(k) PROVE SlotInv'
  <1> DEFINE d == run[k].mem
  <1>1. run[k].at \in Admitted
    BY DEF Retry, At, Admitted
  <1>2. Steps(k)
    <2>1. message'[k] = message[k] \/ message'[k] # "done"
      BY <1>1, ShowsNoAnswer DEF Retry
    <2> QED BY <1>1, <2>1, StepIs DEF Retry, WriteAhead, TurnStep, RunnerStep, NoFault, Fault, Later, Codex
  <1>3. CASE \E s \in {"stopped", "error", "streaming"} : Leave(k, s)
    BY <1>2, <1>3, LeaveGoesAway
  <1>4. CASE RetryEligible(d) /\ WriteAhead(k, "again", Retried(d))
    <2>1. d \in Receipt
      BY <1>2, StepsCalmly, AdmittedFacts
    <2>2. d.retries + 1 \in Attempts
      BY <1>4, <2>1, Numbers DEF Receipt, Attempts, RetryEligible
    <2>3. Retried(d) \in Receipt /\ Retried(d).thread = d.thread /\ "again" \in Admitted
      BY <2>1, <2>2 DEF Retried, Receipt, Admitted
    <2> QED BY <1>2, <1>4, <2>3, WriteAheadGoes
  <1> QED BY <1>3, <1>4 DEF Retry

----------------------------------------------------------------------------
(* Codex gets work, works, and is interrupted.                              *)

LEMMA SendHolds == ASSUME SlotInv, Inv', NEW k \in Turns, Send(k) PROVE SlotInv'
  <1>1. run[k].at = "send" /\ run[k].at \in Admitted /\ Fit(k)
    BY DEF Send, At, Admitted, SlotInv
  <1>2. /\ run'[k].at = "sent" /\ run'[k].slot = run[k].slot /\ run'[k].over = run[k].over
        /\ run'[k].says = run[k].says /\ run'[k].mem = run[k].mem /\ file'[k] = file[k]
        /\ message'[k] = message[k] /\ UNCHANGED tickets
    BY <1>1, AdmittedFacts DEF Send, Move, Runner, Screen
  <1>3. Slotted' = Slotted /\ tickets' \in Seq(OwnTickets)
    BY <1>2, SlotsStay
  <1>4. run[k].mem.thread = "bound" /\ file[k] # NoFile /\ file[k].thread = "bound"
    BY <1>1, Facts DEF Placed, PastThread, Fit, Bound, At, Live, SlotInv
  <1>5. Bound(k)'
    BY <1>2, <1>4 DEF Bound, At
  <1>6. Held(k)'
    BY <1>1, <1>2, <1>3, AdmittedFacts DEF Fit, Held, At, Admitted
  <1>7. Answering(k)'
    BY <1>1, <1>2, AdmittedFacts DEF Answering, At
  <1> QED BY <1>3, <1>5, <1>6, <1>7, Rest DEF Fit, Send, TurnStep, RunnerStep, Later

\* The attempt that works is interrupted: nothing works any more.
LEMMA InterruptEnds ==
  ASSUME SlotInv, NEW k \in Turns, NEW a \in Attempts, remote[k][a] = "inProgress",
         remote' = [remote EXCEPT ![k][a] = "interrupted"]
  PROVE  ~Works(k)'
  <1> SUFFICES ASSUME NEW b \in Attempts, remote'[k][b] \in {"sent", "inProgress"} PROVE FALSE
    BY DEF Works
  <1>1. Inv /\ Shape
    BY DEF SlotInv, Inv
  <1>2. b # a /\ remote'[k][b] = remote[k][b]
    BY <1>1 DEF Shape
  <1> QED BY <1>1, <1>2, LastOneWorks

LEMMA InterruptHolds == ASSUME SlotInv, Inv', NEW k \in Turns, Interrupt(k) \/ Watchdog(k) PROVE SlotInv'
  <1> DEFINE a == run[k].mem.retries
  <1>1. /\ run[k].at \in Admitted /\ TurnStep(k) /\ Later /\ UNCHANGED <<tickets, file>>
        /\ sends'[k] = sends[k]
    BY DEF Interrupt, Watchdog, At, Admitted, TurnStep, RunnerStep, Trouble, NoFault, Fault, Later
  <1>2. a \in Attempts /\ Shape /\ run[k] \in Runner
    BY <1>1, AdmittedFacts DEF Receipt
  <1>3. message'[k] # "done"
    <2>1. UNCHANGED message \/ \E s \in {"stopped", "error"} : Show(k, s)
      BY DEF Interrupt, Watchdog
    <2> QED BY <1>1, <2>1, ShowsNoAnswer, AdmittedFacts
  <1>4. /\ run'[k].at = "leave" /\ run'[k].slot = run[k].slot /\ run'[k].mem = run[k].mem
        /\ run'[k].says # "done"
        /\ run'[k].over = run[k].over \/ (remote[k][a] = "inProgress" /\ Interrupted(k))
    <2>1. run \in [Turns -> Runner] /\ run[k] \in Runner
      BY <1>1, AdmittedFacts
    <2>2. CASE /\ remote[k][a] = "inProgress" /\ Interrupted(k)
               /\ \E s \in {"stopped", "error"} :
                    run' = [run EXCEPT ![k] = [Leaving(k, s, @.mem) EXCEPT !.over = "yes"]]
      BY <2>1, <2>2 DEF Leaving, Runner
    <2>3. CASE \E s \in {"error", "streaming"} : run' = [run EXCEPT ![k] = Leaving(k, s, @.mem)]
      BY <2>1, <2>3 DEF Leaving, Runner
    <2> QED BY <2>2, <2>3 DEF Interrupt, Watchdog
  <1>5. UNCHANGED remote \/ (remote[k][a] = "inProgress" /\ Interrupted(k))
    BY DEF Interrupt, Watchdog
  <1>6. Works(k)' => Works(k)
    BY <1>2, <1>5, InterruptEnds DEF Works, Interrupted
  <1>7. run'[k].over = "yes" => ~Works(k)'
    BY <1>1, <1>2, <1>4, InterruptEnds, AdmittedFacts DEF Interrupted
  <1> QED BY <1>1, <1>3, <1>4, <1>6, <1>7, AdmittedFacts, GoesAway

(* The runner stays where it is. *)
LEMMA Unmoved ==
  ASSUME SlotInv, Inv', NEW k \in Turns, TurnStep(k), UNCHANGED tickets, Later,
         run'[k].at = run[k].at, run'[k].slot = run[k].slot, run'[k].over = run[k].over,
         run'[k].says = run[k].says, run'[k].mem = run[k].mem, file'[k] = file[k],
         sends'[k] = sends[k], Works(k)' => Works(k),
         message'[k] = "done" =>
           message[k] = "done" \/ (run[k].at \in {"leave", "close"} /\ run[k].says = "done")
  PROVE  SlotInv'
  <1>1. Slotted' = Slotted /\ tickets' \in Seq(OwnTickets) /\ Fit(k)
    BY SlotsStay DEF SlotInv
  <1>2. Misfortune => Misfortune'
    BY DEF SlotInv, Counters, Later, Misfortune
  <1>3. Bound(k)'
    BY <1>1 DEF Fit, Bound, Sent, Live, At
  <1>4. Held(k)'
    BY <1>1 DEF Fit, Held, At
  <1>5. HasPendingModelTurn(run[k].mem)' <=> HasPendingModelTurn(run[k].mem)
    BY DEF HasPendingModelTurn
  <1>6. Answering(k)'
    BY <1>1, <1>2, <1>5 DEF Fit, Answering, At
  <1> QED BY <1>1, <1>3, <1>4, <1>6, Rest DEF Fit

LEMMA ControlStopHolds == ASSUME SlotInv, Inv', NEW k \in Turns, ControlStop(k) PROVE SlotInv'
  <1> DEFINE a == named[k]
  <1>1. a \in Attempts /\ Shape /\ run[k] \in Runner /\ Inv
    BY DEF ControlStop, SlotInv, Named, Inv, Shape
  <1>2. Works(k) /\ ~Works(k)'
    BY <1>1, InterruptEnds DEF ControlStop, Works
  <1>3. TurnStep(k) /\ Later /\ UNCHANGED <<tickets, file>> /\ sends'[k] = sends[k]
        /\ message'[k] = "stopped" /\ message[k] # "done"
    BY <1>1 DEF ControlStop, TurnStep, User, Later, Show, Shape
  <1>4. CASE Registered(k)
    <2>1. /\ run'[k].at = "leave" /\ run'[k].slot = run[k].slot /\ run'[k].mem = run[k].mem
          /\ run'[k].says = "stopped"
      BY <1>1, <1>4 DEF ControlStop, Leaving, Shape, Runner
    <2>2. ~At(k, "queue")
      BY <1>2, <1>4, NothingPending DEF Registered, At, Live
    <2>3. run[k].at \in Admitted
      BY <1>4, <2>2 DEF Registered, Admitted
    <2> QED BY <1>2, <1>3, <2>1, <2>3, AdmittedFacts, GoesAway
  <1>5. CASE ~Registered(k)
    <2>1. UNCHANGED run
      BY <1>5 DEF ControlStop
    <2> QED BY <1>2, <1>3, <2>1, Unmoved
  <1> QED BY <1>4, <1>5

LEMMA StopHolds == ASSUME SlotInv, Inv', NEW k \in Turns, Stop(k) PROVE SlotInv'
  <1>1. Shape /\ run[k] \in Runner
    BY DEF SlotInv, Inv, Shape
  <1>2. /\ run'[k].at = run[k].at /\ run'[k].slot = run[k].slot /\ run'[k].over = run[k].over
        /\ run'[k].says = run[k].says /\ run'[k].mem = run[k].mem
    BY <1>1 DEF Stop, Shape, Runner
  <1>3. UNCHANGED <<tickets, file, message, remote, sends>> /\ TurnStep(k) /\ Later
    BY DEF Stop, TurnStep, User, Later, Codex
  <1> QED BY <1>2, <1>3, Unmoved DEF Works

LEMMA FlushHolds == ASSUME SlotInv, Inv', NEW k \in Turns, Flush(k) PROVE SlotInv'
  <1>1. UNCHANGED <<tickets, file, run, remote, sends>> /\ TurnStep(k) /\ Later
    BY DEF Flush, TurnStep, Later, Codex
  <1>2. message'[k] = run[k].says /\ run[k].at \in {"leave", "close"}
    BY DEF Flush, Show, SlotInv, Inv, Shape
  <1> QED BY <1>1, <1>2, Unmoved DEF Works

LEMMA CodexStepHolds == ASSUME SlotInv, Inv', NEW k \in Turns, CodexStep(k) PROVE SlotInv'
  <1>1. UNCHANGED <<tickets, file, run, message, sends>> /\ TurnStep(k) /\ Later
    BY DEF CodexStep, CodexOpensThread, CodexTakes, CodexEnds, CodexLoses, TurnStep, Later, Server, Fault
  <1>2. Works(k)' => Works(k)
    <2>1. CASE CodexOpensThread(k)
      BY <2>1 DEF CodexOpensThread, Works
    <2>2. ASSUME NEW a \in Attempts, CodexTakes(k, a) \/ CodexEnds(k, a) \/ CodexLoses(k, a)
          PROVE  Works(k)
      BY <2>2 DEF CodexTakes, CodexEnds, CodexLoses, Works
    <2> QED BY <2>1, <2>2 DEF CodexStep
  <1> QED BY <1>1, <1>2, Unmoved

----------------------------------------------------------------------------
(* Before the queue, and after the runner.                                  *)

LEMMA Approaches ==
  ASSUME SlotInv, Inv', NEW k \in Turns, TurnStep(k), UNCHANGED tickets, Later,
         run[k].at \in {"off", "open", "create", "register"},
         run'[k].at \in {"open", "create", "register", "queue"},
         run'[k].slot = "no", run'[k].over # "yes", run'[k].says # "done",
         message'[k] # "done", sends'[k] = sends[k], Works(k)' => Works(k),
         Sent(k) /\ run'[k].at # "open" => run'[k].mem.thread = "bound",
         Sent(k) /\ file'[k] # NoFile => file'[k].thread = "bound"
  PROVE  SlotInv'
  <1>1. Slotted' = Slotted /\ tickets' \in Seq(OwnTickets) /\ Fit(k)
    BY SlotsStay DEF SlotInv
  <1>2. Bound(k)'
    BY <1>1 DEF Fit, Bound, Sent, Live, At
  <1>3. Held(k)'
    BY <1>1 DEF Fit, Held, At, Admitted
  <1>4. Answering(k)'
    BY DEF Answering, At
  <1> QED BY <1>1, <1>2, <1>3, <1>4, Rest DEF Fit

LEMMA NotYet ==
  ASSUME SlotInv, NEW k \in Turns, run[k].at \in {"off", "open", "create", "register"}
  PROVE  /\ Inv /\ Shape /\ run \in [Turns -> Runner] /\ file \in [Turns -> Files]
         /\ run[k] \in Runner /\ file[k] \in Files
         /\ run[k].slot = "no" /\ run[k].over # "yes" /\ run[k].says # "done"
         /\ run[k].at # "off" => message[k] # "done"
         /\ Sent(k) => file[k] # NoFile /\ file[k].thread = "bound"
         /\ Sent(k) /\ Live(k) => run[k].mem.thread = "bound"
  <1>1. Inv /\ Shape /\ Fit(k) /\ Good(k, run[k], file[k])
    BY DEF SlotInv, Inv
  <1>2. Sent(k) => file[k] # NoFile
    BY <1>1 DEF Sent, Good, Untouched
  <1> QED BY <1>1, <1>2 DEF Shape, Fit, Held, Answering, Bound, At

LEMMA BeginHolds == ASSUME SlotInv, Inv', NEW k \in Turns, Begin(k) PROVE SlotInv'
  <1>1. run[k].at = "off"
    BY DEF Begin, SlotInv, Begun, At
  <1>2. /\ run'[k].at = "open" /\ run'[k].slot = "no" /\ run'[k].over # "yes" /\ run'[k].says # "done"
        /\ message'[k] = "streaming"
    BY <1>1, NotYet DEF Begin, Runner, Shape
  <1>3. UNCHANGED <<tickets, file, remote, sends>> /\ TurnStep(k) /\ Later
    BY DEF Begin, TurnStep, User, Later, Codex
  <1> QED BY <1>1, <1>2, <1>3, NotYet, Approaches DEF Works

LEMMA ReopenHolds == ASSUME SlotInv, Inv', NEW k \in Turns, Reopen(k) PROVE SlotInv'
  <1>1. run[k].at = "off" /\ message[k] = "streaming"
    BY DEF Reopen, At
  <1>2. /\ run'[k].at = "open" /\ run'[k].slot = "no" /\ run'[k].over = "no"
        /\ run'[k].says = "streaming"
    BY <1>1, NotYet, OffIsRunner DEF Reopen, Runner, Off
  <1>3. UNCHANGED <<tickets, file, message, remote, sends>> /\ TurnStep(k) /\ Later
    BY DEF Reopen, TurnStep, User, Later, Codex, Screen
  <1> QED BY <1>1, <1>2, <1>3, NotYet, Approaches DEF Works

LEMMA RegisterHolds == ASSUME SlotInv, Inv', NEW k \in Turns, Register(k) PROVE SlotInv'
  <1>1. run[k].at = "register" /\ Live(k)
    BY DEF Register, At, Live
  <1>2. /\ run'[k].at = "queue" /\ run'[k].slot = "no" /\ run'[k].over # "yes" /\ run'[k].says # "done"
        /\ run'[k].mem = run[k].mem
    BY <1>1, NotYet DEF Register, Runner
  <1>3. UNCHANGED <<tickets, file, message, remote, sends>> /\ TurnStep(k) /\ Later
    BY DEF Register, TurnStep, RunnerStep, Later, Codex
  <1> QED BY <1>1, <1>2, <1>3, NotYet, Approaches DEF Works

LEMMA OpenHolds == ASSUME SlotInv, Inv', NEW k \in Turns, Open(k) PROVE SlotInv'
  <1> DEFINE existing == run[k].sees = "existing"
             d == IF file[k] = NoFile THEN Opening(existing) ELSE file[k]
             keeps == file[k] # NoFile \/ ~existing
  <1>1. run[k].at = "open"
    BY DEF Open, At
  <1>2. UNCHANGED <<tickets, message, remote, sends>> /\ TurnStep(k) /\ Later
    BY DEF Open, TurnStep, RunnerStep, Later, Codex, Screen
  <1>3. Sent(k) => d.thread = "bound" /\ d = file[k]
    BY <1>1, NotYet
  <1>4. file'[k] \in {file[k], d}
    BY <1>1, NotYet DEF Open
  <1>5. /\ run'[k].mem = d /\ run'[k].slot = "no" /\ run'[k].over # "yes" /\ run'[k].says # "done"
        /\ run'[k].at \in {"leave", "register", "create"}
    <2> HIDE DEF d, keeps
    <2> DEFINE r == [run[k] EXCEPT !.mem = d, !.kept = IF keeps THEN "yes" ELSE "no"]
    <2>1. run' = [run EXCEPT ![k] =
            IF ThreadCreationRejected(d) THEN [r EXCEPT !.at = "leave", !.says = "error"]
            ELSE IF ~NeedsRecovery(d) \/ Threaded(k, d) THEN [r EXCEPT !.at = "register"]
            ELSE IF d.creation = "asked" THEN [r EXCEPT !.at = "create"]
            ELSE [r EXCEPT !.at = "leave"]]
      BY DEF Open, d, keeps
    <2>2. r \in [at : Places, sees : {"new", "existing"}, mem : {d}, kept : YesNo, slot : {"no"},
                 over : {"no"}, abort : YesNo, says : Says \ {"done"}]
      <3>1. run[k] \in Runner /\ run[k].slot = "no" /\ run[k].over = "no" /\ run[k].says # "done"
        BY <1>1, NotYet DEF Runner, YesNo
      <3> QED BY <3>1 DEF Runner, YesNo
    <2>3. run'[k] \in {[r EXCEPT !.at = p] : p \in {"leave", "register", "create"}}
                      \union {[r EXCEPT !.at = "leave", !.says = "error"]}
      <3> HIDE DEF r
      <3> QED BY <1>1, <2>1, NotYet
    <2> HIDE DEF r
    <2>4. CASE run'[k] = [r EXCEPT !.at = "leave", !.says = "error"]
      BY <2>2, <2>4
    <2>5. ASSUME NEW p \in {"leave", "register", "create"}, run'[k] = [r EXCEPT !.at = p]
          PROVE  /\ run'[k].mem = d /\ run'[k].slot = "no" /\ run'[k].over # "yes"
                 /\ run'[k].says # "done" /\ run'[k].at = p
      BY <2>2, <2>5
    <2> QED BY <2>3, <2>4, <2>5
  <1> HIDE DEF d
  <1>6. CASE run'[k].at = "leave"
    BY <1>1, <1>2, <1>3, <1>4, <1>5, <1>6, NotYet, GoesAway DEF Works
  <1>7. CASE run'[k].at # "leave"
    BY <1>1, <1>2, <1>3, <1>4, <1>5, <1>7, NotYet, Approaches DEF Works
  <1> QED BY <1>6, <1>7

LEMMA RecoverThreadHolds == ASSUME SlotInv, Inv', NEW k \in Turns, RecoverThread(k) PROVE SlotInv'
  <1> DEFINE d == run[k].mem
  <1>1. run[k].at = "create" /\ Live(k)
    BY DEF RecoverThread, At, Live
  <1>2. UNCHANGED <<tickets, message, remote, sends>> /\ TurnStep(k) /\ Later
    BY DEF RecoverThread, TurnStep, RunnerStep, Later, Codex, Screen
  <1>3. d \in Receipt /\ run[k] \in Runner
    BY <1>1, NotYet, Facts
  <1>4. CASE Update(k, "register", BoundThread(d))
    <2>1. BoundThread(d).thread = "bound"
      BY <1>3 DEF BoundThread, Receipt
    <2> HIDE DEF d
    <2>2. /\ run'[k].at = "register" /\ run'[k].slot = "no" /\ run'[k].over # "yes"
          /\ run'[k].says # "done" /\ run'[k].mem = BoundThread(d)
          /\ file'[k] \in {file[k], BoundThread(d)}
      BY <1>1, <1>3, <1>4, NotYet DEF Update, Runner
    <2> QED BY <1>1, <1>2, <2>1, <2>2, NotYet, Approaches DEF Works
  <1>5. CASE LeaveWith(k, "error", Rejected(d))
    <2>1. Rejected(d).thread = d.thread
      BY <1>3 DEF Rejected, Receipt
    <2>2. /\ run'[k].at = "leave" /\ run'[k].slot = "no" /\ run'[k].over # "yes"
          /\ run'[k].says = "error" /\ run'[k].mem = Rejected(d) /\ file'[k] = Rejected(d)
      BY <1>1, <1>3, <1>5, NotYet DEF LeaveWith, Leaving, Runner
    <2>3. Sent(k) => Rejected(d).thread = "bound"
      BY <1>1, <2>1, NotYet
    <2> HIDE DEF d
    <2> QED BY <1>1, <1>2, <2>2, <2>3, NotYet, GoesAway DEF Works
  <1>6. CASE Leave(k, "streaming")
    <2>1. /\ run'[k].at = "leave" /\ run'[k].slot = "no" /\ run'[k].over # "yes"
          /\ run'[k].says = "streaming" /\ run'[k].mem = d /\ file'[k] = file[k]
      BY <1>1, <1>3, <1>6, NotYet DEF Leave, Leaving, Runner
    <2> QED BY <1>1, <1>2, <2>1, NotYet, GoesAway DEF Works
  <1> QED BY <1>4, <1>5, <1>6 DEF RecoverThread

LEMMA CloseHolds == ASSUME SlotInv, Inv', NEW k \in Turns, Close(k) PROVE SlotInv'
  <1>1. run[k].at = "close" /\ Fit(k) /\ Shape /\ run'[k] = Off
    BY DEF Close, At, SlotInv, Inv, Shape
  <1>2. UNCHANGED <<tickets, file, remote, sends>> /\ TurnStep(k) /\ Later
    BY DEF Close, TurnStep, RunnerStep, Later, Codex
  <1>3. Slotted' = Slotted /\ tickets' \in Seq(OwnTickets)
    BY <1>2, SlotsStay
  <1>4. message'[k] = IF message[k] = "streaming" THEN run[k].says ELSE message[k]
    BY <1>1 DEF Close, Show, Shape
  <1>5. message'[k] = "done" => run[k].says = "done"
    BY <1>1, <1>4 DEF Fit, Answering, At
  <1>6. Misfortune => Misfortune'
    BY <1>2 DEF SlotInv, Counters, Later, Misfortune
  <1>7. Off.at = "off" /\ Off.slot = "no" /\ Off.over = "no" /\ Off.says = "streaming"
    BY DEF Off
  <1>8. Bound(k)'
    BY <1>1, <1>2, <1>7 DEF Fit, Bound, Sent, Live, At
  <1>9. Held(k)'
    BY <1>1, <1>2, <1>3, <1>7 DEF Fit, Held, At, Works, Admitted
  <1>10. Answering(k)'
    BY <1>1, <1>3, <1>5, <1>6, <1>7 DEF Fit, Answering, At
  <1> QED BY <1>2, <1>3, <1>8, <1>9, <1>10, Rest DEF Fit

----------------------------------------------------------------------------
(* The queue.                                                               *)

LEMMA EnqueueHolds == ASSUME SlotInv, Inv', NEW k \in Turns, Enqueue(k) PROVE SlotInv'
  <1> DEFINE d == run[k].mem
  <1>1. run[k].at = "queue" /\ Fit(k) /\ Shape /\ run[k] \in Runner /\ message[k] # "done"
    BY NotAnswered DEF Enqueue, At, SlotInv, Inv, Shape
  <1>2. UNCHANGED <<file, message, remote, sends>> /\ TurnStep(k) /\ Later
    BY DEF Enqueue, TurnStep, RunnerStep, Later, Codex, Screen
  <1>3. PICK r \in BOOLEAN : tickets' = Poll(tickets, k, k, r)
    BY DEF Enqueue, HasPendingModelTurn
  <1>4. /\ tickets' \in Seq(OwnTickets)
        /\ HoldsSlot(tickets, k) => HoldsSlot(tickets', k)
        /\ \A j \in Turns \ {k} : HoldsSlot(tickets', j) <=> HoldsSlot(tickets, j)
    BY <1>3, PollKeepsSlots DEF SlotInv
  <1>5. /\ k \in Slotted => k \in Slotted'
        /\ \A j \in Turns \ {k} : j \in Slotted' <=> j \in Slotted
        /\ k \in Slotted' <=> HoldsSlot(tickets', k)
    BY <1>4 DEF Slotted
  <1>6. /\ run'[k].over = run[k].over /\ run'[k].says = run[k].says /\ run'[k].mem = d
        /\ k \in Slotted' => run'[k].slot = "yes" /\ run'[k].at \in {"resume", "start"}
        /\ k \notin Slotted' => run'[k].slot = "waiting" /\ run'[k].at = "queue"
    <2>1. run' = [run EXCEPT ![k] =
             IF HoldsSlot(tickets', k)
             THEN [@ EXCEPT !.slot = "yes", !.at = IF Threaded(k, d) THEN "resume" ELSE "start"]
             ELSE [@ EXCEPT !.slot = "waiting"]]
      BY DEF Enqueue
    <2> QED BY <1>1, <1>5, <2>1 DEF Shape, Runner
  <1>7. run[k].over # "yes" /\ run[k].says # "done"
    BY <1>1, NotAnswered
  <1>8. Bound(k)'
    BY <1>1, <1>2, <1>6 DEF Fit, Bound, Sent, Live, At
  <1>9. Held(k)'
    BY <1>1, <1>2, <1>5, <1>6, <1>7 DEF Fit, Held, At, Works, Admitted
  <1>10. Answering(k)'
    BY <1>1, <1>2, <1>6, <1>7 DEF Answering, At
  <1> QED BY <1>2, <1>4, <1>5, <1>8, <1>9, <1>10, Rest DEF Fit

LEMMA QueueLeftHolds == ASSUME SlotInv, Inv', NEW k \in Turns, QueueFails(k) \/ QueueStops(k) PROVE SlotInv'
  <1>1. run[k].at = "queue" /\ Fit(k) /\ Shape /\ run[k] \in Runner /\ message[k] # "done"
        /\ run[k].over # "yes"
    BY NotAnswered DEF QueueFails, QueueStops, At, SlotInv, Inv, Shape
  <1>2. UNCHANGED <<file, remote, sends>> /\ TurnStep(k) /\ Later /\ tickets' = Dequeued(k)
    BY DEF QueueFails, QueueStops, TurnStep, RunnerStep, Trouble, Later, Codex, Screen
  <1>3. message'[k] # "done"
    BY <1>1 DEF QueueFails, QueueStops, Screen, Show, Shape
  <1>4. PICK s : /\ s # "done"
                 /\ run' = [run EXCEPT ![k] = [Leaving(k, s, @.mem) EXCEPT !.slot = "no"]]
    BY NotPlain DEF QueueFails, QueueStops
  <1>5. /\ run'[k].at = "leave" /\ run'[k].slot = "no" /\ run'[k].over = run[k].over
        /\ run'[k].says = s /\ run'[k].mem = run[k].mem
    BY <1>1, <1>4 DEF Leaving, Shape, Runner
  <1>6. /\ tickets' \in Seq(OwnTickets)
        /\ \A j \in Turns \ {k} : HoldsSlot(tickets', j) <=> HoldsSlot(tickets, j)
        /\ run[k].slot = "waiting" \/ tickets' = tickets
    <2>1. CASE run[k].slot = "waiting"
      <3>1. tickets' = Released(tickets, k, k)
        BY <1>2, <2>1 DEF Dequeued
      <3> QED BY <2>1, <3>1, ReleaseFrees DEF SlotInv
    <2>2. CASE run[k].slot # "waiting"
      BY <1>2, <2>2 DEF Dequeued, SlotInv
    <2> QED BY <2>1, <2>2
  <1>7. \A j \in Turns \ {k} : j \in Slotted' <=> j \in Slotted
    BY <1>6 DEF Slotted
  <1>8. Works(k)' => k \in Slotted'
    BY <1>1, <1>2, <1>6 DEF Fit, Held, Works, Slotted
  <1>9. Bound(k)'
    BY <1>1, <1>2, <1>5 DEF Fit, Bound, Sent, Live, At
  <1>10. Held(k)'
    BY <1>1, <1>5, <1>8 DEF Held, At, Admitted
  <1>11. Answering(k)'
    BY <1>3, <1>4, <1>5 DEF Answering, At
  <1> QED BY <1>2, <1>6, <1>7, <1>9, <1>10, <1>11, Rest DEF Fit

LEMMA FinallyHolds == ASSUME SlotInv, Inv', NEW k \in Turns, Finally(k) PROVE SlotInv'
  <1> DEFINE releases == run[k].slot = "yes"
                         /\ (~HasPendingModelTurn(run[k].mem) \/ run[k].over = "yes")
  <1>1. run[k].at \in {"leave", "again"} /\ Fit(k) /\ Shape /\ run[k] \in Runner /\ Live(k)
    BY DEF Finally, At, SlotInv, Inv, Shape, Live
  <1>2. UNCHANGED <<file, message, remote, sends>> /\ TurnStep(k) /\ Later
    BY DEF Finally, TurnStep, RunnerStep, Later, NoFault, Fault, Codex, Screen
  <1>3. /\ releases => tickets' = Released(tickets, k, k) \/ (tickets' = tickets /\ faults' = faults + 1)
        /\ ~releases => tickets' = tickets
    BY DEF Finally, Fault
  <1>4. releases => ~Works(k)
    BY <1>1, NothingPending DEF Fit, Held
  <1> HIDE DEF releases
  <1>5. /\ tickets' \in Seq(OwnTickets)
        /\ \A j \in Turns \ {k} : HoldsSlot(tickets', j) <=> HoldsSlot(tickets, j)
        /\ releases => ~HoldsSlot(tickets', k) \/ faults' = faults + 1
    BY <1>3, ReleaseFrees DEF SlotInv
  <1>6. /\ \A j \in Turns \ {k} : j \in Slotted' <=> j \in Slotted
        /\ releases => k \notin Slotted' \/ faults' = faults + 1
        /\ Works(k)' => k \in Slotted'
    BY <1>1, <1>2, <1>3, <1>4, <1>5 DEF Slotted, Works, Fit, Held
  <1>7. releases => k \notin Slotted' \/ Misfortune'
    BY <1>6 DEF SlotInv, Counters, Misfortune
  <1>8. CASE At(k, "again")
    <2>1. /\ run'[k].at = "open" /\ run'[k].slot = "no" /\ run'[k].over = "no"
          /\ run'[k].says = "streaming"
      BY <1>1, <1>8, OffIsRunner DEF Finally, Shape, Runner, Off
    <2>2. message[k] # "done"
      BY <1>8, NotAnswered DEF At
    <2>3. Bound(k)'
      BY <1>1, <1>2, <2>1 DEF Fit, Bound, Sent, Live, At
    <2>4. Held(k)'
      BY <1>6, <2>1 DEF Held, At, Admitted
    <2>5. Answering(k)'
      BY <1>2, <2>1, <2>2 DEF Answering, At
    <2> QED BY <1>2, <1>5, <1>6, <2>3, <2>4, <2>5, Rest DEF Fit
  <1>9. CASE ~At(k, "again")
    <2>1. /\ run'[k].at = "close" /\ run'[k].slot = "no" /\ run'[k].over = run[k].over
          /\ run'[k].says = run[k].says /\ run'[k].mem = run[k].mem /\ run[k].at = "leave"
      BY <1>1, <1>9 DEF Finally, Shape, Runner, At
    <2>2. run[k].says = "done" => releases
      BY <1>1, <2>1 DEF Fit, Answering, At, releases
    <2>3. Bound(k)'
      BY <1>1, <1>2, <2>1 DEF Fit, Bound, Sent, Live, At
    <2>4. Held(k)'
      BY <1>1, <1>2, <1>6, <2>1 DEF Fit, Held, At, Admitted, Works
    <2>5. Answering(k)'
      BY <1>1, <1>2, <1>7, <2>1, <2>2 DEF Fit, Answering, At
    <2> QED BY <1>2, <1>5, <1>6, <2>3, <2>4, <2>5, Rest DEF Fit
  <1> QED BY <1>8, <1>9

LEMMA CrashHolds == ASSUME SlotInv, Inv', Crash PROVE SlotInv'
  <1>1. UNCHANGED <<file, message, named, tickets, remote, sends>> /\ crashes' = crashes + 1 /\ faults' = faults
    BY DEF Crash, Codex
  <1>2. Slotted' = Slotted /\ tickets' \in Seq(OwnTickets)
    BY <1>1, SlotsStay
  <1>3. Counters' /\ Misfortune' /\ Named' /\ Begun'
    BY <1>1 DEF SlotInv, Counters, Misfortune, Named, Begun, Crash, Off, At
  <1>4. ASSUME NEW k \in Turns PROVE Fit(k)'
    <2>1. Fit(k) /\ run'[k].at = "off" /\ run'[k].slot = "no" /\ run'[k].over = "no"
          /\ run'[k].says = "streaming"
      BY DEF SlotInv, Crash, Off
    <2> QED BY <1>1, <1>2, <1>3, <2>1 DEF Fit, Bound, Held, Answering, Sent, Works, Live, At, Admitted
  <1> QED BY <1>2, <1>3, <1>4 DEF SlotInv

LEMMA SlotInvNext == SlotInv /\ [Next]_vars => SlotInv'
  <1> SUFFICES ASSUME SlotInv, [Next]_vars PROVE SlotInv'
    OBVIOUS
  <1>1. Inv'
    BY InvNext DEF SlotInv
  <1>2. ASSUME NEW k \in Turns, RunnerStep(k) PROVE SlotInv'
    BY <1>1, <1>2, OpenHolds, RecoverThreadHolds, RegisterHolds, EnqueueHolds, QueueLeftHolds,
       ResumeHolds, StartThreadHolds, AskThreadHolds, ThreadAnsweredHolds, PrepareHolds,
       ArmHolds, DispatchHolds, SendHolds, AnsweredHolds, AnsweredLateHolds, TurnCompletedHolds,
       ReconcileHolds, InterruptHolds, RetryHolds, FinallyHolds, CloseHolds DEF RunnerStep
  <1>3. ASSUME NEW k \in Turns, Trouble(k) PROVE SlotInv'
    BY <1>1, <1>3, QueueLeftHolds, GivingUpHolds, InterruptHolds DEF Trouble
  <1>4. ASSUME NEW k \in Turns, User(k) PROVE SlotInv'
    BY <1>1, <1>4, BeginHolds, ReopenHolds, StopHolds, ControlStopHolds DEF User
  <1>5. CASE UNCHANGED vars
    BY <1>1, <1>5 DEF vars, SlotInv, Counters, Named, Begun, Slotted, Fit, Bound, Held, Answering,
       Sent, Works, Live, At, Misfortune
  <1> QED BY <1>1, <1>2, <1>3, <1>4, <1>5, FlushHolds, CodexStepHolds, CrashHolds DEF Next

(* Work that was sent to Codex and may still go on holds a slot of the      *)
(* installation's queue, unless the server was told that it is over, and an *)
(* answered turn without misfortune gave its slot back: acquire, the        *)
(* releasing finally of the runner and every way out of it.                 *)
THEOREM WorkIsHeld == Spec => []WorkHoldsItsTicket
  <1>1. Spec => []SlotInv
    BY SlotInvInit, SlotInvNext, PTL DEF Spec
  <1> QED BY <1>1, SlotInvHolds, PTL

=============================================================================
