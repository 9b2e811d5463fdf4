----------------------- MODULE WorkerRegistry_proofs -----------------------
(***************************************************************************)
(* For any users, callers, slots, generations and bounds: one call at a    *)
(* time drives the worker of a user, an operator who was told that the     *)
(* installation is in maintenance was told the truth, in maintenance no    *)
(* worker is being started or recovered, every start slot is accounted for *)
(* and no process is left over.                                            *)
(***************************************************************************)
EXTENDS WorkerRegistry, SequenceTheorems, FiniteSetTheorems, TLAPS

Entries == [runtime : 0..MaxGenerations, handle : 0..MaxGenerations,
            start : Callers \union {Nobody}, stop : {"none", "waiting", "closing"}]
CallerStates == [at : {"idle", "stopping", "again", "joined"} \union Drives,
                 user : Users \union {Nobody}]

Shape ==
  /\ entry \in [Users -> Entries]
  /\ caller \in [Callers -> CallerStates]
  /\ queue \in Seq(Callers)
  /\ \A c \in Callers : ~At(c, "idle") => User(c) \in Users

\* The registry names the one call that drives the worker of a user, and a
\* caller in the queue waits there, once.
Driver(c) == entry[User(c)].start = c
Drivers == \A c \in Callers : caller[c].at \in Drives => Driver(c)
Line ==
  /\ \A i \in DOMAIN queue : At(queue[i], "queued")
  /\ \A i, j \in DOMAIN queue : queue[i] = queue[j] => i = j

DriveInv == Shape /\ Drivers /\ Line

\* Maintenance is empty, and the operator's knowledge agrees with the phase.
GateInv ==
  /\ phase \in {"accepting", "draining", "maintenance"}
  /\ phase = "maintenance" => activities = {}
  /\ drain = "entered" => phase = "maintenance"
  /\ drain = "waiting" => phase = "draining"

\* Whoever may make, retire or end a generation holds an activity.
Covered(c) == HasTurn(c) \/ Admission(c) \in activities
Cover == \A c \in Callers : caller[c].at \in AtWork => Covered(c)

----------------------------------------------------------------------------
(* The maintenance gate.                                                   *)

GateStep ==
  \/ UNCHANGED maintenance
  \/ \E a : Acquire(a)
  \/ \E S : ReleaseAll(S)
  \/ Enter \/ DrainTimesOut \/ Resume

LEMMA GateSteps == [Next]_vars => GateStep
  <1>1. ASSUME NEW c \in Callers, CallStep(c) PROVE GateStep
    BY <1>1 DEF CallStep, StartAgain, Begin, Admitted, Refused, Ended, Settle, AskHealth, Recover, Gate,
       Provision, Create, Connect, Connected, Undo, GateStep
  <1>2. ASSUME NEW c \in Callers, TurnBegins(c) \/ TurnEnds(c) \/ \E u \in Users : Start(c, u)
        PROVE  GateStep
    BY <1>2 DEF TurnBegins, TurnEnds, Start, Begin, Admitted, GateStep
  <1>3. ASSUME NEW u \in Users, Stop(u) \/ StopProceeds(u) \/ StopEnds(u) PROVE GateStep
    BY <1>3 DEF Stop, StopProceeds, StopEnds, GateStep
  <1>4. ASSUME \/ \E g \in Generations : Gateway(g)
               \/ Close \/ CloseEnds \/ Maintenance \/ UNCHANGED vars
        PROVE  GateStep
    BY <1>4 DEF Gateway, Close, CloseEnds, Maintenance, vars, maintenance, GateStep
  <1> QED BY <1>1, <1>2, <1>3, <1>4 DEF Next

LEMMA GateInit == Init => GateInv
  BY DEF Init, MaintenanceInit, GateInv

LEMMA GateNext == GateInv /\ [Next]_vars => GateInv'
  <1> SUFFICES ASSUME GateInv, GateStep PROVE GateInv'
    BY GateSteps
  <1> QED BY DEF GateStep, GateInv, maintenance, Acquire, ReleaseAll, Enter, DrainTimesOut, Resume

\* The operator who was told that the installation is in maintenance can rely
\* on it until it is resumed, for any activities (maintenance.ts:115-222).
THEOREM OperatorIsToldTheTruth == Spec => []ToldTheTruth
  <1>1. GateInv => ToldTheTruth
    BY DEF GateInv, ToldTheTruth
  <1> QED BY GateInit, GateNext, <1>1, PTL DEF Spec

----------------------------------------------------------------------------
(* Who drives.                                                             *)

StartsKept == entry' \in [Users -> Entries] /\ \A u \in Users : entry'[u].start = entry[u].start

\* One entry changes, but not who starts its worker.
LEMMA OneEntryMoves ==
  ASSUME entry \in [Users -> Entries], NEW u \in Users, NEW x \in Entries, x.start = entry[u].start,
         entry' = [entry EXCEPT ![u] = x]
  PROVE  StartsKept
  BY DEF StartsKept

LEMMA Apart ==
  /\ Nobody \notin Users /\ Nobody \notin Callers
  /\ AtWork \subseteq Drives /\ InSlot \subseteq AtWork /\ "queued" \in Drives /\ "queued" \notin InSlot
  /\ \A p \in {"idle", "stopping", "again", "joined"} : p \notin Drives
  BY RegistryAssumption DEF AtWork, Drives, InSlot

\* c goes on, or does something that is no driving.
LEMMA DriveGoes ==
  ASSUME DriveInv, NEW c \in Callers, NEW p \in {"idle", "stopping", "again", "joined"} \union Drives,
         NEW u \in Users \union {Nobody},
         caller' = [caller EXCEPT ![c] = [at |-> p, user |-> u]], UNCHANGED queue,
         entry' \in [Users -> Entries], ~At(c, "queued"), p # "queued", p # "idle" => u \in Users,
         p \in Drives => entry'[u].start = c,
         \A d \in Callers \ {c} : caller[d].at \in Drives => entry'[User(d)].start = entry[User(d)].start
  PROVE  DriveInv'
  <1>0. caller \in [Callers -> CallerStates] /\ queue \in Seq(Callers)
    BY DEF DriveInv, Shape
  <1>1. [at |-> p, user |-> u] \in CallerStates
    BY DEF CallerStates
  <1>2. caller'[c] = [at |-> p, user |-> u] /\ \A d \in Callers \ {c} : caller'[d] = caller[d]
    BY <1>0
  <1>3. Shape'
    <2>1. caller' \in [Callers -> CallerStates]
      BY <1>0, <1>1
    <2>2. \A d \in Callers : ~At(d, "idle")' => User(d)' \in Users
      BY <1>2 DEF DriveInv, Shape, At, User
    <2> QED BY <1>0, <2>1, <2>2 DEF Shape
  <1>4. Drivers'
    BY <1>2 DEF DriveInv, Drivers, Driver, User
  <1>5. Line'
    <2>1. \A i \in DOMAIN queue : queue[i] \in Callers
      BY <1>0
    <2> QED BY <1>2, <2>1 DEF DriveInv, Line, At
  <1> QED BY <1>3, <1>4, <1>5 DEF DriveInv

\* The start that c drives is over: nobody else drove that worker, and whoever
\* gets its slot was driving another.
LEMMA DriveSettles ==
  ASSUME DriveInv, NEW c \in Callers, NEW h \in BOOLEAN, Settle(c, h),
         caller[c].at \in Drives, ~At(c, "queued"),
         entry' \in [Users -> Entries],
         \A u \in Users \ {User(c)} : entry'[u].start = entry[u].start
  PROVE  DriveInv'
  <1>n. PICK n : n = NextInLine(h)
    OBVIOUS
  <1>0. /\ caller \in [Callers -> CallerStates] /\ queue \in Seq(Callers)
        /\ User(c) \in Users /\ entry[User(c)].start = c
    BY Apart DEF DriveInv, Shape, Drivers, Driver, At
  <1>1. n # Nobody => queue # << >> /\ n = Head(queue) /\ n \in Callers /\ At(n, "queued") /\ n # c
    <2>1. n # Nobody => queue # << >> /\ n = Head(queue)
      BY <1>n DEF NextInLine
    <2>2. queue # << >> => Head(queue) = queue[1] /\ 1 \in DOMAIN queue /\ queue[1] \in Callers
      BY <1>0
    <2> QED BY <2>1, <2>2 DEF DriveInv, Line
  <1>2. \A d \in Callers :
          caller'[d] = IF d = c \/ (At(d, "joined") /\ User(d) = User(c)) THEN [at |-> "idle", user |-> Nobody]
                       ELSE IF d = n THEN [caller[d] EXCEPT !.at = "provision"]
                       ELSE caller[d]
    BY <1>n DEF Settle
  <1>3. /\ [at |-> "idle", user |-> Nobody] \in CallerStates
        /\ \A d \in Callers : /\ [caller[d] EXCEPT !.at = "provision"] \in CallerStates
                              /\ [caller[d] EXCEPT !.at = "provision"].at = "provision"
                              /\ [caller[d] EXCEPT !.at = "provision"].user = User(d)
    BY <1>0 DEF CallerStates, Drives, AtWork, InSlot, User
  <1>4. caller' \in [Callers -> CallerStates]
    <2>1. \A d \in Callers : caller'[d] \in CallerStates
      BY <1>0, <1>2, <1>3
    <2>2. \E f : caller' = [d \in Callers |-> f[d]]
      <3> DEFINE f == caller'
      <3>1. caller' = [d \in Callers |-> f[d]]
        BY DEF Settle
      <3> QED BY <3>1
    <2> QED BY <2>1, <2>2
  <1>5. ASSUME NEW d \in Callers
        PROVE  /\ caller'[d].at \in Drives => caller[d].at \in Drives /\ d # c /\ User(d)' = User(d)
               /\ caller'[d].at # "idle" => User(d)' = User(d) /\ caller[d].at # "idle"
    <2>1. CASE d = c \/ (At(d, "joined") /\ User(d) = User(c))
      <3>1. caller'[d] = [at |-> "idle", user |-> Nobody]
        BY <1>2, <2>1
      <3>2. caller'[d].at = "idle"
        BY <3>1
      <3> QED BY <3>2, Apart
    <2>2. CASE ~(d = c \/ (At(d, "joined") /\ User(d) = User(c))) /\ d = n
      <3>1. caller'[d] = [caller[d] EXCEPT !.at = "provision"] /\ caller[d].at = "queued"
        BY <1>1, <1>2, <2>2, Apart DEF At
      <3>2. User(d)' = User(d)
        BY <1>3, <3>1 DEF User
      <3> QED BY <2>2, <3>1, <3>2, Apart
    <2>3. CASE ~(d = c \/ (At(d, "joined") /\ User(d) = User(c))) /\ d # n
      <3>1. caller'[d] = caller[d]
        BY <1>2, <2>3
      <3> QED BY <2>3, <3>1 DEF User
    <2> QED BY <2>1, <2>2, <2>3
  <1>6. queue' \in Seq(Callers) /\ queue' = IF n # Nobody THEN Tail(queue) ELSE queue
    <2>1. queue' = IF n # Nobody THEN Tail(queue) ELSE queue
      BY <1>n DEF Settle
    <2>2. queue # << >> => Tail(queue) \in Seq(Callers)
      BY <1>0
    <2> QED BY <1>0, <1>1, <2>1, <2>2
  <1>7. Shape'
    BY <1>4, <1>5, <1>6 DEF Shape, DriveInv, At
  <1>8. Drivers'
    <2> SUFFICES ASSUME NEW d \in Callers, caller'[d].at \in Drives PROVE entry'[User(d)'].start = d
      BY DEF Drivers, Driver
    <2>1. caller[d].at \in Drives /\ d # c /\ User(d)' = User(d) /\ User(d) \in Users
      BY <1>5, Apart DEF DriveInv, Shape, At
    <2>2. entry[User(d)].start = d
      BY <2>1 DEF DriveInv, Drivers, Driver
    <2> QED BY <1>0, <2>1, <2>2
  <1>9. Line'
    <2>1. CASE n = Nobody
      <3>1. queue' = queue
        BY <1>6, <2>1
      <3>2. \A i \in DOMAIN queue : queue[i] \in Callers
        BY <1>0
      <3>3. \A i \in DOMAIN queue : caller'[queue[i]].at = "queued"
        BY <1>2, <2>1, <3>2, Apart DEF DriveInv, Line, At
      <3> QED BY <3>1, <3>3 DEF DriveInv, Line, At
    <2>2. CASE n # Nobody
      <3>1. queue' = Tail(queue) /\ queue # << >> /\ n = queue[1]
        BY <1>0, <1>1, <1>6, <2>2
      <3>2. /\ DOMAIN queue = 1..Len(queue) /\ Len(queue) \in Nat
            /\ \A i \in DOMAIN queue' : i + 1 \in DOMAIN queue /\ queue'[i] = queue[i + 1] /\ i \in Nat /\ i + 1 # 1
        BY <1>0, <3>1
      <3>3. \A i \in DOMAIN queue' : queue'[i] \in Callers /\ caller[queue'[i]].at = "queued" /\ queue'[i] # n
        <4>1. 1 \in DOMAIN queue
          BY <1>0, <3>1
        <4>2. \A i \in DOMAIN queue : queue[i] \in Callers
          BY <1>0
        <4> QED BY <3>1, <3>2, <4>1, <4>2 DEF DriveInv, Line, At
      <3>4. \A i \in DOMAIN queue' : caller'[queue'[i]].at = "queued"
        BY <1>2, <3>3 DEF At
      <3>5. \A i, j \in DOMAIN queue' : queue'[i] = queue'[j] => i = j
        <4> SUFFICES ASSUME NEW i \in DOMAIN queue', NEW j \in DOMAIN queue', queue'[i] = queue'[j]
                     PROVE  i = j
          OBVIOUS
        <4>1. i + 1 = j + 1 /\ i \in Nat /\ j \in Nat
          BY <3>2 DEF DriveInv, Line
        <4> QED BY <4>1
      <3> QED BY <3>4, <3>5 DEF Line, At
    <2> QED BY <2>1, <2>2
  <1> QED BY <1>7, <1>8, <1>9 DEF DriveInv

\* c comes to the gate of the starts: it has a slot, is refused, or is the last
\* in the queue.
LEMMA DriveAtGate ==
  ASSUME DriveInv, NEW c \in Callers, NEW u \in Users, NEW e \in [Users -> Entries], Gate(c, u, e),
         ~At(c, "queued"), e[u].start = c,
         \A d \in Callers \ {c} : caller[d].at \in Drives => e[User(d)].start = entry[User(d)].start
  PROVE  DriveInv'
  <1>0. "provision" \in Drives /\ "refused" \in Drives /\ "queued" \in Drives /\ entry' = e
    BY DEF Gate, Drives, AtWork, InSlot
  <1>1. CASE /\ UNCHANGED queue
             /\ \/ caller' = [caller EXCEPT ![c] = [at |-> "provision", user |-> u]]
                \/ caller' = [caller EXCEPT ![c] = [at |-> "refused", user |-> u]]
    BY <1>0, <1>1, DriveGoes
  <1>2. CASE /\ queue' = Append(queue, c)
             /\ caller' = [caller EXCEPT ![c] = [at |-> "queued", user |-> u]]
    <2>0. caller \in [Callers -> CallerStates] /\ queue \in Seq(Callers)
      BY DEF DriveInv, Shape
    <2>1. [at |-> "queued", user |-> u] \in CallerStates
      BY <1>0 DEF CallerStates
    <2>2. caller'[c] = [at |-> "queued", user |-> u] /\ \A d \in Callers \ {c} : caller'[d] = caller[d]
      BY <1>2, <2>0
    <2>3. /\ DOMAIN queue = 1..Len(queue) /\ Len(queue) \in Nat
          /\ queue' \in Seq(Callers) /\ DOMAIN queue' = 1..(Len(queue) + 1)
          /\ \A i \in 1..Len(queue) : queue'[i] = queue[i] /\ queue[i] \in Callers \ {c}
          /\ queue'[Len(queue) + 1] = c
      BY <1>2, <2>0 DEF DriveInv, Line, At
    <2>4. Shape'
      <3>1. caller' \in [Callers -> CallerStates]
        BY <1>2, <2>0, <2>1
      <3>2. \A d \in Callers : ~At(d, "idle")' => User(d)' \in Users
        BY <2>2 DEF DriveInv, Shape, At, User
      <3> QED BY <1>0, <2>3, <3>1, <3>2 DEF Shape
    <2>5. Drivers'
      BY <1>0, <2>2 DEF DriveInv, Drivers, Driver, User
    <2>6. Line'
      <3>1. \A i \in DOMAIN queue' : caller'[queue'[i]].at = "queued"
        <4> SUFFICES ASSUME NEW i \in DOMAIN queue' PROVE caller'[queue'[i]].at = "queued"
          OBVIOUS
        <4>1. CASE i = Len(queue) + 1
          BY <2>2, <2>3, <4>1
        <4>2. CASE i \in 1..Len(queue)
          BY <2>2, <2>3, <4>2 DEF DriveInv, Line, At
        <4> QED BY <2>3, <4>1, <4>2
      <3>2. \A i, j \in DOMAIN queue' : queue'[i] = queue'[j] => i = j
        BY <2>3 DEF DriveInv, Line
      <3> QED BY <3>1, <3>2 DEF Line, At
    <2> QED BY <2>4, <2>5, <2>6 DEF DriveInv
  <1> QED BY <1>1, <1>2 DEF Gate

\* A call of start that has not driven anything yet.
LEMMA DriveBegins ==
  ASSUME DriveInv, NEW c \in Callers, NEW u \in Users, Begin(c, u), At(c, "idle") \/ At(c, "again")
  PROVE  DriveInv'
  <1>0. /\ caller \in [Callers -> CallerStates] /\ entry \in [Users -> Entries]
        /\ ~At(c, "queued") /\ "health" \in Drives
    BY DEF DriveInv, Shape, At, Drives
  <1>1. ASSUME UNCHANGED <<entry, queue>>, NEW p \in {"idle", "stopping", "joined"},
               NEW v \in Users \union {Nobody}, p # "idle" => v \in Users,
               caller' = [caller EXCEPT ![c] = [at |-> p, user |-> v]]
        PROVE  DriveInv'
    BY <1>0, <1>1, DriveGoes, Apart
  <1>2. ASSUME ~Busy(u)
        PROVE  /\ [entry EXCEPT ![u].start = c] \in [Users -> Entries]
               /\ [entry EXCEPT ![u].start = c][u].start = c
               /\ \A d \in Callers : caller[d].at \in Drives =>
                    [entry EXCEPT ![u].start = c][User(d)].start = entry[User(d)].start
    <2>1. [entry EXCEPT ![u].start = c] \in [Users -> Entries]
      BY <1>0 DEF Entries
    <2>2. \A d \in Callers : caller[d].at \in Drives => User(d) \in Users /\ User(d) # u
      BY <1>2, Apart DEF DriveInv, Shape, Drivers, Driver, Busy, At
    <2> QED BY <1>0, <2>1, <2>2 DEF Entries
  <1>3. CASE ~Busy(u) /\ entry' = [entry EXCEPT ![u].start = c] /\ UNCHANGED queue
             /\ caller' = [caller EXCEPT ![c] = [at |-> "health", user |-> u]]
    BY <1>0, <1>2, <1>3, DriveGoes
  <1>4. CASE ~Busy(u) /\ Gate(c, u, [entry EXCEPT ![u].start = c])
    BY <1>0, <1>2, <1>4, DriveAtGate
  <1>5. CASE /\ UNCHANGED <<entry, queue>>
             /\ caller' = [caller EXCEPT ![c] = [at |-> "idle", user |-> Nobody]]
    BY <1>1, <1>5
  <1>6. CASE /\ UNCHANGED <<entry, queue>>
             /\ caller' = [caller EXCEPT ![c] =
                  [at |-> IF entry[u].stop # "none" THEN "stopping" ELSE "joined", user |-> u]]
    <2>1. CASE entry[u].stop # "none"
      BY <1>1, <1>6, <2>1
    <2>2. CASE entry[u].stop = "none"
      BY <1>1, <1>6, <2>2
    <2> QED BY <2>1, <2>2
  <1> QED BY <1>3, <1>4, <1>5, <1>6 DEF Begin

\* c goes on driving.
LEMMA DriveOn ==
  ASSUME DriveInv, NEW c \in Callers, NEW p \in Drives, Go(c, p), UNCHANGED queue,
         entry' \in [Users -> Entries], caller[c].at \in Drives, ~At(c, "queued"), p # "queued",
         \A u \in Users : entry'[u].start = entry[u].start
  PROVE  DriveInv'
  <1>1. caller \in [Callers -> CallerStates] /\ User(c) \in Users /\ entry[User(c)].start = c
    BY Apart DEF DriveInv, Shape, Drivers, Driver, At
  <1>2. caller' = [caller EXCEPT ![c] = [at |-> p, user |-> User(c)]]
    <2>1. caller[c] \in CallerStates
      BY <1>1
    <2>2. [caller[c] EXCEPT !.at = p] = [at |-> p, user |-> User(c)]
      BY <2>1 DEF CallerStates, User
    <2>3. caller' = [caller EXCEPT ![c] = [caller[c] EXCEPT !.at = p]]
      BY DEF Go
    <2> QED BY <2>2, <2>3
  <1>3. \A d \in Callers : caller[d].at \in Drives => User(d) \in Users
    BY Apart DEF DriveInv, Shape, At
  <1> QED BY <1>1, <1>2, <1>3, DriveGoes

\* What changes no driver, and no caller but to answer it.
LEMMA DriveKept ==
  ASSUME DriveInv, StartsKept, NEW u \in Users, NEW p \in {"idle", "again"},
         UNCHANGED queue, UNCHANGED caller \/ Answer(u, p)
  PROVE  DriveInv'
  <1>0. caller \in [Callers -> CallerStates] /\ queue \in Seq(Callers)
    BY DEF DriveInv, Shape
  <1>1. CASE UNCHANGED caller
    <2>1. \A d \in Callers : caller[d].at \in Drives => User(d) \in Users
      BY Apart DEF DriveInv, Shape, At
    <2> QED BY <1>0, <1>1, <2>1 DEF DriveInv, Shape, Drivers, Driver, Line, At, User, StartsKept
  <1>2. CASE Answer(u, p)
    <2>1. \A d \in Callers :
            /\ ~At(d, "stopping") => caller'[d] = caller[d]
            /\ At(d, "stopping") => \/ caller'[d] = caller[d]
                                   \/ caller'[d] = [at |-> "idle", user |-> Nobody]
                                   \/ caller'[d] = [at |-> "again", user |-> User(d)]
      BY <1>0, <1>2 DEF Answer, CallerStates, User
    <2>2. ASSUME NEW d \in Callers
          PROVE  /\ caller'[d] \in CallerStates
                 /\ caller'[d].at # "idle" => caller'[d].user \in Users
                 /\ caller'[d].at \in Drives => caller'[d] = caller[d]
      <3>0. caller[d] \in CallerStates /\ (caller[d].at # "idle" => caller[d].user \in Users)
        BY <1>0 DEF DriveInv, Shape, At, User
      <3>1. CASE caller'[d] = caller[d]
        BY <3>0, <3>1
      <3>2. CASE caller'[d] = [at |-> "idle", user |-> Nobody]
        <4>1. caller'[d].at = "idle" /\ caller'[d] \in CallerStates
          BY <3>2 DEF CallerStates
        <4> QED BY <4>1, Apart
      <3>3. CASE At(d, "stopping") /\ caller'[d] = [at |-> "again", user |-> User(d)]
        <4>1. caller'[d].at = "again" /\ caller'[d].user = User(d) /\ User(d) \in Users
          BY <3>0, <3>3 DEF At, User
        <4>2. caller'[d] \in CallerStates
          BY <3>3, <4>1 DEF CallerStates
        <4> QED BY <4>1, <4>2, Apart
      <3> QED BY <2>1, <3>1, <3>2, <3>3
    <2>3. caller' \in [Callers -> CallerStates]
      BY <1>2, <2>2 DEF Answer
    <2>5. Drivers'
      <3>1. \A d \in Callers : caller[d].at \in Drives => User(d) \in Users
        BY Apart DEF DriveInv, Shape, At
      <3> QED BY <2>2, <3>1 DEF DriveInv, Drivers, Driver, User, StartsKept
    <2>6. Line'
      <3>1. \A i \in DOMAIN queue : queue[i] \in Callers /\ ~At(queue[i], "stopping")
        BY <1>0 DEF DriveInv, Line, At
      <3> QED BY <2>1, <3>1 DEF DriveInv, Line, At
    <2>7. Shape'
      BY <1>0, <2>2, <2>3 DEF Shape, StartsKept, At, User
    <2> QED BY <2>5, <2>6, <2>7 DEF DriveInv
  <1> QED BY <1>1, <1>2

\* A start under way goes on or ends.
LEMMA DriveWorks ==
  ASSUME DriveInv, NEW c \in Callers,
         Refused(c) \/ AskHealth(c) \/ Recover(c) \/ Provision(c) \/ Create(c) \/ Connect(c) \/ Connected(c) \/ Undo(c)
  PROVE  DriveInv'
  <1> DEFINE u == User(c)
  <1>1. /\ caller[c].at \in Drives /\ ~At(c, "queued") /\ u \in Users /\ entry[u].start = c
        /\ Shape /\ entry \in [Users -> Entries] /\ entry[u] \in Entries
    <2>1. caller[c].at \in Drives /\ ~At(c, "queued") /\ ~At(c, "idle")
      BY DEF Refused, AskHealth, Recover, Provision, Create, Connect, Connected, Undo, At, Drives, AtWork, InSlot
    <2> QED BY <2>1 DEF DriveInv, Shape, Drivers, Driver
  <1>2. {"recover", "create", "gateway", "connect", "undo"} \subseteq Drives /\ FALSE \in BOOLEAN /\ TRUE \in BOOLEAN
    BY DEF Drives, AtWork, InSlot
  <1>3. ASSUME NEW b \in BOOLEAN, Settle(c, b), entry' \in [Users -> Entries],
               \A v \in Users \ {u} : entry'[v] = entry[v]
        PROVE  DriveInv'
    BY <1>1, <1>3, DriveSettles
  <1>4. ASSUME NEW b \in BOOLEAN, Ended(c, b) PROVE DriveInv'
    <2>1. entry' \in [Users -> Entries] /\ \A v \in Users \ {u} : entry'[v] = entry[v]
      BY <1>1, <1>4 DEF Ended, Entries
    <2> QED BY <1>3, <1>4, <2>1 DEF Ended
  <1>5. ASSUME NEW p \in {"recover", "create", "gateway", "connect", "undo"}, Go(c, p), UNCHANGED <<entry, queue>>
        PROVE  DriveInv'
    BY <1>1, <1>2, <1>5, DriveOn
  <1>6. CASE Refused(c)
    BY <1>2, <1>4, <1>6 DEF Refused
  <1>7. CASE AskHealth(c)
    BY <1>2, <1>4, <1>5, <1>7 DEF AskHealth
  <1>8. CASE Recover(c)
    <2>1. /\ 0 \in 0..MaxGenerations
          /\ entry[u].runtime \in 0..MaxGenerations /\ entry[u].handle \in 0..MaxGenerations
      BY <1>1, RegistryAssumption DEF Entries
    <2>2. CASE Settle(c, FALSE) /\ entry' = [entry EXCEPT ![u].handle = 0, ![u].start = Nobody]
      <3>1. entry' \in [Users -> Entries] /\ \A v \in Users \ {u} : entry'[v] = entry[v]
        BY <1>1, <2>1, <2>2 DEF Entries
      <3> QED BY <1>2, <1>3, <2>2, <3>1
    <2>3. CASE /\ Settle(c, FALSE)
               /\ entry' = [entry EXCEPT ![u].handle = 0, ![u].runtime = 0, ![u].start = Nobody]
      <3>1. entry' \in [Users -> Entries] /\ \A v \in Users \ {u} : entry'[v] = entry[v]
        BY <1>1, <2>1, <2>3 DEF Entries
      <3> QED BY <1>2, <1>3, <2>3, <3>1
    <2>4. CASE Gate(c, u, [entry EXCEPT ![u].handle = 0, ![u].runtime = 0])
      <3> DEFINE e == [entry EXCEPT ![u].handle = 0, ![u].runtime = 0]
      <3>1. e \in [Users -> Entries] /\ \A v \in Users : e[v].start = entry[v].start
        BY <1>1, <2>1 DEF Entries
      <3>2. \A d \in Callers : caller[d].at \in Drives => User(d) \in Users
        BY Apart DEF DriveInv, Shape, At
      <3>3. \A d \in Callers \ {c} : caller[d].at \in Drives => e[User(d)].start = entry[User(d)].start
        BY <3>1, <3>2
      <3>4. e[u].start = c /\ Gate(c, u, e)
        BY <1>1, <2>4, <3>1
      <3> HIDE DEF e, u
      <3> QED BY <1>1, <3>1, <3>3, <3>4, DriveAtGate
    <2> QED BY <1>8, <2>2, <2>3, <2>4 DEF Recover
  <1>9. CASE Provision(c)
    BY <1>2, <1>4, <1>5, <1>9 DEF Provision
  <1>10. CASE Create(c)
    <2>1. CASE Ended(c, TRUE)
      BY <1>2, <1>4, <2>1
    <2>2. ASSUME NEW g \in Generations, entry' = [entry EXCEPT ![u].runtime = g],
                 Go(c, "gateway"), UNCHANGED queue
          PROVE  DriveInv'
      <3>1. g \in 0..MaxGenerations
        BY RegistryAssumption DEF Generations
      <3>2. entry' \in [Users -> Entries] /\ \A v \in Users : entry'[v].start = entry[v].start
        BY <1>1, <2>2, <3>1 DEF Entries
      <3> QED BY <1>1, <1>2, <2>2, <3>2, DriveOn
    <2> QED BY <1>10, <2>1, <2>2 DEF Create
  <1>11. CASE Connect(c)
    BY <1>5, <1>11 DEF Connect
  <1>12. CASE Connected(c)
    <2>1. CASE Settle(c, TRUE) /\ entry' = [entry EXCEPT ![u].handle = Runtime(c), ![u].start = Nobody]
      <3>1. entry' \in [Users -> Entries] /\ \A v \in Users \ {u} : entry'[v] = entry[v]
        BY <1>1, <2>1 DEF Entries, Runtime
      <3> QED BY <1>2, <1>3, <2>1, <3>1
    <2> QED BY <1>5, <1>12, <2>1 DEF Connected
  <1>13. CASE Undo(c)
    <2>1. CASE entry' = [entry EXCEPT ![u].start = Nobody]
      BY <1>2, <1>4, <1>13, <2>1 DEF Undo, Ended
    <2>2. CASE entry' = [entry EXCEPT ![u].runtime = 0, ![u].start = Nobody]
      <3>1. entry' \in [Users -> Entries] /\ \A v \in Users \ {u} : entry'[v] = entry[v]
        <4>1. 0 \in 0..MaxGenerations
          BY RegistryAssumption
        <4> QED BY <1>1, <2>2, <4>1 DEF Entries
      <3> QED BY <1>2, <1>3, <1>13, <3>1 DEF Undo
    <2> QED BY <1>13, <2>1, <2>2 DEF Undo
  <1> QED BY <1>6, <1>7, <1>8, <1>9, <1>10, <1>11, <1>12, <1>13

LEMMA StartsAreKept ==
  ASSUME DriveInv, NEW S \in SUBSET Users, entry' = Asked(S)
  PROVE  StartsKept
  <1>1. entry \in [Users -> Entries]
    BY DEF DriveInv, Shape
  <1>2. \A u \in Users : Stopping(u) \in {"none", "waiting", "closing"}
    BY DEF Stopping
  <1>3. \A u \in Users : entry'[u] \in Entries /\ entry'[u].start = entry[u].start
    <2> SUFFICES ASSUME NEW u \in Users PROVE entry'[u] \in Entries /\ entry'[u].start = entry[u].start
      OBVIOUS
    <2>1. entry[u] \in Entries /\ (entry'[u] = entry[u] \/ entry'[u] = [entry[u] EXCEPT !.stop = Stopping(u)])
      BY <1>1 DEF Asked
    <2> QED BY <1>2, <2>1 DEF Entries
  <1>4. entry' \in [Users -> Entries]
    BY <1>3 DEF Asked
  <1> QED BY <1>3, <1>4 DEF StartsKept

LEMMA DriveInit == Init => DriveInv
  <1> SUFFICES ASSUME Init PROVE DriveInv
    OBVIOUS
  <1>1. \A u \in Users : entry[u] \in Entries
    BY RegistryAssumption DEF Init, Entries
  <1>2. \A c \in Callers : caller[c] \in CallerStates /\ caller[c].at = "idle"
    BY DEF Init, CallerStates
  <1>3. Shape
    BY <1>1, <1>2 DEF Init, Shape, At
  <1>4. Drivers /\ Line
    BY <1>2, Apart DEF Init, Drivers, Line
  <1> QED BY <1>3, <1>4 DEF DriveInv

LEMMA DriveNext == DriveInv /\ [Next]_vars => DriveInv'
  <1> SUFFICES ASSUME DriveInv, [Next]_vars PROVE DriveInv'
    OBVIOUS
  <1>0. /\ entry \in [Users -> Entries] /\ caller \in [Callers -> CallerStates] /\ queue \in Seq(Callers)
        /\ \A u \in Users : entry[u] \in Entries
    BY DEF DriveInv, Shape
  <1>1. CASE UNCHANGED <<entry, caller, queue>>
    BY <1>1 DEF DriveInv, Shape, Drivers, Driver, Line, At, User
  <1>2. ASSUME NEW c \in Callers, CallStep(c) PROVE DriveInv'
    <2>1. CASE StartAgain(c)
      BY <2>1, DriveBegins DEF StartAgain, DriveInv, Shape, At
    <2> QED BY <1>2, <2>1, DriveWorks DEF CallStep
  <1>3. ASSUME NEW c \in Callers, NEW u \in Users, Start(c, u) PROVE DriveInv'
    BY <1>3, DriveBegins DEF Start
  <1>4. ASSUME NEW u \in Users, Stop(u) PROVE DriveInv'
    <2>1. StartsKept
      BY <1>4, StartsAreKept DEF Stop
    <2> QED BY <1>4, <2>1, DriveKept DEF Stop
  <1>5. ASSUME NEW u \in Users, StopProceeds(u) PROVE DriveInv'
    <2>1. StartsKept
      <3>1. 0 \in 0..MaxGenerations /\ Stopping(u) \in {"none", "waiting", "closing"}
        BY RegistryAssumption DEF Stopping
      <3> DEFINE h == IF entry[u].runtime = 0 THEN 0 ELSE entry[u].handle
                 x == [entry[u] EXCEPT !.stop = Stopping(u), !.handle = h]
      <3>2. x \in Entries /\ x.start = entry[u].start
        BY <1>0, <3>1 DEF Entries
      <3>3. entry' = [entry EXCEPT ![u] = x]
        BY <1>5 DEF StopProceeds
      <3> HIDE DEF x
      <3> QED BY <1>0, <3>2, <3>3, OneEntryMoves
    <2> QED BY <1>5, <2>1, DriveKept DEF StopProceeds
  <1>6. ASSUME NEW u \in Users, StopEnds(u) PROVE DriveInv'
    <2>1. StartsKept
      <3>1. 0 \in 0..MaxGenerations
        BY RegistryAssumption
      <3>2. PICK r \in {0, entry[u].runtime} :
              entry' = [entry EXCEPT ![u] = [entry[u] EXCEPT !.stop = "none", !.handle = 0, !.runtime = r]]
        <4>1. entry[u] \in Entries
          BY <1>0
        <4>2. [entry[u] EXCEPT !.stop = "none", !.handle = 0, !.runtime = entry[u].runtime]
                = [entry[u] EXCEPT !.stop = "none", !.handle = 0]
          BY <4>1 DEF Entries
        <4>3. CASE entry' = [entry EXCEPT ![u].stop = "none", ![u].handle = 0]
          BY <1>0, <4>2, <4>3
        <4>4. CASE entry' = [entry EXCEPT ![u].stop = "none", ![u].handle = 0, ![u].runtime = 0]
          BY <1>0, <4>4
        <4> QED BY <1>6, <4>3, <4>4 DEF StopEnds
      <3> DEFINE x == [entry[u] EXCEPT !.stop = "none", !.handle = 0, !.runtime = r]
      <3>3. x \in Entries /\ x.start = entry[u].start
        BY <1>0, <3>1 DEF Entries
      <3>4. entry' = [entry EXCEPT ![u] = x]
        BY <3>2
      <3> HIDE DEF x
      <3> QED BY <1>0, <3>3, <3>4, OneEntryMoves
    <2> QED BY <1>6, <2>1, DriveKept DEF StopEnds
  <1>7. CASE Close
    <2>1. StartsKept
      BY <1>7, StartsAreKept DEF Close
    <2>2. \A c \in Callers : caller'[c] = IF At(c, "queued") THEN [caller[c] EXCEPT !.at = "refused"] ELSE caller[c]
      BY <1>7 DEF Close
    <2>3. ASSUME NEW c \in Callers
          PROVE  /\ caller'[c] \in CallerStates /\ User(c)' = User(c)
                 /\ caller'[c].at # "idle" => caller[c].at # "idle"
                 /\ caller'[c].at \in Drives => caller[c].at \in Drives
      <3>1. caller[c] \in CallerStates /\ "refused" \in Drives
        BY <1>0 DEF Drives, AtWork
      <3>2. CASE At(c, "queued")
        <4>1. caller'[c] = [caller[c] EXCEPT !.at = "refused"]
          BY <2>2, <3>2
        <4> QED BY <3>1, <3>2, <4>1, Apart DEF CallerStates, At, User
      <3>3. CASE ~At(c, "queued")
        BY <2>2, <3>1, <3>3 DEF User
      <3> QED BY <3>2, <3>3
    <2>4. Shape'
      <3>1. caller' \in [Callers -> CallerStates]
        BY <1>7, <2>3 DEF Close
      <3>2. queue' \in Seq(Callers)
        BY <1>7 DEF Close
      <3> QED BY <2>1, <2>3, <3>1, <3>2 DEF StartsKept, DriveInv, Shape, At
    <2>5. Drivers'
      <3>1. \A c \in Callers : caller[c].at \in Drives => User(c) \in Users
        BY Apart DEF DriveInv, Shape, At
      <3> QED BY <2>1, <2>3, <3>1 DEF DriveInv, Drivers, Driver, StartsKept
    <2>6. Line'
      BY <1>7 DEF Close, Line
    <2> QED BY <2>4, <2>5, <2>6 DEF DriveInv
  <1>8. ASSUME \/ \E c \in Callers : TurnBegins(c) \/ TurnEnds(c)
               \/ \E g \in Generations : Gateway(g)
               \/ CloseEnds \/ Maintenance \/ UNCHANGED vars
        PROVE  DriveInv'
    BY <1>1, <1>8 DEF TurnBegins, TurnEnds, Gateway, CloseEnds, Maintenance, registry, vars
  <1> QED BY <1>2, <1>3, <1>4, <1>5, <1>6, <1>7, <1>8 DEF Next

\* At most one call drives the worker of a user, also after the stop several
\* were waiting for, for any users and callers (registry.ts:227-239).
THEOREM WorkerHasOneDriver == Spec => []OneDriver
  <1>1. DriveInv => OneDriver
    BY DEF DriveInv, Drivers, Driver, OneDriver
  <1> QED BY DriveInit, DriveNext, <1>1, PTL DEF Spec

----------------------------------------------------------------------------
(* What is covered by an activity.                                         *)

\* c does what it does and no activity ends.
LEMMA CoverStep ==
  ASSUME Cover, DriveInv, NEW c \in Callers, NEW r, caller' = [caller EXCEPT ![c] = r],
         activities \subseteq activities', r.at \in AtWork => Covered(c)'
  PROVE  Cover'
  <1>1. caller \in [Callers -> CallerStates]
    BY DEF DriveInv, Shape
  <1>2. \A d \in Callers \ {c} : caller'[d] = caller[d]
    BY <1>1
  <1>3. caller'[c] = r
    BY <1>1
  <1> QED BY <1>2, <1>3 DEF Cover, Covered, HasTurn

\* Nobody comes to work and only c, that ends, loses an activity.
LEMMA CoverEnds ==
  ASSUME Cover, DriveInv, NEW c \in Callers, NEW h \in BOOLEAN, Settle(c, h)
  PROVE  Cover'
  <1>1. \A d \in Callers :
          /\ d = c \/ (At(d, "joined") /\ User(d) = User(c)) => caller'[d] = [at |-> "idle", user |-> Nobody]
          /\ d # c /\ ~(At(d, "joined") /\ User(d) = User(c)) =>
               caller'[d] = caller[d] \/ NextInLine(h) = d
    BY DEF Settle
  <1>2. ASSUME NEW d \in Callers, caller'[d].at \in AtWork
        PROVE  d # c /\ caller[d].at \in AtWork
    <2>1. ~(d = c \/ (At(d, "joined") /\ User(d) = User(c)))
      <3> SUFFICES ASSUME d = c \/ (At(d, "joined") /\ User(d) = User(c)) PROVE FALSE
        OBVIOUS
      <3>1. caller'[d] = [at |-> "idle", user |-> Nobody]
        BY <1>1
      <3>2. caller'[d].at = "idle"
        BY <3>1
      <3> QED BY <1>2, <3>2, Apart
    <2>2. CASE NextInLine(h) = d
      <3>1. queue \in Seq(Callers) /\ queue # << >> /\ d = Head(queue)
        BY <2>2, Apart DEF NextInLine, DriveInv, Shape
      <3>2. d = queue[1] /\ 1 \in DOMAIN queue
        BY <3>1
      <3>3. caller[d].at = "queued"
        BY <3>2 DEF DriveInv, Line, At
      <3> QED BY <2>1, <3>3 DEF AtWork
    <2> QED BY <1>1, <1>2, <2>1, <2>2
  <1>3. activities' = activities \ {Admission(c)}
    BY DEF Settle, ReleaseAll
  <1>4. \A d \in Callers : d # c => Admission(d) # Admission(c) /\ Turn(d) # Admission(c)
    BY DEF Admission, Turn
  <1> QED BY <1>2, <1>3, <1>4 DEF Cover, Covered, HasTurn

LEMMA AdmittedCovers ==
  ASSUME NEW c \in Callers, Admitted(c)
  PROVE  activities \subseteq activities' /\ Covered(c)'
  BY DEF Admitted, Covered, HasTurn, Acquire, maintenance

LEMMA CoverBegins ==
  ASSUME Cover, DriveInv, NEW c \in Callers, NEW u, Begin(c, u)
  PROVE  Cover'
  <1>1. ASSUME NEW p \in {"idle", "stopping", "joined", "health"}, NEW v,
               caller' = [caller EXCEPT ![c] = [at |-> p, user |-> v]], activities' = activities
        PROVE  Cover'
    <2>1. [at |-> p, user |-> v].at \notin AtWork
      BY DEF AtWork, InSlot
    <2> QED BY <1>1, <2>1, CoverStep
  <1>2. ASSUME NEW e, Gate(c, u, e), Admitted(c) PROVE Cover'
    BY <1>2, AdmittedCovers, CoverStep DEF Gate
  <1> QED BY <1>1, <1>2 DEF Begin, maintenance

LEMMA CoverWorks ==
  ASSUME Cover, DriveInv, NEW c \in Callers, CallStep(c)
  PROVE  Cover'
  <1>0. caller \in [Callers -> CallerStates] /\ FALSE \in BOOLEAN /\ TRUE \in BOOLEAN
    BY DEF DriveInv, Shape
  <1>1. ASSUME NEW h \in BOOLEAN, Ended(c, h) PROVE Cover'
    BY <1>1, CoverEnds DEF Ended
  <1>2. ASSUME NEW p, Go(c, p), activities' = activities, caller[c].at \in AtWork PROVE Cover'
    <2>1. caller' = [caller EXCEPT ![c] = [caller[c] EXCEPT !.at = p]]
      BY <1>2 DEF Go
    <2>2. Covered(c)'
      BY <1>2 DEF Cover, Covered, HasTurn
    <2> QED BY <1>2, <2>1, <2>2, CoverStep
  <1>3. ASSUME NEW u, NEW e, Gate(c, u, e), activities \subseteq activities', Covered(c)' PROVE Cover'
    BY <1>3, CoverStep DEF Gate
  <1>4. Admitted(c) => activities \subseteq activities' /\ Covered(c)'
    BY AdmittedCovers
  <1>5. CASE StartAgain(c)
    BY <1>5, CoverBegins DEF StartAgain
  <1>6. CASE Refused(c)
    BY <1>0, <1>1, <1>6 DEF Refused
  <1>7. CASE AskHealth(c)
    <2>1. CASE Go(c, "recover") /\ Admitted(c)
      <3>1. caller' = [caller EXCEPT ![c] = [caller[c] EXCEPT !.at = "recover"]]
        BY <2>1 DEF Go
      <3> QED BY <1>4, <2>1, <3>1, CoverStep
    <2> QED BY <1>0, <1>1, <1>7, <2>1 DEF AskHealth
  <1>8. CASE Recover(c)
    <2>1. caller[c].at \in AtWork
      BY <1>8 DEF Recover, At, AtWork
    <2>2. UNCHANGED maintenance => activities \subseteq activities' /\ Covered(c)'
      BY <2>1 DEF Cover, Covered, HasTurn, maintenance
    <2> QED BY <1>0, <1>3, <1>8, <2>2, CoverEnds DEF Recover
  <1>9. CASE Provision(c) \/ Create(c) \/ Connect(c)
    <2>1. caller[c].at \in AtWork
      BY <1>9 DEF Provision, Create, Connect, At, AtWork, InSlot
    <2> QED BY <1>0, <1>1, <1>2, <1>9, <2>1 DEF Provision, Create, Connect, maintenance
  <1>10. CASE Connected(c) \/ Undo(c)
    <2>1. caller[c].at \in AtWork
      BY <1>10 DEF Connected, Undo, At, AtWork, InSlot
    <2> QED BY <1>0, <1>2, <1>10, <2>1, CoverEnds DEF Connected, Undo, maintenance
  <1> QED BY <1>5, <1>6, <1>7, <1>8, <1>9, <1>10 DEF CallStep

LEMMA CoverNext == Cover /\ DriveInv /\ [Next]_vars => Cover'
  <1> SUFFICES ASSUME Cover, DriveInv, [Next]_vars PROVE Cover'
    OBVIOUS
  <1>0. caller \in [Callers -> CallerStates]
    BY DEF DriveInv, Shape
  <1>1. ASSUME activities' = activities,
               \A c \in Callers : caller'[c].at \in AtWork => caller[c].at \in AtWork
        PROVE  Cover'
    BY <1>1 DEF Cover, Covered, HasTurn
  <1>2. ASSUME NEW c \in Callers, TurnBegins(c) PROVE Cover'
    BY <1>2 DEF TurnBegins, Acquire, registry, Cover, Covered, HasTurn
  <1>3. ASSUME NEW c \in Callers, TurnEnds(c) PROVE Cover'
    <2>1. UNCHANGED caller /\ activities' = activities \ {Turn(c)} /\ caller[c].at \notin AtWork
      BY <1>3, Apart DEF TurnEnds, ReleaseAll, registry, At
    <2>2. \A d \in Callers : Admission(d) # Turn(c) /\ (d # c => Turn(d) # Turn(c))
      BY DEF Admission, Turn
    <2> QED BY <2>1, <2>2 DEF Cover, Covered, HasTurn
  <1>4. ASSUME NEW u \in Users, StopProceeds(u) \/ StopEnds(u) PROVE Cover'
    <2>1. UNCHANGED caller \/ Answer(u, "again") \/ Answer(u, "idle")
      BY <1>4 DEF StopProceeds, StopEnds
    <2>2. ASSUME NEW p \in {"again", "idle"}, Answer(u, p), NEW c \in Callers, caller'[c].at \in AtWork
          PROVE  caller[c].at \in AtWork
      <3>1. CASE At(c, "stopping") /\ User(c) = u
        <4>1. caller'[c].at = p
          BY <1>0, <2>2, <3>1 DEF Answer, CallerStates
        <4> QED BY <2>2, <4>1, Apart
      <3>2. CASE ~(At(c, "stopping") /\ User(c) = u)
        BY <2>2, <3>2 DEF Answer
      <3> QED BY <3>1, <3>2
    <2>3. activities' = activities
      BY <1>4 DEF StopProceeds, StopEnds, maintenance
    <2> QED BY <1>1, <2>1, <2>2, <2>3
  <1>5. CASE Close
    <2>1. \A c \in Callers : At(c, "queued") => caller[c].at \in AtWork
      BY DEF At, AtWork
    <2> QED BY <1>1, <1>5, <2>1 DEF Close, maintenance
  <1>6. ASSUME \/ \E u \in Users : Stop(u)
               \/ \E g \in Generations : Gateway(g)
               \/ CloseEnds \/ Maintenance \/ UNCHANGED vars
        PROVE  Cover'
    <2>1. UNCHANGED caller /\ activities' = activities
      BY <1>6 DEF Stop, Gateway, CloseEnds, Maintenance, Enter, DrainTimesOut, Resume, registry, maintenance, vars
    <2> QED BY <1>1, <2>1
  <1>7. ASSUME NEW c \in Callers, NEW u \in Users, Start(c, u) PROVE Cover'
    BY <1>7, CoverBegins DEF Start
  <1> QED BY <1>2, <1>3, <1>4, <1>5, <1>6, <1>7, CoverWorks DEF Next

LEMMA CoverInit == Init => Cover
  BY Apart DEF Init, Cover

\* In maintenance nothing is active and no worker is being started, retired or
\* recovered, for any users and callers (registry.ts:242-244, :363-365).
THEOREM MaintenanceStaysQuiet == Spec => []MaintenanceIsQuiet
  <1>1. GateInv /\ Cover => MaintenanceIsQuiet
    BY DEF GateInv, Cover, Covered, HasTurn, MaintenanceIsQuiet
  <1> QED BY GateInit, GateNext, DriveInit, DriveNext, CoverInit, CoverNext, <1>1, PTL DEF Spec

----------------------------------------------------------------------------
(* Start slots.                                                            *)

Working == {c \in Callers : caller[c].at \in InSlot}

SlotInv ==
  /\ IsFiniteSet(Working) /\ slots = Cardinality(Working) /\ slots <= Concurrency
  /\ queue # << >> => slots = Concurrency
  /\ \A c \in Callers : At(c, "queued") => \E i \in DOMAIN queue : queue[i] = c

LEMMA SlotInit == Init => SlotInv
  <1> SUFFICES ASSUME Init PROVE SlotInv
    OBVIOUS
  <1>1. \A c \in Callers : caller[c].at = "idle"
    BY DEF Init
  <1>2. Working = {}
    BY <1>1, Apart DEF Working
  <1> QED BY <1>1, <1>2, FS_EmptySet, RegistryAssumption DEF Init, SlotInv, At

\* What c does when it goes on, and what the end of its start does to the others.
LEMMA Goes ==
  ASSUME DriveInv, NEW c \in Callers, NEW p, Go(c, p)
  PROVE  /\ caller'[c].at = p /\ User(c)' = User(c)
         /\ \A d \in Callers \ {c} : caller'[d] = caller[d]
  <1>1. caller \in [Callers -> CallerStates] /\ caller[c] \in CallerStates
    BY DEF DriveInv, Shape
  <1>2. caller' = [caller EXCEPT ![c] = [caller[c] EXCEPT !.at = p]]
    BY DEF Go
  <1>3. [caller[c] EXCEPT !.at = p].at = p /\ [caller[c] EXCEPT !.at = p].user = caller[c].user
    BY <1>1 DEF CallerStates
  <1> QED BY <1>1, <1>2, <1>3 DEF User

LEMMA Puts ==
  ASSUME DriveInv, NEW c \in Callers, NEW p, NEW u, caller' = [caller EXCEPT ![c] = [at |-> p, user |-> u]]
  PROVE  /\ caller'[c].at = p /\ User(c)' = u
         /\ \A d \in Callers \ {c} : caller'[d] = caller[d]
  BY DEF DriveInv, Shape, User

LEMMA Settles ==
  ASSUME DriveInv, NEW c \in Callers, NEW h \in BOOLEAN, Settle(c, h),
         caller[c].at \in Drives, ~At(c, "queued"),
         NEW n, n = NextInLine(h)
  PROVE  /\ n # Nobody => /\ h /\ queue # << >> /\ n = queue[1] /\ queue' = Tail(queue) /\ slots' = slots
                          /\ n \in Callers \ {c} /\ At(n, "queued")
         /\ n = Nobody => queue' = queue /\ (h => queue = << >> /\ slots' = slots - 1) /\ (~h => slots' = slots)
         /\ caller'[c].at = "idle"
         /\ \A d \in Callers \ {c} :
              \/ caller'[d].at = "idle" /\ At(d, "joined")
              \/ d # n /\ caller'[d] = caller[d]
              \/ d = n /\ caller'[d].at = "provision" /\ At(d, "queued") /\ User(d)' = User(d)
  <1>0. caller \in [Callers -> CallerStates] /\ queue \in Seq(Callers) /\ Nobody \notin Callers
    BY Apart DEF DriveInv, Shape
  <1>1. n # Nobody => h /\ queue # << >> /\ n = Head(queue) /\ n \in Callers /\ At(n, "queued") /\ n = queue[1]
    <2>1. n # Nobody => h /\ queue # << >> /\ n = Head(queue)
      BY DEF NextInLine
    <2>2. queue # << >> => Head(queue) = queue[1] /\ 1 \in DOMAIN queue /\ queue[1] \in Callers
      BY <1>0
    <2> QED BY <2>1, <2>2 DEF DriveInv, Line
  <1>2. n = Nobody /\ h => queue = << >>
    <2>1. queue # << >> => Head(queue) \in Callers
      BY <1>0
    <2> QED BY <1>0, <2>1 DEF NextInLine
  <1>3. \A d \in Callers :
          caller'[d] = IF d = c \/ (At(d, "joined") /\ User(d) = User(c)) THEN [at |-> "idle", user |-> Nobody]
                       ELSE IF d = n THEN [caller[d] EXCEPT !.at = "provision"]
                       ELSE caller[d]
    BY DEF Settle
  <1>4. /\ queue' = (IF n # Nobody THEN Tail(queue) ELSE queue)
        /\ slots' = (IF h /\ n = Nobody THEN slots - 1 ELSE slots)
    BY DEF Settle
  <1>5. caller'[c].at = "idle"
    <2>1. caller'[c] = [at |-> "idle", user |-> Nobody]
      BY <1>3
    <2> QED BY <2>1
  <1>6. ASSUME NEW d \in Callers \ {c}
        PROVE  \/ caller'[d].at = "idle" /\ At(d, "joined")
               \/ d # n /\ caller'[d] = caller[d]
               \/ d = n /\ caller'[d].at = "provision" /\ At(d, "queued") /\ User(d)' = User(d)
    <2>1. CASE At(d, "joined") /\ User(d) = User(c)
      <3>1. caller'[d] = [at |-> "idle", user |-> Nobody]
        BY <1>3, <2>1
      <3>2. caller'[d].at = "idle"
        BY <3>1
      <3> QED BY <2>1, <3>2
    <2>2. CASE ~(At(d, "joined") /\ User(d) = User(c)) /\ d # n
      BY <1>3, <2>2
    <2>3. CASE ~(At(d, "joined") /\ User(d) = User(c)) /\ d = n
      <3>1. caller'[d] = [caller[d] EXCEPT !.at = "provision"] /\ caller[d] \in CallerStates
        BY <1>0, <1>3, <2>3
      <3>2. caller'[d].at = "provision" /\ User(d)' = User(d)
        BY <3>1 DEF CallerStates, User
      <3> QED BY <1>0, <1>1, <2>3, <3>2
    <2> QED BY <2>1, <2>2, <2>3
  <1>7. n # Nobody => n # c
    BY <1>1
  <1> QED BY <1>1, <1>2, <1>4, <1>5, <1>6, <1>7

LEMMA SlotsStay ==
  ASSUME SlotInv, UNCHANGED slots, queue' = queue \/ queue' = << >>,
         \A d \in Callers : /\ caller'[d].at \in InSlot <=> caller[d].at \in InSlot
                            /\ caller'[d].at = "queued" => caller[d].at = "queued" /\ queue' = queue
  PROVE  SlotInv'
  <1>1. Working' = Working
    BY DEF Working
  <1> QED BY <1>1 DEF SlotInv, At

LEMMA SlotsSettle ==
  ASSUME SlotInv, DriveInv, NEW c \in Callers, NEW h \in BOOLEAN, Settle(c, h),
         caller[c].at \in Drives, ~At(c, "queued"), h <=> caller[c].at \in InSlot
  PROVE  SlotInv'
  <1>n. PICK n : n = NextInLine(h)
    OBVIOUS
  <1> DEFINE Idles == \A d \in Callers \ {c} :
              \/ caller'[d].at = "idle" /\ At(d, "joined")
              \/ d # n /\ caller'[d] = caller[d]
              \/ d = n /\ caller'[d].at = "provision" /\ At(d, "queued") /\ User(d)' = User(d)
  <1>1. /\ n # Nobody => /\ h /\ queue # << >> /\ n = queue[1] /\ queue' = Tail(queue) /\ slots' = slots
                         /\ n \in Callers \ {c} /\ At(n, "queued")
        /\ n = Nobody => queue' = queue /\ (h => queue = << >> /\ slots' = slots - 1) /\ (~h => slots' = slots)
        /\ caller'[c].at = "idle" /\ Idles
    BY <1>n, Settles
  <1>2. /\ "idle" \notin InSlot /\ "joined" \notin InSlot /\ "queued" \notin InSlot /\ "provision" \in InSlot
        /\ Nobody \notin Callers /\ queue \in Seq(Callers)
    BY Apart DEF InSlot, DriveInv, Shape
  <1>3. CASE n = Nobody /\ ~h
    <2>1. Working' = Working
      BY <1>1, <1>2, <1>3 DEF Working, At
    <2> QED BY <1>1, <1>2, <1>3, <2>1 DEF SlotInv, At
  <1>4. CASE n = Nobody /\ h
    <2>1. Working' = Working \ {c} /\ c \in Working
      BY <1>1, <1>2, <1>4 DEF Working, At
    <2>2. IsFiniteSet(Working') /\ Cardinality(Working') = Cardinality(Working) - 1
      BY <2>1, FS_RemoveElement DEF SlotInv
    <2>3. Cardinality(Working) \in Nat
      BY FS_CardinalityType DEF SlotInv
    <2> QED BY <1>1, <1>2, <1>4, <2>2, <2>3, RegistryAssumption DEF SlotInv, At
  <1>5. CASE n # Nobody
    <2>1. /\ Working' = (Working \ {c}) \union {n} /\ c \in Working /\ n \notin Working
      BY <1>1, <1>2, <1>5 DEF Working, At
    <2>2. /\ IsFiniteSet(Working \ {c}) /\ Cardinality(Working \ {c}) = Cardinality(Working) - 1
          /\ Cardinality(Working) \in Nat
      BY <2>1, FS_RemoveElement, FS_CardinalityType DEF SlotInv
    <2>3. IsFiniteSet(Working') /\ Cardinality(Working') = Cardinality(Working \ {c}) + 1
      <3>1. n \notin Working \ {c}
        BY <2>1
      <3> QED BY <2>1, <2>2, <3>1, FS_AddElement
    <2>4. ASSUME NEW d \in Callers, caller'[d].at = "queued"
          PROVE  \E i \in DOMAIN queue' : queue'[i] = d
      <3>1. d # n /\ caller[d].at = "queued"
        BY <1>1, <2>4 DEF At
      <3>2. PICK i \in DOMAIN queue : queue[i] = d
        BY <3>1 DEF SlotInv, At
      <3>3. i # 1 /\ i \in 1..Len(queue) /\ Len(queue) \in Nat /\ queue' = Tail(queue) /\ queue # << >>
        BY <1>1, <1>2, <1>5, <3>1, <3>2
      <3>4. i - 1 \in DOMAIN queue' /\ queue'[i - 1] = queue[i]
        BY <1>2, <3>3
      <3> QED BY <3>2, <3>4
    <2> QED BY <1>1, <1>5, <2>2, <2>3, <2>4 DEF SlotInv, At
  <1> QED BY <1>3, <1>4, <1>5

LEMMA SlotsAtGate ==
  ASSUME SlotInv, DriveInv, NEW c \in Callers, NEW u, NEW e, Gate(c, u, e),
         caller[c].at \notin InSlot, ~At(c, "queued")
  PROVE  SlotInv'
  <1>0. /\ queue \in Seq(Callers) /\ "provision" \in InSlot /\ "queued" \notin InSlot /\ "refused" \notin InSlot
        /\ Cardinality(Working) \in Nat /\ Concurrency \in Nat
    BY FS_CardinalityType, RegistryAssumption DEF InSlot, DriveInv, Shape, SlotInv
  <1>1. CASE /\ HasRoom /\ slots' = slots + 1 /\ UNCHANGED queue
             /\ caller' = [caller EXCEPT ![c] = [at |-> "provision", user |-> u]]
    <2>1. caller'[c].at = "provision" /\ \A d \in Callers \ {c} : caller'[d] = caller[d]
      BY <1>1, Puts
    <2>2. Working' = Working \union {c} /\ c \notin Working
      BY <1>0, <2>1 DEF Working
    <2>3. IsFiniteSet(Working') /\ Cardinality(Working') = Cardinality(Working) + 1
      BY <2>2, FS_AddElement DEF SlotInv
    <2> QED BY <1>0, <1>1, <2>1, <2>3 DEF SlotInv, HasRoom, At
  <1>2. CASE /\ ~HasRoom /\ queue' = Append(queue, c) /\ UNCHANGED slots
             /\ caller' = [caller EXCEPT ![c] = [at |-> "queued", user |-> u]]
    <2>1. caller'[c].at = "queued" /\ \A d \in Callers \ {c} : caller'[d] = caller[d]
      BY <1>2, Puts
    <2>2. Working' = Working
      BY <1>0, <2>1 DEF Working
    <2>3. slots = Concurrency
      BY <1>0, <1>2 DEF SlotInv, HasRoom
    <2>4. /\ Len(queue) + 1 \in DOMAIN queue' /\ queue'[Len(queue) + 1] = c
          /\ \A i \in DOMAIN queue : i \in DOMAIN queue' /\ queue'[i] = queue[i]
      BY <1>0, <1>2
    <2>5. ASSUME NEW d \in Callers, caller'[d].at = "queued"
          PROVE  \E i \in DOMAIN queue' : queue'[i] = d
      BY <2>1, <2>4, <2>5 DEF SlotInv, At
    <2> QED BY <1>2, <2>2, <2>3, <2>5 DEF SlotInv, At
  <1>3. CASE caller' = [caller EXCEPT ![c] = [at |-> "refused", user |-> u]] /\ UNCHANGED <<queue, slots>>
    <2>1. caller'[c].at = "refused" /\ \A d \in Callers \ {c} : caller'[d] = caller[d]
      BY <1>3, Puts
    <2> QED BY <1>0, <1>3, <2>1, SlotsStay
  <1> QED BY <1>1, <1>2, <1>3 DEF Gate

LEMMA SlotsNext == SlotInv /\ DriveInv /\ [Next]_vars => SlotInv'
  <1> SUFFICES ASSUME SlotInv, DriveInv, [Next]_vars PROVE SlotInv'
    OBVIOUS
  <1>0. /\ TRUE \in BOOLEAN /\ FALSE \in BOOLEAN
        /\ {"health", "recover", "refused"} \subseteq Drives /\ InSlot \subseteq Drives
        /\ InSlot = {"provision", "create", "gateway", "connect", "undo"}
        /\ caller \in [Callers -> CallerStates]
    BY DEF Drives, AtWork, InSlot, DriveInv, Shape
  \* c moves without a slot, or keeps the one it has.
  <1>1. ASSUME NEW c \in Callers, NEW p, p # "queued", UNCHANGED <<queue, slots>>,
               p \in InSlot <=> caller[c].at \in InSlot,
               \/ Go(c, p)
               \/ \E u : caller' = [caller EXCEPT ![c] = [at |-> p, user |-> u]]
        PROVE  SlotInv'
    <2>1. caller'[c].at = p /\ \A d \in Callers \ {c} : caller'[d] = caller[d]
      BY <1>1, Goes, Puts
    <2> QED BY <1>1, <2>1, SlotsStay
  <1>2. ASSUME NEW c \in Callers, NEW u, Begin(c, u), At(c, "idle") \/ At(c, "again") PROVE SlotInv'
    <2>1. ASSUME NEW p \in {"idle", "stopping", "joined", "health"}, NEW v, UNCHANGED <<queue, slots>>,
                 caller' = [caller EXCEPT ![c] = [at |-> p, user |-> v]]
          PROVE  SlotInv'
      BY <1>0, <1>1, <1>2, <2>1 DEF At
    <2>2. ASSUME NEW e, Gate(c, u, e) PROVE SlotInv'
      BY <1>0, <1>2, <2>2, SlotsAtGate DEF At
    <2> QED BY <1>2, <2>1, <2>2 DEF Begin
  <1>3. ASSUME NEW c \in Callers, CallStep(c) PROVE SlotInv'
    <2>1. CASE StartAgain(c)
      BY <1>2, <2>1 DEF StartAgain
    <2>2. CASE Refused(c)
      BY <1>0, <2>2, SlotsSettle DEF Refused, Ended, At
    <2>3. CASE AskHealth(c)
      <3>1. CASE Ended(c, FALSE)
        BY <1>0, <2>3, <3>1, SlotsSettle DEF AskHealth, Ended, At
      <3>2. CASE Go(c, "recover") /\ UNCHANGED <<queue, slots>>
        BY <1>0, <1>1, <2>3, <3>2 DEF AskHealth, At
      <3> QED BY <2>3, <3>1, <3>2 DEF AskHealth
    <2>4. CASE Recover(c)
      <3>1. CASE Settle(c, FALSE)
        BY <1>0, <2>4, <3>1, SlotsSettle DEF Recover, At
      <3>2. ASSUME NEW e, Gate(c, User(c), e) PROVE SlotInv'
        BY <1>0, <2>4, <3>2, SlotsAtGate DEF Recover, At
      <3> QED BY <2>4, <3>1, <3>2 DEF Recover
    <2>5. CASE Provision(c) \/ Create(c) \/ Connect(c) \/ Connected(c) \/ Undo(c)
      <3>0. caller[c].at \in InSlot /\ ~At(c, "queued")
        BY <1>0, <2>5 DEF Provision, Create, Connect, Connected, Undo, At
      <3>1. CASE Settle(c, TRUE)
        BY <1>0, <3>0, <3>1, SlotsSettle
      <3>2. ASSUME NEW p \in {"create", "gateway", "connect", "undo"}, Go(c, p), UNCHANGED <<queue, slots>>
            PROVE  SlotInv'
        BY <1>0, <1>1, <3>0, <3>2
      <3> QED BY <2>5, <3>1, <3>2 DEF Provision, Create, Connect, Connected, Undo, Ended
    <2> QED BY <1>3, <2>1, <2>2, <2>3, <2>4, <2>5 DEF CallStep
  <1>4. ASSUME NEW c \in Callers, NEW u \in Users, Start(c, u) PROVE SlotInv'
    BY <1>2, <1>4 DEF Start
  <1>5. ASSUME NEW u \in Users, StopProceeds(u) \/ StopEnds(u) PROVE SlotInv'
    <2>1. UNCHANGED <<queue, slots>> /\ (UNCHANGED caller \/ Answer(u, "again") \/ Answer(u, "idle"))
      BY <1>5 DEF StopProceeds, StopEnds
    <2>2. ASSUME NEW p \in {"again", "idle"}, Answer(u, p), NEW d \in Callers
          PROVE  /\ caller'[d].at \in InSlot <=> caller[d].at \in InSlot
                 /\ caller'[d].at = "queued" => caller[d].at = "queued"
      <3>1. CASE At(d, "stopping") /\ User(d) = u
        <4>1. caller'[d].at = p
          BY <1>0, <2>2, <3>1 DEF Answer, CallerStates
        <4> QED BY <1>0, <2>2, <3>1, <4>1 DEF At
      <3>2. CASE ~(At(d, "stopping") /\ User(d) = u)
        BY <2>2, <3>2 DEF Answer
      <3> QED BY <3>1, <3>2
    <2> QED BY <2>1, <2>2, SlotsStay
  <1>6. CASE Close
    <2>1. ASSUME NEW d \in Callers
          PROVE  /\ caller'[d].at \in InSlot <=> caller[d].at \in InSlot
                 /\ caller'[d].at # "queued"
      <3>1. CASE At(d, "queued")
        <4>1. caller'[d] = [caller[d] EXCEPT !.at = "refused"] /\ caller[d] \in CallerStates
          BY <1>0, <1>6, <3>1 DEF Close
        <4>2. caller'[d].at = "refused"
          BY <4>1 DEF CallerStates
        <4> QED BY <1>0, <3>1, <4>2 DEF At
      <3>2. CASE ~At(d, "queued")
        BY <1>6, <3>2 DEF Close, At
      <3> QED BY <3>1, <3>2
    <2> QED BY <1>6, <2>1, SlotsStay DEF Close
  <1>7. ASSUME \/ \E c \in Callers : TurnBegins(c) \/ TurnEnds(c)
               \/ \E u \in Users : Stop(u)
               \/ \E g \in Generations : Gateway(g)
               \/ CloseEnds \/ Maintenance \/ UNCHANGED vars
        PROVE  SlotInv'
    <2>1. UNCHANGED <<caller, queue, slots>>
      BY <1>7 DEF TurnBegins, TurnEnds, Stop, Gateway, CloseEnds, Maintenance, registry, vars
    <2> QED BY <2>1, SlotsStay
  <1> QED BY <1>3, <1>4, <1>5, <1>6, <1>7 DEF Next

\* Start slots are neither leaked nor exceeded nor left idle: each is held by a
\* start under way, and a start waits only while all are taken, for any number
\* of slots and of places in the queue (registry.ts:75-77).
THEOREM SlotsAreAccounted == Spec => []SlotsAccounted
  <1>1. SlotInv /\ DriveInv => SlotsAccounted
    BY DEF SlotInv, Working, DriveInv, Shape, Line, SlotsAccounted, At
  <1> QED BY DriveInit, DriveNext, SlotInit, SlotsNext, <1>1, PTL DEF Spec

----------------------------------------------------------------------------
(* No process is left over.                                                *)

GenStates ==
  [user : Users \union {Nobody}, retired : {"no", "early", "yes"}, child : {"no", "yes"},
   at : {"unborn", "acquire", "owner", "repair", "listen", "up", "failed", "over"}]

\* A generation that may have a process, or may still come to have one.
Living(r) == r.at # "unborn" /\ (r.retired = "no" \/ r.child = "yes")

\* Before the bind, and when a stop came before it, there is no process.
Childless(r) == r.at \in {"unborn", "acquire", "owner", "repair"} \/ r.retired = "early" => r.child = "no"

GenInv ==
  /\ gen \in [Generations -> GenStates]
  /\ \A g \in Generations : Childless(gen[g])
  /\ \A g \in Generations : Living(gen[g]) => gen[g].user \in Users /\ entry[gen[g].user].runtime = g

\* What a start has found and made when it is at p, e being its entry.
Place(p, e) ==
  /\ p \in {"queued", "refused", "provision", "create"} => e.runtime = 0 /\ e.handle = 0
  /\ p \in {"gateway", "connect", "undo"} => e.runtime # 0 /\ e.handle = 0
  /\ p \in {"health", "recover"} => e.runtime # 0

\* A stop ends a generation nobody starts; behind a close nothing is started
\* that is not being stopped.
Sound(e, cl) ==
  /\ e.handle # 0 => e.runtime # 0
  /\ e.stop = "closing" => e.start = Nobody /\ e.runtime # 0
  /\ cl # "no" /\ e.stop = "none" => e.start = Nobody
  /\ cl = "done" => e.stop = "none" /\ e.runtime = 0

EntryInv ==
  /\ \A c \in Callers : caller[c].at \in Drives => Place(caller[c].at, entry[User(c)])
  /\ \A u \in Users : Sound(entry[u], closed)

\* No generation comes to life, and none has another user.
Fits(r, q) == r \in GenStates /\ Childless(r) /\ r.user = q.user /\ (Living(r) => Living(q))
Calm == gen' \in [Generations -> GenStates] /\ \A g \in Generations : Fits(gen'[g], gen[g])

LEMMA CalmMove ==
  ASSUME GenInv, NEW g \in Generations, NEW r, gen' = [gen EXCEPT ![g] = r], Fits(r, gen[g])
  PROVE  Calm /\ gen'[g] = r
  <1>1. gen'[g] = r /\ \A h \in Generations \ {g} : gen'[h] = gen[h]
    BY DEF GenInv
  <1>2. \A h \in Generations : gen[h] \in GenStates /\ Childless(gen[h])
    BY DEF GenInv
  <1>3. gen' \in [Generations -> GenStates]
    BY <1>2 DEF GenInv, Fits
  <1> QED BY <1>1, <1>2, <1>3 DEF Calm, Fits

LEMMA CalmGateway ==
  ASSUME GenInv, NEW g \in Generations, Gateway(g)
  PROVE  Calm
  <1> DEFINE q == gen[g]
  <1>0. q \in GenStates /\ Childless(q)
    BY DEF GenInv
  <1>1. /\ {"acquire", "owner", "repair", "listen", "up", "failed", "over"} \subseteq
             {"unborn", "acquire", "owner", "repair", "listen", "up", "failed", "over"}
        /\ gen \in [Generations -> GenStates]
    BY DEF GenInv
  <1>2. CASE TakeJournals(g)
    <2>1. CASE gen' = [gen EXCEPT ![g] = [q EXCEPT !.at = "owner"]]
      <3>1. Fits([q EXCEPT !.at = "owner"], q)
        BY <1>0, <1>2 DEF Fits, GenStates, Childless, Living, TakeJournals
      <3> QED BY <2>1, <3>1, CalmMove
    <2>2. CASE gen' = [gen EXCEPT ![g] = [q EXCEPT !.at = "over", !.retired = "yes"]]
      <3>1. Fits([q EXCEPT !.at = "over", !.retired = "yes"], q)
        BY <1>0, <1>2 DEF Fits, GenStates, Childless, Living, TakeJournals
      <3> QED BY <2>2, <3>1, CalmMove
    <2> QED BY <1>2, <2>1, <2>2 DEF TakeJournals
  <1>3. ASSUME NEW p \in {"repair", "over"}, q.at = "owner", gen' = [gen EXCEPT ![g] = [q EXCEPT !.at = p]]
        PROVE  Calm
    <2>1. Fits([q EXCEPT !.at = p], q)
      BY <1>0, <1>3 DEF Fits, GenStates, Childless, Living
    <2> QED BY <1>3, <2>1, CalmMove
  <1>4. CASE KeepJournals(g)
    BY <1>3, <1>4 DEF KeepJournals
  <1>5. ASSUME NEW p \in {"over", "up"}, q.at \in {"repair", "listen"}, p = "up" => q.at = "listen",
               gen' = [gen EXCEPT ![g] = [q EXCEPT !.at = p]]
        PROVE  Calm
    <2>1. Fits([q EXCEPT !.at = p], q)
      BY <1>0, <1>5 DEF Fits, GenStates, Childless, Living
    <2> QED BY <1>5, <2>1, CalmMove
  <1>6. CASE GatewayFails(g)
    <2>1. CASE gen' = [gen EXCEPT ![g] = [q EXCEPT !.at = "over", !.retired = "yes", !.child = "no"]]
      <3>1. Fits([q EXCEPT !.at = "over", !.retired = "yes", !.child = "no"], q)
        BY <1>0 DEF Fits, GenStates, Childless, Living
      <3> QED BY <2>1, <3>1, CalmMove
    <2> QED BY <1>5, <1>6, <2>1 DEF GatewayFails
  <1>7. CASE JournalsRepaired(g)
    <2>1. CASE ~Retired(g) /\ gen' = [gen EXCEPT ![g] = [q EXCEPT !.at = "listen", !.child = "yes"]]
      <3>1. Fits([q EXCEPT !.at = "listen", !.child = "yes"], q)
        BY <1>0, <1>7, <2>1 DEF Fits, GenStates, Childless, Living, JournalsRepaired, Retired
      <3> QED BY <2>1, <3>1, CalmMove
    <2> QED BY <1>5, <1>7, <2>1 DEF JournalsRepaired
  <1>8. CASE Listens(g)
    BY <1>5, <1>8 DEF Listens
  <1>9. CASE ChildExits(g)
    <2>1. ASSUME NEW p \in {q.at, "failed"}, q.at \in {"listen", "up"},
                 gen' = [gen EXCEPT ![g] = [q EXCEPT !.child = "no", !.at = p]]
          PROVE  Calm
      <3>1. Fits([q EXCEPT !.child = "no", !.at = p], q)
        BY <1>0, <2>1 DEF Fits, GenStates, Childless, Living
      <3> QED BY <2>1, <3>1, CalmMove
    <2> QED BY <1>9, <2>1 DEF ChildExits
  <1> QED BY <1>2, <1>4, <1>6, <1>7, <1>8, <1>9 DEF Gateway, GatewayStarts

LEMMA Marks ==
  ASSUME GenInv, NEW g \in Generations
  PROVE  Fits([gen[g] EXCEPT !.retired = Mark(g)], gen[g])
  <1>1. gen[g] \in GenStates /\ Childless(gen[g])
    BY DEF GenInv
  <1> QED BY <1>1 DEF Fits, GenStates, Childless, Living, Mark, Retired

LEMMA CalmRetire ==
  ASSUME GenInv, NEW g \in Generations, Retire(g)
  PROVE  Calm
  BY Marks, CalmMove DEF Retire

LEMMA CalmRetiredBy ==
  ASSUME GenInv, NEW S, gen' = RetiredBy(S)
  PROVE  Calm
  <1>1. \A g \in Generations : Fits(gen[g], gen[g])
    BY DEF GenInv, Fits
  <1>2. \A g \in Generations : gen'[g] \in {gen[g], [gen[g] EXCEPT !.retired = Mark(g)]}
    BY DEF RetiredBy
  <1>3. \A g \in Generations : Fits(gen'[g], gen[g])
    BY <1>1, <1>2, Marks
  <1>4. gen' \in [Generations -> GenStates]
    BY <1>3 DEF RetiredBy, Fits
  <1> QED BY <1>3, <1>4 DEF Calm

LEMMA CalmStopped ==
  ASSUME GenInv, NEW g \in Generations, Stopped(g)
  PROVE  Calm /\ ~Living(gen'[g])
  <1> DEFINE q == gen[g]
             ch == IF q.retired = "early" THEN q.child ELSE "no"
             p == IF q.at \in {"acquire", "owner"} THEN q.at ELSE "over"
             r == [q EXCEPT !.child = ch, !.at = p]
  <1>0. q \in GenStates /\ Childless(q) /\ q.retired # "no"
    BY DEF GenInv, Stopped, CanBeStopped, Retired
  <1>1. gen' = [gen EXCEPT ![g] = r]
    BY DEF Stopped, GenInv
  <1>2. ch = "no" /\ p \in {"acquire", "owner", "over"} /\ (p # "over" => q.at = p)
    BY <1>0 DEF Childless, GenStates
  <1> HIDE DEF ch, p
  <1>3. Fits(r, q) /\ ~Living(r)
    BY <1>0, <1>2 DEF Fits, GenStates, Childless, Living
  <1> QED BY <1>1, <1>3, CalmMove

\* A generation that may have a process stays the one of its user's entry, when
\* the entry gives up only one that has none.
LEMMA GensKept ==
  ASSUME GenInv, Calm,
         \A u \in Users : entry'[u].runtime = entry[u].runtime
                          \/ (entry[u].runtime \in Generations /\ ~Living(gen'[entry[u].runtime]))
  PROVE  GenInv'
  BY DEF GenInv, Calm, Fits

\* The first generation that is not made yet is made for a user who has none.
LEMMA GenMade ==
  ASSUME GenInv, NEW g \in Generations, NEW u \in Users, gen[g].at = "unborn",
         gen' = [gen EXCEPT ![g] = [Unborn EXCEPT !.user = u, !.at = "acquire"]],
         entry \in [Users -> Entries], entry[u].runtime = 0, entry' = [entry EXCEPT ![u].runtime = g]
  PROVE  GenInv'
  <1> DEFINE r == [Unborn EXCEPT !.user = u, !.at = "acquire"]
  <1>0. Unborn \in GenStates /\ Unborn.child = "no" /\ Unborn.retired = "no"
    BY DEF Unborn, GenStates
  <1>1. r \in GenStates /\ Childless(r) /\ r.user = u
    BY <1>0 DEF GenStates, Childless
  <1>2. gen' = [gen EXCEPT ![g] = r]
    OBVIOUS
  <1>3. gen'[g] = r /\ \A h \in Generations \ {g} : gen'[h] = gen[h]
    BY <1>2 DEF GenInv
  <1>4. gen' \in [Generations -> GenStates]
    BY <1>1, <1>2 DEF GenInv
  <1>5. entry'[u].runtime = g /\ \A v \in Users \ {u} : entry'[v].runtime = entry[v].runtime
    BY DEF Entries
  <1>6. \A h \in Generations : h # 0
    BY RegistryAssumption DEF Generations
  <1> HIDE DEF r
  <1> QED BY <1>1, <1>3, <1>4, <1>5, <1>6 DEF GenInv

LEMMA CalmStays ==
  ASSUME GenInv, UNCHANGED gen
  PROVE  Calm
  BY DEF GenInv, Calm, Fits

\* c and the entry of u are all that changes, but for who gets the slot of c or
\* has to leave the queue.
LEMMA EntryMoves ==
  ASSUME DriveInv, EntryInv, NEW c, NEW u \in Users, UNCHANGED closed,
         \A v \in Users \ {u} : entry'[v] = entry[v],
         entry'[u] = entry[u] \/ entry[u].start \in {c, Nobody},
         \A d \in Callers : d # c /\ caller'[d].at \in Drives =>
           /\ caller[d].at \in Drives /\ User(d)' = User(d)
           /\ caller'[d].at = caller[d].at \/ (At(d, "queued") /\ caller'[d].at = "provision"),
         \A d \in Callers : d = c /\ caller'[d].at \in Drives => User(d)' = u /\ Place(caller'[d].at, entry'[u]),
         Sound(entry'[u], closed)
  PROVE  EntryInv'
  <1>1. \A v \in Users : Sound(entry'[v], closed')
    BY DEF EntryInv
  <1>2. ASSUME NEW d \in Callers, d # c, caller'[d].at \in Drives PROVE Place(caller'[d].at, entry'[User(d)'])
    <2>1. User(d)' = User(d) /\ User(d) \in Users /\ entry[User(d)].start = d /\ d # Nobody
      BY <1>2, Apart DEF DriveInv, Shape, Drivers, Driver, At
    <2>2. entry'[User(d)'] = entry[User(d)]
      BY <1>2, <2>1
    <2>3. Place(caller[d].at, entry[User(d)])
      BY <1>2 DEF EntryInv
    <2> QED BY <1>2, <2>2, <2>3 DEF Place, At
  <1>3. \A d \in Callers : caller'[d].at \in Drives => Place(caller'[d].at, entry'[User(d)'])
    BY <1>2
  <1> QED BY <1>1, <1>3 DEF EntryInv

\* What c knows of the worker it drives.
LEMMA Knows ==
  ASSUME DriveInv, EntryInv, NEW c \in Callers, caller[c].at \in Drives
  PROVE  /\ User(c) \in Users /\ entry \in [Users -> Entries] /\ entry[User(c)] \in Entries
         /\ entry[User(c)].start = c /\ c # Nobody
         /\ Place(caller[c].at, entry[User(c)]) /\ Sound(entry[User(c)], closed)
         /\ entry[User(c)].stop # "closing"
         /\ Runtime(c) # 0 => Runtime(c) \in Generations
  <1>1. User(c) \in Users /\ entry[User(c)].start = c /\ c # Nobody /\ entry \in [Users -> Entries]
    BY Apart DEF DriveInv, Shape, Drivers, Driver, At
  <1>2. Runtime(c) \in 0..MaxGenerations /\ MaxGenerations \in Nat
    BY <1>1, RegistryAssumption DEF Entries, Runtime
  <1>3. Sound(entry[User(c)], closed)
    BY <1>1 DEF EntryInv
  <1> QED BY <1>1, <1>2, <1>3 DEF EntryInv, Sound, Generations

LEMMA EntryEnds ==
  ASSUME DriveInv, EntryInv, NEW c \in Callers, NEW h \in BOOLEAN, Settle(c, h), UNCHANGED closed,
         caller[c].at \in Drives, ~At(c, "queued"),
         \A v \in Users \ {User(c)} : entry'[v] = entry[v],
         Sound(entry'[User(c)], closed)
  PROVE  EntryInv'
  <1>1. User(c) \in Users /\ entry[User(c)].start = c
    BY Knows
  <1>n. PICK n : n = NextInLine(h)
    OBVIOUS
  <1>2. /\ caller'[c].at = "idle"
        /\ \A d \in Callers \ {c} :
              \/ caller'[d].at = "idle" /\ At(d, "joined")
              \/ d # n /\ caller'[d] = caller[d]
              \/ d = n /\ caller'[d].at = "provision" /\ At(d, "queued") /\ User(d)' = User(d)
    BY <1>n, Settles
  <1>3. \A d \in Callers : d # c /\ caller'[d].at \in Drives =>
           /\ caller[d].at \in Drives /\ User(d)' = User(d)
           /\ caller'[d].at = caller[d].at \/ (At(d, "queued") /\ caller'[d].at = "provision")
    BY <1>2, Apart DEF User, At
  <1>4. caller'[c].at \notin Drives
    BY <1>2, Apart
  <1> QED BY <1>1, <1>3, <1>4, EntryMoves

LEMMA EntryGoes ==
  ASSUME DriveInv, EntryInv, NEW c \in Callers, NEW p, Go(c, p), UNCHANGED closed,
         caller[c].at \in Drives,
         \A v \in Users \ {User(c)} : entry'[v] = entry[v],
         Place(p, entry'[User(c)]), Sound(entry'[User(c)], closed)
  PROVE  EntryInv'
  <1>1. User(c) \in Users /\ entry[User(c)].start = c
    BY Knows
  <1>2. caller'[c].at = p /\ User(c)' = User(c) /\ \A d \in Callers \ {c} : caller'[d] = caller[d]
    BY Goes
  <1>3. \A d \in Callers : d # c /\ caller'[d].at \in Drives =>
           /\ caller[d].at \in Drives /\ User(d)' = User(d) /\ caller'[d].at = caller[d].at
    BY <1>2 DEF User
  <1> QED BY <1>1, <1>2, <1>3, EntryMoves

LEMMA EntryPuts ==
  ASSUME DriveInv, EntryInv, NEW c \in Callers, NEW u \in Users, NEW p, NEW w,
         caller' = [caller EXCEPT ![c] = [at |-> p, user |-> w]], UNCHANGED closed,
         entry'[u] = entry[u] \/ entry[u].start \in {c, Nobody},
         \A v \in Users \ {u} : entry'[v] = entry[v],
         p \in Drives => w = u /\ Place(p, entry'[u]), Sound(entry'[u], closed)
  PROVE  EntryInv'
  <1>1. caller'[c].at = p /\ User(c)' = w /\ \A d \in Callers \ {c} : caller'[d] = caller[d]
    BY Puts
  <1>2. \A d \in Callers : d # c /\ caller'[d].at \in Drives =>
           /\ caller[d].at \in Drives /\ User(d)' = User(d) /\ caller'[d].at = caller[d].at
    BY <1>1 DEF User
  <1> QED BY <1>1, <1>2, EntryMoves

LEMMA EntryAtGate ==
  ASSUME DriveInv, EntryInv, NEW c \in Callers, NEW u \in Users, NEW e, Gate(c, u, e), UNCHANGED closed,
         entry[u].start \in {c, Nobody},
         \A v \in Users \ {u} : e[v] = entry[v],
         e[u].runtime = 0, e[u].handle = 0, Sound(e[u], closed)
  PROVE  EntryInv'
  <1>1. entry' = e
    BY DEF Gate
  <1>2. ASSUME NEW p \in {"provision", "queued", "refused"},
               caller' = [caller EXCEPT ![c] = [at |-> p, user |-> u]]
        PROVE  EntryInv'
    <2>1. Place(p, e[u])
      BY <1>2 DEF Place
    <2> QED BY <1>1, <1>2, <2>1, EntryPuts
  <1> QED BY <1>2 DEF Gate

\* A start under way: what it makes, retires or ends is what its entry holds.
LEMMA OrphanWorks ==
  ASSUME DriveInv, EntryInv, GenInv, NEW c \in Callers,
         Refused(c) \/ AskHealth(c) \/ Recover(c) \/ Provision(c) \/ Create(c) \/ Connect(c) \/ Connected(c) \/ Undo(c)
  PROVE  EntryInv' /\ GenInv'
  <1> DEFINE u == User(c)
             e == entry[u]
  <1>0. caller[c].at \in Drives /\ ~At(c, "queued") /\ UNCHANGED closed
        /\ TRUE \in BOOLEAN /\ FALSE \in BOOLEAN
    BY DEF Refused, AskHealth, Recover, Provision, Create, Connect, Connected, Undo, At, Drives, AtWork, InSlot
  <1>1. /\ u \in Users /\ entry \in [Users -> Entries] /\ e \in Entries
        /\ e.start = c /\ c # Nobody /\ e.stop # "closing"
        /\ Place(caller[c].at, e) /\ Sound(e, closed)
        /\ e.runtime # 0 => e.runtime \in Generations
        /\ Runtime(c) = e.runtime
    BY <1>0, Knows DEF Runtime
  <1> HIDE DEF u, e
  <1>e. e = entry[u] /\ u = User(c)
    BY DEF e, u
  \* The generations, when the entry keeps its runtime, or when it is ended.
  <1>2. ASSUME UNCHANGED gen \/ Calm, \A v \in Users : entry'[v].runtime = entry[v].runtime PROVE GenInv'
    BY <1>2, CalmStays, GensKept
  <1>3. ASSUME Stopped(e.runtime), e.runtime # 0, \A v \in Users \ {u} : entry'[v] = entry[v] PROVE GenInv'
    <2>1. Calm /\ ~Living(gen'[e.runtime])
      BY <1>1, <1>3, CalmStopped
    <2> QED BY <1>1, <1>3, <1>e, <2>1, GensKept
  <1>4. ASSUME NEW h \in BOOLEAN, Ended(c, h) PROVE EntryInv' /\ \A v \in Users : entry'[v].runtime = entry[v].runtime
    <2>1. /\ entry' = [entry EXCEPT ![u].start = Nobody] /\ Settle(c, h)
      BY <1>4, <1>e DEF Ended
    <2>2. /\ \A v \in Users \ {u} : entry'[v] = entry[v]
          /\ entry'[u].start = Nobody /\ entry'[u].runtime = e.runtime
          /\ entry'[u].handle = e.handle /\ entry'[u].stop = e.stop
      BY <1>1, <1>e, <2>1 DEF Entries
    <2>3. Sound(entry'[u], closed)
      BY <1>1, <2>2 DEF Sound
    <2> QED BY <1>0, <1>1, <1>e, <2>1, <2>2, <2>3, EntryEnds
  <1>5. ASSUME NEW p, Go(c, p), UNCHANGED entry, Place(p, e)
        PROVE  EntryInv' /\ \A v \in Users : entry'[v].runtime = entry[v].runtime
    BY <1>0, <1>1, <1>5, <1>e, EntryGoes
  <1>6. ASSUME NEW h \in BOOLEAN, Settle(c, h), \A v \in Users \ {u} : entry'[v] = entry[v], Sound(entry'[u], closed)
        PROVE  EntryInv'
    BY <1>0, <1>1, <1>6, <1>e, EntryEnds
  <1>7. CASE Refused(c)
    BY <1>0, <1>2, <1>4, <1>7 DEF Refused, gateways
  <1>8. CASE AskHealth(c)
    <2>1. CASE Ended(c, FALSE) /\ UNCHANGED gen
      BY <1>0, <1>2, <1>4, <2>1
    <2>2. CASE Go(c, "recover") /\ Retire(Runtime(c)) /\ UNCHANGED entry
      <3>1. e.runtime # 0 /\ Place("recover", e)
        BY <1>1, <1>8 DEF AskHealth, At, Place
      <3>2. Calm
        BY <1>1, <2>2, <3>1, CalmRetire
      <3> QED BY <1>2, <1>5, <2>2, <3>1, <3>2
    <2> QED BY <1>8, <2>1, <2>2 DEF AskHealth
  <1>9. CASE Recover(c)
    <2>0. e.runtime # 0 /\ e.runtime \in Generations
      BY <1>1, <1>9 DEF Recover, At, Place
    <2>1. CASE /\ NotStopped(Runtime(c)) /\ Settle(c, FALSE)
               /\ entry' = [entry EXCEPT ![u].handle = 0, ![u].start = Nobody]
      <3>1. /\ \A v \in Users \ {u} : entry'[v] = entry[v]
            /\ entry'[u].start = Nobody /\ entry'[u].runtime = e.runtime
            /\ entry'[u].handle = 0 /\ entry'[u].stop = e.stop
        BY <1>1, <1>e, <2>1 DEF Entries
      <3>2. Sound(entry'[u], closed)
        BY <1>1, <3>1 DEF Sound
      <3> QED BY <1>0, <1>2, <1>6, <1>e, <2>1, <3>1, <3>2 DEF NotStopped, gateways
    <2>2. CASE /\ Stopped(Runtime(c)) /\ Settle(c, FALSE)
               /\ entry' = [entry EXCEPT ![u].handle = 0, ![u].runtime = 0, ![u].start = Nobody]
      <3>1. /\ \A v \in Users \ {u} : entry'[v] = entry[v]
            /\ entry'[u].start = Nobody /\ entry'[u].runtime = 0
            /\ entry'[u].handle = 0 /\ entry'[u].stop = e.stop
        BY <1>1, <1>e, <2>2 DEF Entries
      <3>2. Sound(entry'[u], closed)
        BY <1>1, <3>1 DEF Sound
      <3> QED BY <1>0, <1>1, <1>3, <1>6, <2>0, <2>2, <3>1, <3>2
    <2>3. CASE /\ Stopped(Runtime(c)) /\ Gate(c, u, [entry EXCEPT ![u].handle = 0, ![u].runtime = 0])
      <3> DEFINE n == [entry EXCEPT ![u].handle = 0, ![u].runtime = 0]
      <3>1. /\ \A v \in Users \ {u} : n[v] = entry[v]
            /\ n[u].start = c /\ n[u].runtime = 0 /\ n[u].handle = 0 /\ n[u].stop = e.stop
        BY <1>1, <1>e DEF Entries
      <3>2. Gate(c, u, n) /\ entry' = n
        BY <2>3 DEF Gate
      <3> HIDE DEF n
      <3>3. Sound(n[u], closed)
        BY <1>1, <3>1 DEF Sound
      <3>4. EntryInv'
        BY <1>0, <1>1, <1>e, <3>1, <3>2, <3>3, EntryAtGate
      <3> QED BY <1>1, <1>3, <2>0, <2>3, <3>1, <3>2, <3>4
    <2> QED BY <1>9, <1>e, <2>1, <2>2, <2>3 DEF Recover
  <1>10. CASE Provision(c)
    <2>1. Place("create", e)
      BY <1>1, <1>10 DEF Provision, At, Place
    <2> QED BY <1>0, <1>2, <1>4, <1>5, <1>10, <2>1 DEF Provision, gateways
  <1>11. CASE Create(c)
    <2>1. CASE Ended(c, TRUE) /\ UNCHANGED gen
      BY <1>0, <1>2, <1>4, <2>1
    <2>2. ASSUME NEW g \in Generations, gen[g].at = "unborn",
                 gen' = [gen EXCEPT ![g] = [Unborn EXCEPT !.user = User(c), !.at = "acquire"]],
                 entry' = [entry EXCEPT ![User(c)].runtime = g], Go(c, "gateway")
          PROVE  EntryInv' /\ GenInv'
      <3>1. e.runtime = 0 /\ e.handle = 0 /\ g # 0
        BY <1>1, <1>11, RegistryAssumption DEF Create, At, Place, Generations
      <3>2. /\ \A v \in Users \ {u} : entry'[v] = entry[v]
            /\ entry'[u].start = c /\ entry'[u].runtime = g
            /\ entry'[u].handle = 0 /\ entry'[u].stop = e.stop
        BY <1>1, <1>e, <2>2, <3>1 DEF Entries
      <3>3. Place("gateway", entry'[u])
        BY <3>1, <3>2 DEF Place
      <3>4. Sound(entry'[u], closed)
        BY <1>1, <3>2 DEF Sound
      <3>5. EntryInv'
        BY <1>0, <1>e, <2>2, <3>2, <3>3, <3>4, EntryGoes
      <3>6. GenInv'
        BY <1>1, <1>e, <2>2, <3>1, GenMade
      <3> QED BY <3>5, <3>6
    <2> QED BY <1>11, <2>1, <2>2 DEF Create
  <1>12. CASE Connect(c) \/ (Connected(c) /\ Go(c, "undo") /\ Retire(Runtime(c)) /\ UNCHANGED entry)
    <2>1. e.runtime # 0 /\ Place("connect", e) /\ Place("undo", e)
      BY <1>1, <1>12 DEF Connect, Connected, At, Place
    <2>2. Retire(Runtime(c)) => Calm
      BY <1>1, <2>1, CalmRetire
    <2> QED BY <1>2, <1>5, <1>12, <2>1, <2>2 DEF Connect
  <1>13. CASE /\ Connected(c) /\ Settle(c, TRUE) /\ UNCHANGED gen
              /\ entry' = [entry EXCEPT ![User(c)].handle = Runtime(c), ![User(c)].start = Nobody]
    <2>1. e.runtime # 0
      BY <1>1, <1>13 DEF Connected, At, Place
    <2>2. /\ \A v \in Users \ {u} : entry'[v] = entry[v]
          /\ entry'[u].start = Nobody /\ entry'[u].runtime = e.runtime
          /\ entry'[u].handle = e.runtime /\ entry'[u].stop = e.stop
      BY <1>1, <1>13, <1>e DEF Entries
    <2>3. Sound(entry'[u], closed)
      BY <1>1, <2>1, <2>2 DEF Sound
    <2> QED BY <1>0, <1>2, <1>6, <1>13, <1>e, <2>2, <2>3
  <1>14. CASE Undo(c)
    <2>0. e.runtime # 0 /\ e.handle = 0
      BY <1>1, <1>14 DEF Undo, At, Place
    <2>1. CASE entry' = [entry EXCEPT ![User(c)].start = Nobody] /\ NotStopped(Runtime(c))
      BY <1>0, <1>2, <1>4, <1>14, <2>1 DEF Undo, Ended, NotStopped, gateways
    <2>2. CASE Stopped(Runtime(c)) /\ entry' = [entry EXCEPT ![User(c)].runtime = 0, ![User(c)].start = Nobody]
      <3>1. /\ \A v \in Users \ {u} : entry'[v] = entry[v]
            /\ entry'[u].start = Nobody /\ entry'[u].runtime = 0
            /\ entry'[u].handle = 0 /\ entry'[u].stop = e.stop
        BY <1>1, <1>e, <2>0, <2>2 DEF Entries
      <3>2. Sound(entry'[u], closed)
        BY <1>1, <3>1 DEF Sound
      <3> QED BY <1>0, <1>1, <1>3, <1>6, <1>14, <2>0, <2>2, <3>1, <3>2 DEF Undo
    <2> QED BY <1>14, <2>1, <2>2 DEF Undo
  <1> QED BY <1>7, <1>8, <1>9, <1>10, <1>11, <1>12, <1>13, <1>14 DEF Connected

\* A call of start that has not driven anything yet makes nothing.
LEMMA OrphanBegins ==
  ASSUME DriveInv, EntryInv, GenInv, NEW c \in Callers, NEW u \in Users, Begin(c, u), UNCHANGED <<closed, gen>>
  PROVE  EntryInv' /\ GenInv'
  <1>0. entry \in [Users -> Entries] /\ Sound(entry[u], closed)
    BY DEF DriveInv, Shape, EntryInv
  <1>1. ASSUME NEW p \in {"idle", "stopping", "joined"}, NEW w, UNCHANGED entry,
               caller' = [caller EXCEPT ![c] = [at |-> p, user |-> w]]
        PROVE  EntryInv' /\ GenInv'
    <2>1. EntryInv'
      BY <1>0, <1>1, EntryPuts, Apart
    <2> QED BY <1>1, <2>1, CalmStays, GensKept
  <1>2. ASSUME closed = "no", ~Busy(u), NEW n, n = [entry EXCEPT ![u].start = c]
        PROVE  /\ \A v \in Users \ {u} : n[v] = entry[v]
               /\ n[u].runtime = entry[u].runtime /\ n[u].handle = entry[u].handle
               /\ Sound(n[u], closed) /\ entry[u].start = Nobody
    <2>1. /\ \A v \in Users \ {u} : n[v] = entry[v]
          /\ n[u].runtime = entry[u].runtime /\ n[u].handle = entry[u].handle
          /\ n[u].stop = entry[u].stop /\ entry[u].stop = "none" /\ entry[u].start = Nobody
      BY <1>0, <1>2 DEF Entries, Busy
    <2> QED BY <1>0, <1>2, <2>1 DEF Sound
  <1>3. ASSUME \A v \in Users : entry'[v].runtime = entry[v].runtime PROVE GenInv'
    BY <1>3, CalmStays, GensKept
  <1>4. CASE /\ closed = "no" /\ ~Busy(u) /\ entry[u].handle # 0 /\ entry' = [entry EXCEPT ![u].start = c]
             /\ caller' = [caller EXCEPT ![c] = [at |-> "health", user |-> u]]
    <2>1. /\ \A v \in Users \ {u} : entry'[v] = entry[v]
          /\ entry'[u].runtime = entry[u].runtime
          /\ Sound(entry'[u], closed) /\ entry[u].start = Nobody
      BY <1>2, <1>4
    <2>2. Place("health", entry'[u])
      BY <1>0, <1>4, <2>1 DEF Place, Sound
    <2> QED BY <1>3, <1>4, <2>1, <2>2, EntryPuts
  <1>5. CASE /\ closed = "no" /\ ~Busy(u) /\ entry[u].handle = 0 /\ entry[u].runtime = 0
             /\ Gate(c, u, [entry EXCEPT ![u].start = c])
    <2> DEFINE n == [entry EXCEPT ![u].start = c]
    <2>1. Gate(c, u, n) /\ entry' = n
      BY <1>5 DEF Gate
    <2>2. /\ \A v \in Users \ {u} : n[v] = entry[v]
          /\ n[u].runtime = 0 /\ n[u].handle = 0
          /\ Sound(n[u], closed) /\ entry[u].start = Nobody
      BY <1>2, <1>5
    <2> HIDE DEF n
    <2>3. \A v \in Users : entry'[v].runtime = entry[v].runtime
      BY <1>5, <2>1, <2>2
    <2> QED BY <1>3, <2>1, <2>2, <2>3, EntryAtGate
  <1>6. CASE /\ UNCHANGED entry
             /\ caller' = [caller EXCEPT ![c] =
                  [at |-> IF entry[u].stop # "none" THEN "stopping" ELSE "joined", user |-> u]]
    <2>1. CASE entry[u].stop # "none"
      BY <1>1, <1>6, <2>1
    <2>2. CASE entry[u].stop = "none"
      BY <1>1, <1>6, <2>2
    <2> QED BY <2>1, <2>2
  <1>7. CASE UNCHANGED entry /\ caller' = [caller EXCEPT ![c] = [at |-> "idle", user |-> Nobody]]
    BY <1>1, <1>7
  <1> QED BY <1>4, <1>5, <1>6, <1>7 DEF Begin

\* A stop, or the stops of a close, are asked for.
LEMMA OrphanAsked ==
  ASSUME DriveInv, EntryInv, GenInv, NEW S \in SUBSET Users, entry' = Asked(S), gen' = RetiredBy(S),
         closed' = closed \/ (closed' = "closing" /\ S = Users),
         \A d \in Callers : caller'[d].at \in Drives =>
           /\ caller[d].at \in Drives /\ User(d)' = User(d)
           /\ caller'[d].at = caller[d].at \/ (At(d, "queued") /\ caller'[d].at = "refused")
  PROVE  EntryInv' /\ GenInv'
  <1>0. entry \in [Users -> Entries] /\ \A u \in Users : Sound(entry[u], closed)
    BY DEF DriveInv, Shape, EntryInv
  <1>1. ASSUME NEW u \in Users
        PROVE  /\ entry'[u].runtime = entry[u].runtime /\ entry'[u].handle = entry[u].handle
               /\ entry'[u].start = entry[u].start
               /\ entry'[u].stop = IF u \in S /\ entry[u].stop = "none" THEN Stopping(u) ELSE entry[u].stop
    <2>1. entry[u] \in Entries
      BY <1>0
    <2>2. CASE u \in S /\ entry[u].stop = "none"
      <3>1. entry'[u] = [entry[u] EXCEPT !.stop = Stopping(u)]
        BY <2>2 DEF Asked
      <3> QED BY <2>1, <2>2, <3>1 DEF Entries
    <2>3. CASE ~(u \in S /\ entry[u].stop = "none")
      <3>1. entry'[u] = entry[u]
        BY <2>3 DEF Asked
      <3> QED BY <2>3, <3>1
    <2> QED BY <2>2, <2>3
  <1>2. \A u \in Users : Sound(entry'[u], closed')
    <2> SUFFICES ASSUME NEW u \in Users PROVE Sound(entry'[u], closed')
      OBVIOUS
    <2> QED BY <1>0, <1>1 DEF Sound, Stopping
  <1>3. ASSUME NEW d \in Callers, caller'[d].at \in Drives PROVE Place(caller'[d].at, entry'[User(d)'])
    <2>1. User(d)' = User(d) /\ User(d) \in Users /\ Place(caller[d].at, entry[User(d)])
      BY <1>3, Apart DEF DriveInv, Shape, At, EntryInv
    <2> QED BY <1>1, <1>3, <2>1 DEF Place, At
  <1>4. Calm
    BY CalmRetiredBy
  <1> QED BY <1>1, <1>2, <1>3, <1>4, GensKept DEF EntryInv

\* A stop of u goes on or ends.
LEMMA OrphanStops ==
  ASSUME DriveInv, EntryInv, GenInv, NEW u \in Users, StopProceeds(u) \/ StopEnds(u)
  PROVE  EntryInv' /\ GenInv'
  <1>0. /\ entry \in [Users -> Entries] /\ Sound(entry[u], closed) /\ entry[u] \in Entries
        /\ caller \in [Callers -> CallerStates] /\ UNCHANGED closed
    BY DEF DriveInv, Shape, EntryInv, StopProceeds, StopEnds
  <1>1. entry[u].start = Nobody /\ entry[u].stop # "none"
    BY <1>0 DEF StopProceeds, StopEnds, Sound
  <1>2. entry[u].runtime # 0 => entry[u].runtime \in Generations
    BY <1>0, RegistryAssumption DEF Entries, Generations
  <1>3. \A d \in Callers : caller'[d].at \in Drives => caller'[d] = caller[d]
    <2>1. UNCHANGED caller \/ Answer(u, "again") \/ Answer(u, "idle")
      BY DEF StopProceeds, StopEnds
    <2>2. ASSUME NEW p \in {"again", "idle"}, Answer(u, p), NEW d \in Callers, caller'[d].at \in Drives
          PROVE  caller'[d] = caller[d]
      <3>1. CASE At(d, "stopping") /\ User(d) = u
        <4>1. caller'[d].at = p
          BY <1>0, <2>2, <3>1 DEF Answer, CallerStates
        <4> QED BY <2>2, <4>1, Apart
      <3>2. CASE ~(At(d, "stopping") /\ User(d) = u)
        BY <2>2, <3>2 DEF Answer
      <3> QED BY <3>1, <3>2
    <2> QED BY <2>1, <2>2
  <1>4. ASSUME \A v \in Users \ {u} : entry'[v] = entry[v], Sound(entry'[u], closed) PROVE EntryInv'
    <2>1. Nobody \notin Callers
      BY Apart
    <2>2. \A d \in Callers : d # Nobody /\ caller'[d].at \in Drives =>
           /\ caller[d].at \in Drives /\ User(d)' = User(d) /\ caller'[d].at = caller[d].at
      BY <1>3 DEF User
    <2> QED BY <1>0, <1>1, <1>4, <2>1, <2>2, EntryMoves
  <1>5. CASE StopProceeds(u)
    <2> DEFINE s == Stopping(u)
               h == IF entry[u].runtime = 0 THEN 0 ELSE entry[u].handle
    <2>1. entry' = [entry EXCEPT ![u].stop = s, ![u].handle = h]
      BY <1>0, <1>5 DEF StopProceeds
    <2>2. s = (IF entry[u].runtime = 0 THEN "none" ELSE "closing") /\ (h # 0 => entry[u].runtime # 0)
      BY <1>1 DEF Stopping
    <2> HIDE DEF s, h
    <2>3. /\ \A v \in Users \ {u} : entry'[v] = entry[v]
          /\ entry'[u].start = Nobody /\ entry'[u].runtime = entry[u].runtime
          /\ entry'[u].handle = h /\ entry'[u].stop = s
      BY <1>0, <1>1, <2>1 DEF Entries
    <2>4. Sound(entry'[u], closed)
      BY <1>0, <1>1, <2>2, <2>3 DEF Sound
    <2>5. UNCHANGED gen \/ Calm
      BY <1>2, <1>5, CalmRetire DEF StopProceeds
    <2>6. GenInv'
      BY <2>3, <2>5, CalmStays, GensKept
    <2> QED BY <1>4, <2>3, <2>4, <2>6
  <1>6. CASE StopEnds(u)
    <2>0. entry[u].runtime \in Generations
      BY <1>0, <1>2, <1>6 DEF StopEnds, Sound
    <2>1. CASE entry' = [entry EXCEPT ![u].stop = "none", ![u].handle = 0] /\ NotStopped(entry[u].runtime)
      <3>1. /\ \A v \in Users \ {u} : entry'[v] = entry[v]
            /\ entry'[u].start = Nobody /\ entry'[u].runtime = entry[u].runtime
            /\ entry'[u].handle = 0 /\ entry'[u].stop = "none"
        BY <1>0, <1>1, <2>1 DEF Entries
      <3>2. Sound(entry'[u], closed)
        BY <1>0, <1>1, <3>1 DEF Sound
      <3>3. GenInv'
        BY <2>1, <3>1, CalmStays, GensKept DEF NotStopped, gateways
      <3> QED BY <1>4, <3>1, <3>2, <3>3
    <2>2. CASE /\ Stopped(entry[u].runtime)
               /\ entry' = [entry EXCEPT ![u].stop = "none", ![u].handle = 0, ![u].runtime = 0]
      <3>1. /\ \A v \in Users \ {u} : entry'[v] = entry[v]
            /\ entry'[u].start = Nobody /\ entry'[u].runtime = 0
            /\ entry'[u].handle = 0 /\ entry'[u].stop = "none"
        BY <1>0, <1>1, <2>2 DEF Entries
      <3>2. Sound(entry'[u], closed)
        BY <1>0, <1>1, <3>1 DEF Sound
      <3>3. GenInv'
        BY <2>0, <2>2, <3>1, CalmStopped, GensKept
      <3> QED BY <1>4, <3>1, <3>2, <3>3
    <2> QED BY <1>6, <2>1, <2>2 DEF StopEnds
  <1> QED BY <1>5, <1>6

LEMMA OrphanInit == Init => EntryInv /\ GenInv
  <1> SUFFICES ASSUME Init PROVE EntryInv /\ GenInv
    OBVIOUS
  <1>1. \A u \in Users : Sound(entry[u], closed)
    BY DEF Init, Sound
  <1>2. \A c \in Callers : caller[c].at \notin Drives
    <2>1. \A c \in Callers : caller[c].at = "idle"
      BY DEF Init
    <2> QED BY <2>1, Apart
  <1>3. Unborn \in GenStates /\ Childless(Unborn) /\ ~Living(Unborn)
    BY DEF Unborn, GenStates, Childless, Living
  <1>4. GenInv
    BY <1>3 DEF Init, GenInv
  <1> QED BY <1>1, <1>2, <1>4 DEF EntryInv

LEMMA OrphanNext == DriveInv /\ EntryInv /\ GenInv /\ [Next]_vars => EntryInv' /\ GenInv'
  <1> SUFFICES ASSUME DriveInv, EntryInv, GenInv, [Next]_vars PROVE EntryInv' /\ GenInv'
    OBVIOUS
  <1>0. /\ entry \in [Users -> Entries] /\ caller \in [Callers -> CallerStates]
        /\ \A c \in Callers : At(c, "again") => User(c) \in Users
    BY DEF DriveInv, Shape, At
  <1>1. ASSUME UNCHANGED registry, UNCHANGED gen \/ Calm PROVE EntryInv' /\ GenInv'
    <2>1. UNCHANGED <<entry, caller, closed>>
      BY <1>1 DEF registry
    <2>2. GenInv'
      BY <1>1, <2>1, CalmStays, GensKept
    <2> QED BY <2>1, <2>2 DEF EntryInv, User
  <1>2. ASSUME NEW c \in Callers, CallStep(c) PROVE EntryInv' /\ GenInv'
    <2>1. CASE StartAgain(c)
      BY <1>0, <2>1, OrphanBegins DEF StartAgain, gateways
    <2> QED BY <1>2, <2>1, OrphanWorks DEF CallStep
  <1>3. ASSUME NEW c \in Callers, NEW u \in Users, Start(c, u) PROVE EntryInv' /\ GenInv'
    BY <1>3, OrphanBegins DEF Start, gateways
  <1>4. ASSUME NEW u \in Users, Stop(u) PROVE EntryInv' /\ GenInv'
    BY <1>4, OrphanAsked DEF Stop, User
  <1>5. CASE Close
    <2>1. ASSUME NEW d \in Callers, caller'[d].at \in Drives
          PROVE  /\ caller[d].at \in Drives /\ User(d)' = User(d)
                 /\ caller'[d].at = caller[d].at \/ (At(d, "queued") /\ caller'[d].at = "refused")
      <3>1. CASE At(d, "queued")
        <4>1. caller'[d] = [caller[d] EXCEPT !.at = "refused"] /\ caller[d] \in CallerStates
          BY <1>0, <1>5, <3>1 DEF Close
        <4>2. caller'[d].at = "refused" /\ caller'[d].user = caller[d].user
          BY <4>1 DEF CallerStates
        <4> QED BY <3>1, <4>2, Apart DEF At, User
      <3>2. CASE ~At(d, "queued")
        <4>1. caller'[d] = caller[d]
          BY <1>5, <3>2 DEF Close
        <4> QED BY <2>1, <4>1 DEF User
      <3> QED BY <3>1, <3>2
    <2> QED BY <1>5, <2>1, OrphanAsked DEF Close
  <1>6. CASE CloseEnds
    <2>1. UNCHANGED <<entry, caller, gen>> /\ closed = "closing"
      BY <1>6 DEF CloseEnds, gateways
    <2>2. \A u \in Users : Sound(entry[u], closed')
      BY <1>6, <2>1 DEF CloseEnds, EntryInv, Sound
    <2>3. GenInv'
      BY <2>1, CalmStays, GensKept
    <2> QED BY <2>1, <2>2, <2>3 DEF EntryInv, User
  <1>7. ASSUME \/ \E c \in Callers : TurnBegins(c) \/ TurnEnds(c)
               \/ \E g \in Generations : Gateway(g)
               \/ Maintenance \/ UNCHANGED vars
        PROVE  EntryInv' /\ GenInv'
    BY <1>1, <1>7, CalmGateway DEF TurnBegins, TurnEnds, Gateway, Maintenance, registry, gateways, vars
  <1> QED BY <1>2, <1>3, <1>4, <1>5, <1>6, <1>7, OrphanStops DEF Next

\* A process that runs is the one of its user's entry, and none runs and no start
\* is under way when close has succeeded, whatever timeouts, failed starts,
\* recoveries and stops have met, for any users, callers and generations
\* (local-gateway-runtime.ts:381, registry.ts:332-342).
THEOREM NothingIsOrphaned == Spec => []NoOrphan
  <1>1. ASSUME DriveInv, EntryInv, GenInv PROVE NoOrphan
    <2>1. ASSUME NEW g \in Generations, Alive(g)
          PROVE  gen[g].user \in Users /\ entry[gen[g].user].runtime = g /\ g # 0
      <3>1. Living(gen[g])
        BY <1>1, <2>1 DEF GenInv, Childless, Living, Alive
      <3> QED BY <1>1, <3>1, RegistryAssumption DEF GenInv, Generations
    <2>2. ASSUME closed = "done", NEW g \in Generations PROVE ~Alive(g)
      BY <1>1, <2>1, <2>2 DEF EntryInv, Sound
    <2>3. ASSUME closed = "done", NEW c \in Callers PROVE caller[c].at \notin Drives
      BY <1>1, <2>3, Knows DEF Sound
    <2> QED BY <2>1, <2>2, <2>3 DEF NoOrphan
  <1> QED BY DriveInit, DriveNext, OrphanInit, OrphanNext, <1>1, PTL DEF Spec
=============================================================================
