--------------------------- MODULE WorkerRegistry ---------------------------
(***************************************************************************)
(* The registry of the workers of an installation (src/src/runtime/        *)
(* workers/registry.ts) with the gateway process each entry owns           *)
(* (local-gateway-runtime.ts) and the maintenance gate its starts pass     *)
(* (MaintenanceDrain).  One process, many asynchronous calls: a step is    *)
(* what runs between two awaits.                                           *)
(*                                                                         *)
(* A generation is one runtime made by the factory; it never revives.  Its *)
(* own start goes on in the background when the registry has lost patience. *)
(***************************************************************************)
EXTENDS MaintenanceDrain, Sequences

CONSTANTS Users, Callers, Nobody,
          Concurrency,    \* maxConcurrentStarts
          Pending,        \* maxPendingStarts
          MaxGenerations, \* bound: runtimes made
          MaxCalls        \* bound: calls from outside

ASSUME RegistryAssumption ==
  /\ Nobody \notin Users \union Callers
  /\ Concurrency \in Nat \ {0}
  /\ {Pending, MaxGenerations, MaxCalls} \subseteq Nat

Generations == 1..MaxGenerations
Leases == Callers \X {"turn", "worker-start"}

VARIABLES entry,  \* user -> what the registry holds for the user
          caller, \* a call of start: where it is and for whom
          queue,  \* the callers that wait for a start slot, in order
          slots,  \* start slots taken
          closed, \* no, closing, done or failed
          gen,    \* generation -> its gateway
          owner,  \* user -> the generation that owns the journals, or 0
          calls

registry == <<entry, caller, queue, slots, closed>>
gateways == <<gen, owner>>
vars == <<phase, activities, drain, entry, caller, queue, slots, closed,
          gen, owner, calls>>

Unborn == [user |-> Nobody, at |-> "unborn", retired |-> "no", child |-> "no"]

Init ==
  /\ MaintenanceInit
  /\ entry = [u \in Users |-> [runtime |-> 0, handle |-> 0, start |-> Nobody, stop |-> "none"]]
  /\ caller = [c \in Callers |-> [at |-> "idle", user |-> Nobody]]
  /\ queue = << >> /\ slots = 0 /\ closed = "no"
  /\ gen = [g \in Generations |-> Unborn]
  /\ owner = [u \in Users |-> 0]
  /\ calls = 0

At(c, p) == caller[c].at = p
User(c) == caller[c].user
Go(c, p) == caller' = [caller EXCEPT ![c].at = p]
Runtime(c) == entry[User(c)].runtime
Turn(c) == <<c, "turn">>
Admission(c) == <<c, "worker-start">>
Called == calls < MaxCalls /\ calls' = calls + 1
HasTurn(c) == Turn(c) \in activities

----------------------------------------------------------------------------
(* The gateway of a generation.                                            *)

Retired(g) == gen[g].retired # "no"

\* What a stop finds: no process yet, or one to end.
Mark(g) ==
  IF Retired(g) THEN gen[g].retired
  ELSE IF gen[g].at \in {"acquire", "owner", "repair"} THEN "early" ELSE "yes"

Retire(g) == gen' = [gen EXCEPT ![g].retired = Mark(g)]

\* Its start takes the journals for itself ...
TakeJournals(g) ==
  /\ gen[g].at = "acquire"
  /\ IF owner[gen[g].user] = 0
     THEN /\ owner' = [owner EXCEPT ![gen[g].user] = g]
          /\ gen' = [gen EXCEPT ![g].at = "owner"]
     ELSE gen' = [gen EXCEPT ![g].at = "over", ![g].retired = "yes"] /\ UNCHANGED owner

\* MUTANT of KeepJournals: a start that was stopped keeps the journals.
KeepJournalsAnyway(g) ==
  /\ gen[g].at = "owner"
  /\ gen' = [gen EXCEPT ![g].at = IF Retired(g) THEN "over" ELSE "repair"]
  /\ UNCHANGED owner

\* ... unless it has been stopped meanwhile.
KeepJournals(g) ==
  /\ gen[g].at = "owner"
  /\ gen' = [gen EXCEPT ![g].at = IF Retired(g) THEN "over" ELSE "repair"]
  /\ owner' = IF Retired(g) THEN [owner EXCEPT ![gen[g].user] = 0] ELSE owner

\* A start that fails ends its process and gives the journals back, when no
\* stop does it.
GatewayFails(g) ==
  /\ gen[g].at \in {"repair", "listen"}
  /\ IF Retired(g)
     THEN gen' = [gen EXCEPT ![g].at = "over"] /\ UNCHANGED owner
     ELSE /\ gen' = [gen EXCEPT ![g].at = "over", ![g].retired = "yes", ![g].child = "no"]
          /\ owner' = [owner EXCEPT ![gen[g].user] = 0]

\* MUTANT of JournalsRepaired: a stop that came during the repair is missed.
JournalsRepairedBlindly(g) ==
  /\ gen[g].at = "repair"
  /\ gen' = [gen EXCEPT ![g].at = "listen", ![g].child = "yes"]
  /\ UNCHANGED owner

JournalsRepaired(g) ==
  /\ gen[g].at = "repair"
  /\ gen' = IF Retired(g) THEN [gen EXCEPT ![g].at = "over"]
            ELSE [gen EXCEPT ![g].at = "listen", ![g].child = "yes"]
  /\ UNCHANGED owner

Listens(g) ==
  /\ gen[g].at = "listen"
  /\ gen' = [gen EXCEPT ![g].at = IF Retired(g) THEN "over" ELSE "up"]
  /\ UNCHANGED owner

\* The Codex process ends by itself.  While the gateway binds its port the
\* failure is noted and then overwritten: the gateway runs without a process.
ChildExits(g) ==
  /\ gen[g].at \in {"listen", "up"} /\ gen[g].child = "yes"
  /\ gen' = [gen EXCEPT ![g].child = "no",
                        ![g].at = IF @ = "up" /\ ~Retired(g) THEN "failed" ELSE @]
  /\ UNCHANGED owner

GatewayStarts(g) ==
  TakeJournals(g) \/ KeepJournals(g) \/ GatewayFails(g) \/ JournalsRepaired(g) \/ Listens(g)

Gateway(g) ==
  /\ GatewayStarts(g) \/ ChildExits(g)
  /\ UNCHANGED registry /\ UNCHANGED maintenance /\ UNCHANGED calls

\* A stop has to see the end of a repair or a bind it has found under way.
CanBeStopped(g) == Retired(g) /\ gen[g].at \notin {"repair", "listen"}

\* The end of a stop that fails: it keeps what it has.
NotStopped(g) == CanBeStopped(g) /\ UNCHANGED gateways

\* The end of a stop: no process, and the journals are free if it had them.
Stopped(g) ==
  /\ CanBeStopped(g)
  /\ gen' = [gen EXCEPT ![g].child = IF gen[g].retired = "early" THEN @ ELSE "no",
                        ![g].at = IF @ \in {"acquire", "owner"} THEN @ ELSE "over"]
  /\ owner' = IF owner[gen[g].user] = g /\ gen[g].at # "owner"
              THEN [owner EXCEPT ![gen[g].user] = 0] ELSE owner

----------------------------------------------------------------------------
(* A call of start.                                                        *)

\* MUTANT of NextInLine: whoever waits is not woken.
NextInLineNobody(holdsSlot) == Nobody

NextInLine(holdsSlot) == IF holdsSlot /\ queue # << >> THEN Head(queue) ELSE Nobody

\* The start of u that c drives has ended: whoever joined it has its answer,
\* its admission is given back, and its slot goes to the first who waits.
Settle(c, holdsSlot) ==
  LET u == User(c)
      next == NextInLine(holdsSlot)
  IN /\ caller' = [d \in Callers |->
          IF d = c \/ (At(d, "joined") /\ User(d) = u) THEN [at |-> "idle", user |-> Nobody]
          ELSE IF d = next THEN [caller[d] EXCEPT !.at = "provision"]
          ELSE caller[d]]
     /\ queue' = IF next # Nobody THEN Tail(queue) ELSE queue
     /\ slots' = IF holdsSlot /\ next = Nobody THEN slots - 1 ELSE slots
     /\ ReleaseAll({Admission(c)})

\* The start of c has failed before it had a runtime, or nothing is left of it.
Ended(c, holdsSlot) ==
  /\ Settle(c, holdsSlot)
  /\ entry' = [entry EXCEPT ![User(c)].start = Nobody]

HasRoom == slots < Concurrency

\* c comes to the gate of the starts with e in the registry: it gets a slot,
\* waits for one or is refused.
Gate(c, u, e) ==
  /\ entry' = e
  /\ \/ /\ closed = "no" /\ HasRoom
        /\ slots' = slots + 1 /\ UNCHANGED queue
        /\ caller' = [caller EXCEPT ![c] = [at |-> "provision", user |-> u]]
     \/ /\ closed = "no" /\ ~HasRoom /\ Len(queue) < Pending
        /\ queue' = Append(queue, c) /\ UNCHANGED slots
        /\ caller' = [caller EXCEPT ![c] = [at |-> "queued", user |-> u]]
     \/ /\ closed # "no" \/ (~HasRoom /\ Len(queue) >= Pending)
        /\ caller' = [caller EXCEPT ![c] = [at |-> "refused", user |-> u]]
        /\ UNCHANGED <<queue, slots>>

\* MUTANT of Busy: nobody looks whether somebody starts the worker.
BusyStopping(u) == entry[u].stop # "none"

Busy(u) == entry[u].stop # "none" \/ entry[u].start # Nobody

\* MUTANT of Admitted: a start without a turn holds no activity.
AdmittedWithout(c) == UNCHANGED maintenance

Admitted(c) == IF HasTurn(c) THEN UNCHANGED maintenance ELSE Acquire(Admission(c))

\* What start does before its first await.
Begin(c, u) ==
  \/ \* refused: the registry is closed, or a runtime could not be cleaned up,
     \* or the installation admits nothing
     /\ \/ closed # "no"
        \/ /\ ~Busy(u) /\ entry[u].handle = 0
           /\ entry[u].runtime # 0 \/ (~HasTurn(c) /\ phase # "accepting")
     /\ caller' = [caller EXCEPT ![c] = [at |-> "idle", user |-> Nobody]]
     /\ UNCHANGED <<entry, queue, slots>> /\ UNCHANGED maintenance
  \/ \* the user is being stopped, or somebody starts it
     /\ closed = "no" /\ Busy(u)
     /\ caller' = [caller EXCEPT ![c] =
          [at |-> IF entry[u].stop # "none" THEN "stopping" ELSE "joined", user |-> u]]
     /\ UNCHANGED <<entry, queue, slots>> /\ UNCHANGED maintenance
  \/ \* there is a worker: ask how it is
     /\ closed = "no" /\ ~Busy(u) /\ entry[u].handle # 0
     /\ entry' = [entry EXCEPT ![u].start = c]
     /\ caller' = [caller EXCEPT ![c] = [at |-> "health", user |-> u]]
     /\ UNCHANGED <<queue, slots>> /\ UNCHANGED maintenance
  \/ \* there is none
     /\ closed = "no" /\ ~Busy(u) /\ entry[u].handle = 0 /\ entry[u].runtime = 0
     /\ Admitted(c)
     /\ Gate(c, u, [entry EXCEPT ![u].start = c])

Start(c, u) ==
  /\ At(c, "idle")
  /\ Called
  /\ Begin(c, u)
  /\ UNCHANGED closed /\ UNCHANGED gateways

\* The stop it waited for has ended.
StartAgain(c) ==
  /\ At(c, "again")
  /\ Begin(c, User(c))
  /\ UNCHANGED closed /\ UNCHANGED calls /\ UNCHANGED gateways

Refused(c) ==
  /\ At(c, "refused")
  /\ Ended(c, FALSE)
  /\ UNCHANGED closed /\ UNCHANGED calls /\ UNCHANGED gateways

\* Somebody ends what a recovery would bring back.
Fenced(u) == closed # "no" \/ entry[u].stop # "none"

\* The worker is handed out unless its controller is dead; then its generation
\* is retired, under an admission of its own.
AskHealth(c) ==
  /\ At(c, "health")
  /\ LET dead == gen[Runtime(c)].at \in {"failed", "over"}
         fenced == Fenced(User(c))
     IN \/ /\ ~dead \/ fenced \/ (~HasTurn(c) /\ phase # "accepting")
           /\ Ended(c, FALSE) /\ UNCHANGED gen
        \/ /\ dead /\ ~fenced
           /\ Admitted(c)
           /\ Go(c, "recover") /\ Retire(Runtime(c))
           /\ UNCHANGED <<entry, queue, slots>>
  /\ UNCHANGED <<closed, owner>> /\ UNCHANGED calls

\* The dead generation is gone, or it could not be stopped.
Recover(c) ==
  LET u == User(c)
  IN /\ At(c, "recover")
     /\ \/ /\ NotStopped(Runtime(c))
           /\ Settle(c, FALSE)
           /\ entry' = [entry EXCEPT ![u].handle = 0, ![u].start = Nobody]
        \/ /\ Stopped(Runtime(c))
           /\ IF Fenced(u)
              THEN /\ Settle(c, FALSE)
                   /\ entry' = [entry EXCEPT ![u].handle = 0, ![u].runtime = 0, ![u].start = Nobody]
              ELSE /\ Gate(c, u, [entry EXCEPT ![u].handle = 0, ![u].runtime = 0])
                   /\ UNCHANGED maintenance
     /\ UNCHANGED closed /\ UNCHANGED calls

Provision(c) ==
  /\ At(c, "provision")
  /\ \/ Ended(c, TRUE)
     \/ /\ closed = "no" /\ Go(c, "create")
        /\ UNCHANGED <<entry, queue, slots>> /\ UNCHANGED maintenance
  /\ UNCHANGED closed /\ UNCHANGED calls /\ UNCHANGED gateways

\* The factory makes a generation, whose gateway starts.
Create(c) ==
  /\ At(c, "create")
  /\ \/ Ended(c, TRUE) /\ UNCHANGED gen
     \/ \E g \in Generations :
          /\ gen[g].at = "unborn" /\ \A h \in 1..(g - 1) : gen[h].at # "unborn"
          /\ gen' = [gen EXCEPT ![g] = [Unborn EXCEPT !.user = User(c), !.at = "acquire"]]
          /\ entry' = [entry EXCEPT ![User(c)].runtime = g]
          /\ Go(c, "gateway")
          /\ UNCHANGED <<queue, slots>> /\ UNCHANGED maintenance
  /\ UNCHANGED <<closed, owner>> /\ UNCHANGED calls

\* The gateway is up, or it has failed or taken too long: it is retired.
Connect(c) ==
  /\ At(c, "gateway")
  /\ \/ gen[Runtime(c)].at = "up" /\ Go(c, "connect") /\ UNCHANGED gen
     \/ Go(c, "undo") /\ Retire(Runtime(c))
  /\ UNCHANGED <<entry, queue, slots, closed, owner>>
  /\ UNCHANGED maintenance /\ UNCHANGED calls

Connected(c) ==
  /\ At(c, "connect")
  /\ \/ /\ Settle(c, TRUE)
        /\ entry' = [entry EXCEPT ![User(c)].handle = Runtime(c), ![User(c)].start = Nobody]
        /\ UNCHANGED gen
     \/ /\ Go(c, "undo") /\ Retire(Runtime(c))
        /\ UNCHANGED <<entry, queue, slots>> /\ UNCHANGED maintenance
  /\ UNCHANGED <<closed, owner>> /\ UNCHANGED calls

\* A generation that cannot be stopped stays with the entry.
Undo(c) ==
  /\ At(c, "undo")
  /\ Settle(c, TRUE)
  /\ \/ entry' = [entry EXCEPT ![User(c)].start = Nobody] /\ NotStopped(Runtime(c))
     \/ /\ Stopped(Runtime(c))
        /\ entry' = [entry EXCEPT ![User(c)].runtime = 0, ![User(c)].start = Nobody]
  /\ UNCHANGED closed /\ UNCHANGED calls

----------------------------------------------------------------------------
(* Stop and close.                                                         *)

\* What a stop of u finds: a start to wait for, nothing, or a generation.
Stopping(u) ==
  IF entry[u].start # Nobody THEN "waiting"
  ELSE IF entry[u].runtime = 0 THEN "none" ELSE "closing"

Asked(S) ==
  [u \in Users |-> IF u \in S /\ entry[u].stop = "none"
                   THEN [entry[u] EXCEPT !.stop = Stopping(u)] ELSE entry[u]]

RetiredBy(S) ==
  [g \in Generations |->
     IF \E u \in S : entry[u].stop = "none" /\ Stopping(u) = "closing" /\ entry[u].runtime = g
     THEN [gen[g] EXCEPT !.retired = Mark(g)] ELSE gen[g]]

Stop(u) ==
  /\ Called
  /\ entry' = Asked({u}) /\ gen' = RetiredBy({u})
  /\ UNCHANGED <<caller, queue, slots, closed, owner>> /\ UNCHANGED maintenance

\* Nobody waits for a slot any more; every user is stopped.
Close ==
  /\ Called
  /\ closed \in {"no", "failed"}
  /\ closed' = "closing"
  /\ caller' = [c \in Callers |-> IF At(c, "queued") THEN [caller[c] EXCEPT !.at = "refused"]
                                  ELSE caller[c]]
  /\ queue' = << >>
  /\ entry' = Asked(Users) /\ gen' = RetiredBy(Users)
  /\ UNCHANGED <<slots, owner>> /\ UNCHANGED maintenance

\* MUTANT of Answer: a stop that fails answers nobody.
AnswerSuccess(u, p) ==
  caller' = [c \in Callers |->
     IF At(c, "stopping") /\ User(c) = u /\ p = "again"
     THEN [caller[c] EXCEPT !.at = p] ELSE caller[c]]

\* Whoever waits for the stop of u starts again, or fails with it.
Answer(u, p) ==
  caller' = [c \in Callers |->
     IF At(c, "stopping") /\ User(c) = u
     THEN [caller[c] EXCEPT !.at = p, !.user = IF p = "idle" THEN Nobody ELSE @]
     ELSE caller[c]]

\* The start a stop waited for has ended.
StopProceeds(u) ==
  /\ entry[u].stop = "waiting" /\ entry[u].start = Nobody
  /\ entry' = [entry EXCEPT ![u].stop = Stopping(u), ![u].handle = IF entry[u].runtime = 0 THEN 0 ELSE @]
  /\ IF entry[u].runtime = 0
     THEN Answer(u, "again") /\ UNCHANGED gen
     ELSE Retire(entry[u].runtime) /\ UNCHANGED caller
  /\ UNCHANGED <<queue, slots, closed, owner>> /\ UNCHANGED maintenance /\ UNCHANGED calls

StopEnds(u) ==
  /\ entry[u].stop = "closing"
  /\ \/ /\ entry' = [entry EXCEPT ![u].stop = "none", ![u].handle = 0]
        /\ Answer(u, "idle") /\ NotStopped(entry[u].runtime)
     \/ /\ Stopped(entry[u].runtime)
        /\ entry' = [entry EXCEPT ![u].stop = "none", ![u].handle = 0, ![u].runtime = 0]
        /\ Answer(u, "again")
  /\ UNCHANGED <<queue, slots, closed>> /\ UNCHANGED maintenance /\ UNCHANGED calls

CloseEnds ==
  /\ closed = "closing"
  /\ \A u \in Users : entry[u].stop = "none"
  /\ closed' = IF \A u \in Users : entry[u].runtime = 0 THEN "done" ELSE "failed"
  /\ UNCHANGED <<entry, caller, queue, slots>> /\ UNCHANGED gateways
  /\ UNCHANGED maintenance /\ UNCHANGED calls

----------------------------------------------------------------------------
(* A turn holds its activity over the starts it makes.                     *)

TurnBegins(c) ==
  /\ At(c, "idle") /\ ~HasTurn(c)
  /\ Called
  /\ Acquire(Turn(c))
  /\ UNCHANGED registry /\ UNCHANGED gateways

TurnEnds(c) ==
  /\ At(c, "idle") /\ HasTurn(c)
  /\ ReleaseAll({Turn(c)})
  /\ UNCHANGED registry /\ UNCHANGED gateways /\ UNCHANGED calls

CallStep(c) ==
  \/ StartAgain(c) \/ Refused(c) \/ AskHealth(c) \/ Recover(c) \/ Provision(c)
  \/ Create(c) \/ Connect(c) \/ Connected(c) \/ Undo(c)

Maintenance ==
  /\ \/ Enter /\ Called
     \/ (DrainTimesOut \/ Resume) /\ UNCHANGED calls
  /\ UNCHANGED registry /\ UNCHANGED gateways

Next ==
  \/ \E c \in Callers : CallStep(c) \/ TurnBegins(c) \/ TurnEnds(c) \/ \E u \in Users : Start(c, u)
  \/ \E u \in Users : Stop(u) \/ StopProceeds(u) \/ StopEnds(u)
  \/ \E g \in Generations : Gateway(g)
  \/ Close \/ CloseEnds \/ Maintenance

Spec == Init /\ [][Next]_vars

\* Every await of the registry ends: provisioning, the factory, the gateway's
\* own start and a stop settle by themselves, a start that does not is given up
\* (workerConnectTimeoutMs).  Nothing is asked of callers, of the operator or
\* of the Codex process.
Fairness ==
  /\ \A c \in Callers : WF_vars(CallStep(c))
  /\ \A u \in Users : WF_vars(StopProceeds(u)) /\ WF_vars(StopEnds(u))
  /\ \A g \in Generations : WF_vars(GatewayStarts(g) /\ Gateway(g))

FairSpec == Spec /\ Fairness

----------------------------------------------------------------------------
(* Properties.                                                             *)

Alive(g) == gen[g].child = "yes"
InSlot == {"provision", "create", "gateway", "connect", "undo"}
\* Where a caller drives a start that may make, retire or end a generation.
AtWork == InSlot \union {"recover", "queued", "refused"}
Drives == AtWork \union {"health"}

\* Every variable stays in its domain; no more starts than there are slots.
TypeOK ==
  /\ MaintenanceTypeOK(Leases)
  /\ entry \in [Users -> [runtime : 0..MaxGenerations, handle : 0..MaxGenerations,
                          start : Callers \union {Nobody}, stop : {"none", "waiting", "closing"}]]
  /\ caller \in [Callers -> [at : {"idle", "stopping", "again", "joined"} \union Drives,
                             user : Users \union {Nobody}]]
  /\ queue \in Seq(Callers) /\ slots \in 0..Concurrency
  /\ closed \in {"no", "closing", "done", "failed"}
  /\ gen \in [Generations ->
       [user : Users \union {Nobody}, retired : {"no", "early", "yes"}, child : {"no", "yes"},
        at : {"unborn", "acquire", "owner", "repair", "listen", "up", "failed", "over"}]]
  /\ owner \in [Users -> 0..MaxGenerations]
  /\ calls \in Nat

\* A Codex process that runs belongs to the generation its user's entry holds:
\* whatever timeouts, failed starts, recoveries and stops have met, none is
\* left over, and no user has two (local-gateway-runtime.ts:381, registry.ts:370).
\* When close has succeeded none runs and no start is under way (registry.ts:332-342).
NoOrphan ==
  /\ \A g \in Generations : Alive(g) => entry[gen[g].user].runtime = g
  /\ closed = "done" => /\ \A g \in Generations : ~Alive(g)
                        /\ \A c \in Callers : caller[c].at \notin Drives

\* Start slots are neither leaked nor exceeded nor left idle: each is held by a
\* start under way, and a start waits only while all are taken (registry.ts:75-77).
SlotsAccounted ==
  /\ slots = Cardinality({c \in Callers : caller[c].at \in InSlot})
  /\ queue # << >> => slots = Concurrency
  /\ \A c \in Callers : At(c, "queued") <=> \E i \in DOMAIN queue : queue[i] = c

\* At most one call drives the worker of a user, also after the stop several
\* were waiting for; the others share its answer (registry.ts:227-239).
OneDriver ==
  \A c, d \in Callers :
    caller[c].at \in Drives /\ caller[d].at \in Drives /\ User(c) = User(d) => c = d

\* The operator who was told that the installation is in maintenance can rely
\* on it until it is resumed: nothing is admitted and nothing is active
\* (maintenance.ts:170-220).
ToldTheTruth == drain = "entered" => phase = "maintenance" /\ activities = {}

\* In maintenance no worker is being started, retired or recovered, whoever
\* asked for it and under whatever lease (registry.ts:242-244, :363-365).
MaintenanceIsQuiet ==
  phase = "maintenance" => activities = {} /\ \A c \in Callers : caller[c].at \notin AtWork

\* Every call of start gets its answer, through queues, shared starts, stops it
\* waits for, failed recoveries and close, and every stop ends, although it waits
\* for a start that may itself be waiting (registry.ts:212-256, :454).
CallsAnswered ==
  /\ \A c \in Callers : ~At(c, "idle") ~> At(c, "idle")
  /\ \A u \in Users : entry[u].stop # "none" ~> entry[u].stop = "none"

\* A drain is over once the turns have ended: the starts it found end by
\* themselves and the last one completes it (maintenance.ts:133).
DrainsEnd == (phase = "draining" /\ \A c \in Callers : ~HasTurn(c)) ~> phase # "draining"

\* The journals of a user that has no worker become free for the next one, also
\* when a gateway takes them after it was stopped (local-gateway-runtime.ts:461).
JournalsComeFree ==
  \A u \in Users : (owner[u] # 0 /\ entry[u].runtime = 0) ~> (owner[u] = 0 \/ entry[u].runtime # 0)
=============================================================================
