--------------------------- MODULE GatewayRequests ---------------------------
(***************************************************************************)
(* The idempotent request ledger of one worker's gateway: the client's     *)
(* transport (websocket-app-server-transport.ts) resends what was not      *)
(* acknowledged after every reconnection, the gateway                      *)
(* (local-gateway-runtime.ts) decides from its durable ledger what is      *)
(* written to the Codex App Server, and the router answers the requests    *)
(* Codex itself makes (app-server-rpc-router.ts).                          *)
(*                                                                         *)
(* Gateway, transport and router live in one Node process and are replaced *)
(* together, with the Codex process they own; the ledger and the events    *)
(* survive.  The delivery of recorded events is the subject of             *)
(* EventReplay: here an event is recorded, and later delivered once.       *)
(*                                                                         *)
(* Abstractions.  A request is its clientRequestId, with the payload it    *)
(* always has.  A ledger call is atomic (it runs under the journal's lock).*)
(* Which unprotected receipts a compaction evicts depends on counts and    *)
(* sizes and is left open.                                                 *)
(***************************************************************************)
EXTENDS Naturals, Sequences, SequencesExt

CONSTANTS
    Turns,          \* thread-start and turn-start requests: protected receipts
    Reads,          \* requests whose receipts compaction may evict
    Notes,          \* notifications of the client
    Scoped,         \* requests of Codex that belong to a turn
    Unscoped,       \* requests of Codex outside any turn
    MaxSubmits,     \* bound: times a caller submits one request
    MaxDrops,       \* bound: connections that break by themselves
    MaxStarts,      \* bound: Codex processes
    MaxChatter      \* bound: events Codex prints of its own accord

Calls == Turns \cup Reads
Asks == Scoped \cup Unscoped
Ids == Calls \cup Notes \cup Asks

ASSUME KindsAssumption ==
    /\ Turns \cap (Reads \cup Notes \cup Asks) = {}
    /\ Reads \cap (Notes \cup Asks) = {} /\ Notes \cap Asks = {}
    /\ Scoped \cap Unscoped = {}
ASSUME IdsAssumption == "resume" \notin Ids
ASSUME BoundsAssumption == {MaxSubmits, MaxDrops, MaxStarts, MaxChatter} \subseteq Nat

VARIABLES
    receipts,       \* the ledger: the latest status of each request
    events,         \* recorded events of responses, not yet delivered
    open,           \* recorded events of Codex's requests, not acknowledged
    inFlight,       \* inFlightRequests
    current,        \* currentServerResponses
    confirming,     \* pendingResponseConfirmations
    lane,           \* clientFrameChain; via: whether a frame's socket is in use
    job,            \* the frame whose handler waits for the ledger or for stdin
    lines,          \* appServerOutputLines
    output,         \* what the handler of the first line waits for
    child, alive,   \* the number of the Codex process, and whether it runs
    written,        \* the requests written to each Codex process
    writes,         \* how often each request was written to any of them
    working,        \* what the running Codex process has still to answer
    asker,          \* the Codex process that made each request of its own
    link,           \* the state of the client's socket
    inbox,          \* frames under way to the client
    pending,        \* the transport's pending submissions, in order
    accepted,       \* the transport's accepted requests
    calls,          \* what the caller of each request knows
    submits, drops, chatter

ledgerVars == <<receipts, events, open>>
memoryVars == <<inFlight, current, confirming>>
laneVars == <<lane, job>>
outputVars == <<lines, output>>
codexVars == <<child, alive, written, writes, working, asker>>
linkVars == <<link, inbox>>
clientVars == <<pending, accepted, calls>>
bounds == <<submits, drops, chatter>>
vars == <<ledgerVars, memoryVars, laneVars, outputVars, codexVars, linkVars, clientVars, bounds>>

Resume == "resume"
NoJob == [id |-> Resume, via |-> "closed", step |-> "none"]
Frames == [type : {"ready", "accepted", "rejected"}, id : Ids \cup {Resume}]
Lines == [kind : {"response", "request", "progress"}, id : Ids \cup {Resume}]

TypeOK ==
    /\ receipts \in [Ids -> {"none", "accepted", "completed"}]
    /\ events \subseteq Calls /\ open \subseteq Asks
    /\ inFlight \subseteq Calls \cup Notes
    /\ current \subseteq Asks /\ confirming \subseteq Scoped
    /\ lane \in Seq([id : Ids \cup {Resume}, via : {"open", "closed"}])
    /\ job \in [id : Ids \cup {Resume}, via : {"open", "closed"}, step : {"none", "write", "complete"}]
    /\ lines \in Seq(Lines)
    /\ output \in {"idle", "record", "confirm"}
    /\ child \in Nat \ {0} /\ alive \in BOOLEAN
    /\ written \subseteq Ids \X Nat
    /\ writes \in [Ids -> Nat]
    /\ working \subseteq Ids
    /\ asker \in [Asks -> Nat]
    /\ link \in {"down", "opening", "ready"}
    /\ inbox \in Seq(Frames)
    /\ pending \in Seq(Ids) /\ accepted \subseteq Ids
    /\ calls \in [Calls \cup Notes ->
         {"idle", "sent", "accepted", "answered", "rejected", "failed"}]
    /\ submits \in [Calls \cup Notes -> 0 .. MaxSubmits]
    /\ drops \in 0 .. MaxDrops /\ chatter \in 0 .. MaxChatter

Init ==
    /\ receipts = [r \in Ids |-> "none"] /\ events = {} /\ open = {}
    /\ inFlight = {} /\ current = {} /\ confirming = {}
    /\ lane = <<>> /\ job = NoJob /\ lines = <<>> /\ output = "idle"
    /\ child = 1 /\ alive = TRUE
    /\ written = {} /\ writes = [r \in Ids |-> 0] /\ working = {}
    /\ asker = [q \in Asks |-> 0]
    /\ link = "down" /\ inbox = <<>>
    /\ pending = <<>> /\ accepted = {}
    /\ calls = [r \in Calls \cup Notes |-> "idle"]
    /\ submits = [r \in Calls \cup Notes |-> 0] /\ drops = 0 /\ chatter = 0

-----------------------------------------------------------------------------
(* The ledger.  complete() ends with compact(): receipts that only observe  *)
(* may go, those of creations and of effects, and uncertain ones, never.    *)

(* Mutant: compaction keeps no receipt for its purpose.                     *)
EvictableAll(completed) == {r \in Ids : completed[r] = "completed"}

Evictable(completed) == {r \in Reads \cup Notes : completed[r] = "completed"}

Complete(r) ==
    LET completed == [receipts EXCEPT ![r] = "completed"]
    IN  \E gone \in SUBSET Evictable(completed) :
          receipts' = [s \in Ids |-> IF s \in gone THEN "none" ELSE completed[s]]

(* A frame for the client, on the socket it is about: lost unless that      *)
(* socket is still in use.                                                  *)
Tell(via, type, r) ==
    /\ inbox' = IF via = "open" /\ link # "down" THEN Append(inbox, [type |-> type, id |-> r]) ELSE inbox
    /\ link' = link

Orphaned(frames) == [i \in DOMAIN frames |-> [frames[i] EXCEPT !.via = "closed"]]

(* The connection ends: what was under way to the client is lost, and what  *)
(* the client sent last may not have arrived.                               *)
Break ==
    /\ link' = "down" /\ inbox' = <<>>
    /\ \E n \in 0 .. Len(lane) : lane' = Orphaned(SubSeq(lane, 1, n))
    /\ job' = [job EXCEPT !.via = "closed"]

-----------------------------------------------------------------------------
(* The gateway's lane of client frames: one handler at a time, which waits  *)
(* for the ledger and for stdin.                                            *)

NextFrame(f) == job = NoJob /\ lane # <<>> /\ f = Head(lane) /\ lane' = Tail(lane)

HandleResume(f) ==
    /\ NextFrame(f) /\ f.id = Resume
    /\ Tell(f.via, "ready", Resume)
    /\ UNCHANGED <<ledgerVars, memoryVars, job, outputVars, codexVars, clientVars, bounds>>

(* The answer to a request of an earlier Codex process: keep a receipt and  *)
(* acknowledge it, but give the running process nothing.                    *)
(* Mutant: a reply is taken for whichever process runs.                     *)
FromNoChild(r) == FALSE

FromEarlierChild(r) == r \in Asks /\ r \notin current

HandleStaleReply(f) ==
    /\ NextFrame(f) /\ FromEarlierChild(f.id)
    /\ receipts' = [receipts EXCEPT ![f.id] = IF @ = "none" THEN "accepted" ELSE @]
    /\ Tell(f.via, "accepted", f.id)
    /\ UNCHANGED <<events, open, memoryVars, job, outputVars, codexVars, clientVars, bounds>>

Accepting(f) == NextFrame(f) /\ f.id \in Ids /\ ~FromEarlierChild(f.id)

(* A new request: its receipt is durable before it is written to Codex.     *)
Accept(f) ==
    /\ Accepting(f) /\ receipts[f.id] = "none"
    /\ receipts' = [receipts EXCEPT ![f.id] = "accepted"]
    /\ inFlight' = inFlight \cup ({f.id} \ Asks)
    /\ confirming' = confirming \cup ({f.id} \cap Scoped)
    /\ job' = [id |-> f.id, via |-> f.via, step |-> "write"]
    /\ UNCHANGED <<events, open, current, outputVars, codexVars, linkVars, clientVars, bounds>>

(* A reply whose effect Codex has not shown yet is written again.           *)
AcceptAgain(f) ==
    /\ Accepting(f) /\ f.id \in Asks /\ receipts[f.id] = "accepted"
    /\ confirming' = confirming \cup ({f.id} \cap Scoped)
    /\ job' = [id |-> f.id, via |-> f.via, step |-> "write"]
    /\ UNCHANGED <<ledgerVars, inFlight, current, outputVars, codexVars, linkVars, clientVars, bounds>>

(* The live Codex process has it already.                                   *)
HandleInFlight(f) ==
    /\ Accepting(f) /\ f.id \notin Asks /\ receipts[f.id] = "accepted" /\ f.id \in inFlight
    /\ Tell(f.via, "accepted", f.id)
    /\ UNCHANGED <<ledgerVars, memoryVars, job, outputVars, codexVars, clientVars, bounds>>

(* Mutant: an uncertain request is acknowledged.                            *)
AcknowledgeUncertain(f) ==
    /\ Accepting(f) /\ f.id \notin Asks /\ receipts[f.id] = "accepted" /\ f.id \notin inFlight
    /\ Tell(f.via, "accepted", f.id)
    /\ UNCHANGED <<ledgerVars, memoryVars, job, outputVars, codexVars, clientVars, bounds>>

(* An earlier one had it, or never got it: nobody can tell.                 *)
Reject(f) ==
    /\ Accepting(f) /\ f.id \notin Asks /\ receipts[f.id] = "accepted" /\ f.id \notin inFlight
    /\ Tell(f.via, "rejected", f.id)
    /\ UNCHANGED <<ledgerVars, memoryVars, job, outputVars, codexVars, clientVars, bounds>>

(* Its response is stored: acknowledge it and record the response again.    *)
HandleCompleted(f) ==
    /\ Accepting(f) /\ receipts[f.id] = "completed"
    /\ Tell(f.via, "accepted", f.id)
    /\ events' = events \cup ({f.id} \cap Calls)
    /\ UNCHANGED <<receipts, open, memoryVars, job, outputVars, codexVars, clientVars, bounds>>

Written(r) ==
    /\ written' = written \cup {<<r, child>>}
    /\ writes' = [writes EXCEPT ![r] = @ + 1]
    /\ working' = working \cup {r}
    /\ UNCHANGED <<child, alive, asker>>

(* A call is acknowledged once it is written; a scoped reply only when      *)
(* Codex shows that it went on; the others are completed first.             *)
Write ==
    /\ job.step = "write" /\ alive
    /\ Written(job.id)
    /\ IF job.id \in Calls THEN Tell(job.via, "accepted", job.id) ELSE UNCHANGED linkVars
    /\ job' = IF job.id \in Notes \cup Unscoped THEN [job EXCEPT !.step = "complete"] ELSE NoJob
    /\ UNCHANGED <<ledgerVars, memoryVars, lane, outputVars, clientVars, bounds>>

(* stdin is gone with the process: the receipt stays, uncertain, and the    *)
(* gateway closes the socket of the frame (code 1002).                      *)
WriteFails ==
    /\ job.step = "write" /\ ~alive
    /\ inFlight' = inFlight \ {job.id} /\ confirming' = confirming \ {job.id}
    /\ job' = NoJob
    /\ IF job.via = "open"
         THEN link' = "down" /\ inbox' = <<>> /\ lane' = Orphaned(lane)
         ELSE UNCHANGED <<linkVars, lane>>
    /\ UNCHANGED <<ledgerVars, current, outputVars, codexVars, clientVars, bounds>>

CompleteJob ==
    /\ job.step = "complete"
    /\ Complete(job.id)
    /\ inFlight' = inFlight \ {job.id} /\ current' = current \ {job.id}
    /\ Tell(job.via, "accepted", job.id)
    /\ job' = NoJob
    /\ UNCHANGED <<events, open, confirming, lane, outputVars, codexVars, clientVars, bounds>>

-----------------------------------------------------------------------------
(* The gateway's lane of output lines.                                      *)

Line(kind) == output = "idle" /\ lines # <<>> /\ Head(lines).kind = kind

(* A response: its receipt first, then its event.  A process that stops in  *)
(* between leaves the response in the ledger only.                          *)
HandleResponse ==
    /\ Line("response")
    /\ Complete(Head(lines).id)
    /\ inFlight' = inFlight \ {Head(lines).id}
    /\ output' = "record"
    /\ UNCHANGED <<events, open, current, confirming, laneVars, lines, codexVars, linkVars, clientVars, bounds>>

RecordResponse ==
    /\ output = "record"
    /\ events' = events \cup {Head(lines).id}
    /\ lines' = Tail(lines) /\ output' = "idle"
    /\ UNCHANGED <<receipts, open, memoryVars, laneVars, codexVars, linkVars, clientVars, bounds>>

(* A request of Codex: recorded, and from then on answerable.               *)
HandleRequest ==
    /\ Line("request")
    /\ open' = open \cup {Head(lines).id} /\ current' = current \cup {Head(lines).id}
    /\ output' = "confirm"
    /\ UNCHANGED <<receipts, events, inFlight, confirming, laneVars, lines, codexVars, linkVars, clientVars, bounds>>

HandleProgress ==
    /\ Line("progress")
    /\ output' = "confirm"
    /\ UNCHANGED <<ledgerVars, memoryVars, laneVars, lines, codexVars, linkVars, clientVars, bounds>>

(* Any event of its scope confirms a reply: complete it, then acknowledge   *)
(* it on the socket of the moment, whoever sent it.                         *)
Shown(q) == q \in confirming /\ (Head(lines).kind = "progress" \/ Head(lines).id \in Scoped)

Confirm(q) ==
    /\ output = "confirm" /\ Shown(q)
    /\ Complete(q)
    /\ confirming' = confirming \ {q} /\ current' = current \ {q}
    /\ Tell("open", "accepted", q)
    /\ UNCHANGED <<events, open, inFlight, laneVars, outputVars, codexVars, clientVars, bounds>>

Confirmed ==
    /\ output = "confirm" /\ \A q \in confirming : ~Shown(q)
    /\ lines' = Tail(lines) /\ output' = "idle"
    /\ UNCHANGED <<ledgerVars, memoryVars, laneVars, codexVars, linkVars, clientVars, bounds>>

-----------------------------------------------------------------------------
(* The Codex App Server, as the gateway's code relies on it: it answers     *)
(* each request once, goes on after a reply, and asks while a turn runs.    *)

Emit(kind, r) == lines' = Append(lines, [kind |-> kind, id |-> r])

Respond(r) ==
    /\ alive /\ r \in working \cap Calls
    /\ working' = working \ {r} /\ Emit("response", r)
    /\ UNCHANGED <<ledgerVars, memoryVars, laneVars, output, child, alive, written, writes,
                   asker, linkVars, clientVars, bounds>>

GoOn(q) ==
    /\ alive /\ q \in working \cap Scoped
    /\ working' = working \ {q} /\ Emit("progress", q)
    /\ UNCHANGED <<ledgerVars, memoryVars, laneVars, output, child, alive, written, writes,
                   asker, linkVars, clientVars, bounds>>

Ask(q) ==
    /\ alive /\ asker[q] = 0 /\ \E r \in Turns : <<r, child>> \in written
    /\ asker' = [asker EXCEPT ![q] = child] /\ Emit("request", q)
    /\ UNCHANGED <<ledgerVars, memoryVars, laneVars, output, child, alive, written, writes,
                   working, linkVars, clientVars, bounds>>

Chatter ==
    /\ alive /\ chatter < MaxChatter /\ chatter' = chatter + 1
    /\ \E r \in Turns : <<r, child>> \in written
    /\ Emit("progress", Resume)
    /\ UNCHANGED <<ledgerVars, memoryVars, laneVars, output, codexVars, linkVars, clientVars,
                   submits, drops>>

(* Codex exits: the gateway fails and closes its socket (code 1011).        *)
Exit ==
    /\ alive /\ child < MaxStarts /\ alive' = FALSE
    /\ Break
    /\ UNCHANGED <<ledgerVars, memoryVars, outputVars, child, written, writes, working,
                   asker, clientVars, bounds>>

(* Mutant: those who wait are not told.                                     *)
StartSilently ==
    /\ child < MaxStarts /\ child' = child + 1 /\ alive' = TRUE
    /\ inFlight' = {} /\ current' = {} /\ confirming' = {}
    /\ lane' = <<>> /\ job' = NoJob /\ lines' = <<>> /\ output' = "idle"
    /\ link' = "down" /\ inbox' = <<>> /\ working' = {}
    /\ pending' = <<>> /\ accepted' = {}
    /\ UNCHANGED <<ledgerVars, calls, written, writes, asker, bounds>>

(* A new process, after a crash or by the registry: only files survive, and *)
(* whoever waited for an answer is told that the connection is gone.        *)
Start ==
    /\ child < MaxStarts /\ child' = child + 1 /\ alive' = TRUE
    /\ inFlight' = {} /\ current' = {} /\ confirming' = {}
    /\ lane' = <<>> /\ job' = NoJob /\ lines' = <<>> /\ output' = "idle"
    /\ link' = "down" /\ inbox' = <<>> /\ working' = {}
    /\ pending' = <<>> /\ accepted' = {}
    /\ calls' = [r \in DOMAIN calls |->
                   IF calls[r] \in {"sent", "accepted"} /\ ~(r \in Notes /\ calls[r] = "accepted")
                   THEN "failed" ELSE calls[r]]
    /\ UNCHANGED <<ledgerVars, written, writes, asker, bounds>>

-----------------------------------------------------------------------------
(* The client's transport.                                                  *)

Frame(r) == [id |-> r, via |-> "open"]

Connect ==
    /\ link = "down"
    /\ link' = "opening"
    /\ lane' = Append(lane, Frame(Resume))
    /\ UNCHANGED <<ledgerVars, memoryVars, job, outputVars, codexVars, inbox, clientVars, bounds>>

Drop ==
    /\ link # "down" /\ drops < MaxDrops /\ drops' = drops + 1
    /\ Break
    /\ UNCHANGED <<ledgerVars, memoryVars, outputVars, codexVars, clientVars, submits, chatter>>

FrameIn(type) == inbox # <<>> /\ Head(inbox).type = type

(* Mutant: nothing is sent again.                                           *)
ReceiveReadyForgetting ==
    /\ FrameIn("ready") /\ link = "opening"
    /\ link' = "ready" /\ inbox' = Tail(inbox)
    /\ UNCHANGED <<ledgerVars, memoryVars, laneVars, outputVars, codexVars, clientVars, bounds>>

(* Every pending submission is sent again, in the order of the Map.         *)
ReceiveReady ==
    /\ FrameIn("ready") /\ link = "opening"
    /\ link' = "ready" /\ inbox' = Tail(inbox)
    /\ lane' = lane \o [i \in DOMAIN pending |-> Frame(pending[i])]
    /\ UNCHANGED <<ledgerVars, memoryVars, job, outputVars, codexVars, clientVars, bounds>>

Settle(r) == pending' = SelectSeq(pending, LAMBDA s : s # r)

Resolved(r, outcome) ==
    IF r \in DOMAIN calls /\ calls[r] = "sent" THEN [calls EXCEPT ![r] = outcome] ELSE calls

ReceiveAccepted(r) ==
    /\ FrameIn("accepted") /\ Head(inbox).id = r /\ link = "ready"
    /\ r \in Range(pending) \cup accepted
    /\ inbox' = Tail(inbox)
    /\ Settle(r) /\ accepted' = accepted \cup {r} /\ calls' = Resolved(r, "accepted")
    /\ UNCHANGED <<ledgerVars, memoryVars, laneVars, outputVars, codexVars, link, bounds>>

ReceiveRejected(r) ==
    /\ FrameIn("rejected") /\ Head(inbox).id = r /\ link = "ready"
    /\ r \in Range(pending)
    /\ inbox' = Tail(inbox)
    /\ Settle(r) /\ calls' = Resolved(r, "rejected")
    /\ UNCHANGED <<ledgerVars, memoryVars, laneVars, outputVars, codexVars, link, accepted, bounds>>

(* A frame before ready, or about a request this transport does not know:   *)
(* protocolFailure closes the socket and reconnects.                        *)
ReceiveUnexpected ==
    /\ inbox # <<>> /\ Head(inbox).type # "ready"
    /\ \/ link = "opening"
       \/ Head(inbox).id \notin Range(pending) \cup accepted
    /\ Break
    /\ UNCHANGED <<ledgerVars, memoryVars, outputVars, codexVars, clientVars, bounds>>

Submitted(r) ==
    /\ pending' = Append(pending, r)
    /\ lane' = IF link = "ready" THEN Append(lane, Frame(r)) ELSE lane

(* A caller submits a request, or submits it again under the same id after  *)
(* its process was replaced.                                                *)
Submit(r) ==
    /\ calls[r] \in {"idle", "failed"} /\ submits[r] < MaxSubmits
    /\ submits' = [submits EXCEPT ![r] = @ + 1]
    /\ Submitted(r) /\ calls' = [calls EXCEPT ![r] = "sent"]
    /\ UNCHANGED <<ledgerVars, memoryVars, job, outputVars, codexVars, linkVars, accepted, drops, chatter>>

(* The event of a response reaches the router.                              *)
Deliver(r) ==
    /\ r \in events /\ events' = events \ {r}
    /\ calls' = IF calls[r] \in {"sent", "accepted"} THEN [calls EXCEPT ![r] = "answered"] ELSE calls
    /\ UNCHANGED <<receipts, open, memoryVars, laneVars, outputVars, codexVars, linkVars,
                   pending, accepted, bounds>>

(* recoverResponse: a stored response answers without a request.            *)
Recover(r) ==
    /\ calls[r] = "failed" /\ receipts[r] = "completed"
    /\ calls' = [calls EXCEPT ![r] = "answered"]
    /\ UNCHANGED <<ledgerVars, memoryVars, laneVars, outputVars, codexVars, linkVars,
                   pending, accepted, bounds>>

(* The router answers a request of Codex; it acknowledges the event, and    *)
(* with it every later one, only when the gateway accepted the answer.      *)
Reply(q) ==
    /\ q \in open /\ q \notin Range(pending) \cup accepted
    /\ Submitted(q)
    /\ UNCHANGED <<ledgerVars, memoryVars, job, outputVars, codexVars, linkVars, accepted, calls, bounds>>

Acknowledge(q) ==
    /\ q \in open \cap accepted /\ open' = open \ {q}
    /\ UNCHANGED <<receipts, events, memoryVars, laneVars, outputVars, codexVars, linkVars, clientVars, bounds>>

-----------------------------------------------------------------------------
ClientLane ==
    \/ \E f \in Range(lane) :
         \/ HandleResume(f) \/ HandleStaleReply(f) \/ Accept(f) \/ AcceptAgain(f)
         \/ HandleInFlight(f) \/ Reject(f) \/ HandleCompleted(f)
    \/ Write \/ WriteFails \/ CompleteJob
OutputLane ==
    \/ HandleResponse \/ RecordResponse \/ HandleRequest \/ HandleProgress
    \/ \E q \in Scoped : Confirm(q)
    \/ Confirmed
Codex == (\E r \in Calls : Respond(r)) \/ (\E q \in Scoped : GoOn(q))
Receive ==
    \/ ReceiveReady \/ ReceiveUnexpected
    \/ \E r \in Ids : ReceiveAccepted(r) \/ ReceiveRejected(r)
Router ==
    \/ \E r \in Calls : Deliver(r)
    \/ \E q \in Asks : Reply(q) \/ Acknowledge(q)
Replace == ~alive /\ Start

Next ==
    \/ ClientLane \/ OutputLane \/ Codex \/ Receive \/ Router
    \/ \E q \in Asks : Ask(q)
    \/ Chatter \/ Exit \/ Start \/ Connect \/ Drop
    \/ \E r \in Calls \cup Notes : Submit(r)
    \/ \E r \in Calls : Recover(r)

Spec == Init /\ [][Next]_vars

(* The lanes of one process run on, the transport reconnects and the        *)
(* registry replaces a worker whose Codex exited; nothing else is promised. *)
FairSpec ==
    /\ Spec
    /\ WF_vars(ClientLane) /\ WF_vars(OutputLane)
    /\ \A r \in Calls : WF_vars(Respond(r))
    /\ \A q \in Scoped : WF_vars(GoOn(q))
    /\ WF_vars(Receive) /\ WF_vars(Connect) /\ WF_vars(Replace)
    /\ \A r \in Calls : WF_vars(Deliver(r))
    /\ \A q \in Asks : WF_vars(Reply(q)) /\ WF_vars(Acknowledge(q))

-----------------------------------------------------------------------------
(* A creation is never written to Codex twice: not by a reconnection, not   *)
(* by a restart that finds an uncertain receipt, not after a compaction     *)
(* (accept, compact and the in-flight test of acceptRequest).               *)
AtMostOnce == \A r \in Turns : writes[r] <= 1

(* Only the Codex process that asked gets the answer                        *)
(* (currentServerResponses in acceptRequest).                               *)
RepliesGoToTheirAsker == \A q \in Asks : \A n \in 1 .. child : <<q, n>> \in written => n = asker[q]

(* What callers are told is true: nobody hears that a request was accepted, *)
(* or gets an answer to it, unless some Codex process got it, and the       *)
(* outcome of a creation is called uncertain only when the running process  *)
(* never got it (acceptRequest).                                            *)
OutcomesAreTrue ==
    /\ \A r \in DOMAIN calls : calls[r] \in {"accepted", "answered"} => writes[r] > 0
    /\ \A r \in Turns : calls[r] = "rejected" => <<r, child>> \notin written

(* A request of Codex does not block the delivery cursor for ever.          *)
AsksSettle == \A q \in Asks : q \in open ~> q \notin open

(* Every submitted request ends: answered (a notification: accepted), or    *)
(* told that its outcome is uncertain or that the connection is gone.       *)
CallsSettle ==
    \A r \in Calls \cup Notes :
      calls[r] = "sent" ~> calls[r] \in {"answered", "rejected", "failed"}
                           \/ (r \in Notes /\ calls[r] = "accepted")
=============================================================================
