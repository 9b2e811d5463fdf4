----------------------------- MODULE EventReplay -----------------------------
(***************************************************************************)
(* The durable replay of one worker's events: local-gateway-runtime.ts     *)
(* records what the Codex App Server prints, websocket-app-server-         *)
(* transport.ts receives it over a socket that may break and reconnect,    *)
(* and app-server-rpc-router.ts handles and acknowledges it.  Both sides   *)
(* keep a file-event-journal.ts: the events and a delivery cursor.         *)
(*                                                                         *)
(* Both sides live in one Node process.  It may crash, and the registry    *)
(* may replace the gateway, the transport and the router while handlers of *)
(* the replaced router are still running; the journals survive both.       *)
(*                                                                         *)
(* Abstractions.  An event is its sequence number, a journal the interval  *)
(* of the events it retains.  A journal call is atomic: it runs under the  *)
(* journal's lock, in the order of the calls.  Heartbeats, credentials and *)
(* back-off delays are left out; what they do to a connection is Drop.     *)
(***************************************************************************)
EXTENDS Naturals, Sequences

CONSTANTS
    Conns,          \* names of sockets; a name is reused when nothing uses it
    NoConn,         \* "null"
    QueueCap,       \* maxEventBuffer
    PageSize,       \* events read at once from the backlog
    Retained,       \* maxRetainedDeliveredEvents
    MaxSeq,         \* bound: events recorded
    MaxDrops,       \* bound: connections that break by themselves
    MaxCrashes,     \* bound: crashes of the Node process
    MaxRetires      \* bound: replacements of a worker that has not failed

ASSUME ConnsAssumption == NoConn \notin Conns
ASSUME BoundsAssumption ==
    /\ {QueueCap, PageSize, Retained} \subseteq Nat \ {0}
    /\ {MaxSeq, MaxDrops, MaxCrashes, MaxRetires} \subseteq Nat

VARIABLES
    gJ, cJ,         \* the journals of the gateway and of the client
    unsent,         \* an event appended to gJ, not yet sent live (0: none)
    active,         \* the gateway's activeSocket
    resume,         \* the resume handshake the gateway's frame chain runs
    acks,           \* the gateway's eventAcknowledgementChain
    up, down,       \* frames under way from and to the client, per socket
    knocking,       \* sockets whose handshake the gateway has yet to see
    sock, link,     \* the client's socket and its readiness
    state,          \* the transport's state
    handling,       \* what the transport's messageChain waits for
    cursor,         \* the transport's replay cursor
    loaded,         \* the backlog is known, and the router consumes
    target,         \* durableBacklogTargetSequence
    yielded,        \* durableBacklogYieldedThrough
    page, queue,    \* events read from the backlog, and the live eventQueue
    router, old,    \* the router, and the one replaced before it
    handled,        \* the events whose handling has finished in some router
    drops, crashes, retires

journals == <<gJ, cJ>>
gatewayVars == <<unsent, active, resume, acks>>
network == <<up, down, knocking>>
clientVars == <<sock, link, state, handling, cursor, loaded, target>>
streamVars == <<yielded, page, queue>>
routerVars == <<router, old, handled>>
bounds == <<drops, crashes, retires>>
vars == <<journals, gatewayVars, network, clientVars, streamVars, routerVars, bounds>>

NoResume == [conn |-> NoConn, stage |-> "none", seq |-> 0, upto |-> 0]
NoFrame == [type |-> "none", seq |-> 0]

(* next: nextAcknowledgementSequence (0: null); running and settled: the    *)
(* events in routing and in readyToAcknowledge; last: the last one          *)
(* dispatched; broken: acknowledgementChain rejected; failed: fatalError.   *)
NewRouter == [next |-> 0, running |-> {}, settled |-> {}, last |-> 0,
              broken |-> FALSE, failed |-> FALSE]

Frames == [type : {"none", "resume", "ack", "ready", "event"}, seq : 0 .. MaxSeq]
Journals == [first : 1 .. MaxSeq + 1, last : 0 .. MaxSeq, delivered : 0 .. MaxSeq]
Routers == [next : 0 .. MaxSeq + 1, running : SUBSET (1 .. MaxSeq),
            settled : SUBSET (1 .. MaxSeq), last : 0 .. MaxSeq,
            broken : BOOLEAN, failed : BOOLEAN]

TypeOK ==
    /\ gJ \in Journals /\ cJ \in Journals
    /\ unsent \in 0 .. MaxSeq
    /\ active \in Conns \cup {NoConn}
    /\ resume \in [conn : Conns \cup {NoConn}, seq : 0 .. MaxSeq, upto : 0 .. MaxSeq,
                   stage : {"none", "validated", "ready", "read"}]
    /\ acks \in Seq([conn : Conns, seq : 0 .. MaxSeq])
    /\ up \in [Conns -> Seq(Frames)] /\ down \in [Conns -> Seq(Frames)]
    /\ knocking \subseteq Conns
    /\ sock \in Conns \cup {NoConn}
    /\ link \in {"none", "connecting", "open", "closing"}
    /\ state \in {"connecting", "connected"}
    /\ handling \in Frames
    /\ {cursor, target, yielded} \subseteq 0 .. MaxSeq
    /\ loaded \in BOOLEAN
    /\ page \in Seq(1 .. MaxSeq) /\ queue \in Seq(1 .. MaxSeq)
    /\ router \in Routers /\ old \in Routers
    /\ handled \subseteq 1 .. MaxSeq

EmptyJournal == [first |-> 1, last |-> 0, delivered |-> 0]

Init ==
    /\ gJ = EmptyJournal /\ cJ = EmptyJournal
    /\ unsent = 0 /\ active = NoConn /\ resume = NoResume /\ acks = <<>>
    /\ up = [c \in Conns |-> <<>>] /\ down = [c \in Conns |-> <<>>]
    /\ knocking = {}
    /\ sock = NoConn /\ link = "none" /\ state = "connecting"
    /\ handling = NoFrame /\ cursor = 0 /\ loaded = FALSE /\ target = 0
    /\ yielded = 0 /\ page = <<>> /\ queue = <<>>
    /\ router = NewRouter /\ old = NewRouter /\ handled = {}
    /\ drops = 0 /\ crashes = 0 /\ retires = 0

Larger(m, n) == IF m > n THEN m ELSE n
Events(first, last) == [i \in 1 .. (last + 1) - first |-> (first - 1) + i]

-----------------------------------------------------------------------------
(* FileTransportEventJournal *)

Append1(j) == [j EXCEPT !.last = @ + 1]

(* readContiguous: what is retained after a sequence number, up to another. *)
ReadAfter(j, seq, upto) ==
    Events(Larger(j.first, seq + 1), IF j.last < upto THEN j.last ELSE upto)

(* Mutant: compaction drops the events that nobody acknowledged, too.        *)
DeliveredDroppingAll(j, seq) ==
    {[j EXCEPT !.delivered = seq, !.first = f] : f \in {j.first, j.last + 1}}

(* Mutant: the acknowledged event itself is not kept.                        *)
DeliveredLosingAnchor(j, seq) ==
    {[j EXCEPT !.delivered = seq, !.first = f] : f \in {j.first, seq + 1}}

(* The delivery cursor moves to seq; compaction, when its count or byte      *)
(* threshold is met, keeps seq, what follows it, and part of what precedes. *)
Delivered(j, seq) ==
    {[j EXCEPT !.delivered = seq, !.first = f] :
        f \in {j.first} \cup {g \in j.first .. seq : g + Retained > seq}}

(* markDelivered: the cursor again is a no-op, anything but its successor   *)
(* an error.                                                                *)
Redelivered(j, seq) == j.delivered = seq
NextDelivered(j, seq) == j.delivered + 1 = seq /\ seq \in j.first .. j.last

-----------------------------------------------------------------------------
(* The gateway *)

(* The gateway closes a socket: 1002 on an error, 1012 when it is replaced. *)
GatewayCloses(c) == link' = IF c = sock THEN "closing" ELSE link

(* recordAppServerOutputSerially: first the durable append, ...             *)
Record ==
    /\ unsent = 0 /\ gJ.last < MaxSeq
    /\ gJ' = Append1(gJ)
    /\ unsent' = gJ.last + 1
    /\ UNCHANGED <<cJ, active, resume, acks, network, clientVars, streamVars, routerVars, bounds>>

(* ... then the frame to whatever socket is active by now, resumed or not.  *)
SendLive ==
    /\ unsent # 0
    /\ down' = IF active = sock /\ sock # NoConn
                 THEN [down EXCEPT ![sock] = Append(@, [type |-> "event", seq |-> unsent])]
                 ELSE down
    /\ unsent' = 0
    /\ UNCHANGED <<journals, active, resume, acks, up, knocking, clientVars, streamVars,
                   routerVars, bounds>>

(* attach: the new socket is active at once, and the one before is closed.  *)
Attach(c) ==
    /\ c \in knocking
    /\ knocking' = knocking \ {c}
    /\ active' = c
    /\ IF active = NoConn THEN UNCHANGED link ELSE GatewayCloses(active)
    /\ UNCHANGED <<journals, unsent, resume, acks, up, down, sock, state, handling, cursor,
                   loaded, target, streamVars, routerVars, bounds>>

(* clientFrameChain takes one frame at a time, of any socket.  resume first *)
(* looks the cursor up in the journal; an acknowledgement changes lanes.    *)
TakeFrame(c) ==
    /\ resume = NoResume /\ up[c] # <<>>
    /\ up' = [up EXCEPT ![c] = Tail(@)]
    /\ LET f == Head(up[c]) IN
        \/ /\ f.type = "ack"
           /\ acks' = Append(acks, [conn |-> c, seq |-> f.seq])
           /\ UNCHANGED <<resume, link>>
        \/ /\ f.type = "resume" /\ f.seq # 0 /\ f.seq \notin gJ.first .. gJ.last
           /\ GatewayCloses(c)
           /\ UNCHANGED <<resume, acks>>
        \/ /\ f.type = "resume" /\ (f.seq # 0 => f.seq \in gJ.first .. gJ.last)
           /\ resume' = [NoResume EXCEPT !.conn = c, !.stage = "validated", !.seq = f.seq]
           /\ UNCHANGED <<acks, link>>
    /\ UNCHANGED <<journals, unsent, active, down, knocking, sock, state, handling, cursor,
                   loaded, target, streamVars, routerVars, bounds>>

SendDown(c, frames) ==
    down' = IF c = sock THEN [down EXCEPT ![c] = @ \o frames] ELSE down

(* reconcileDeliveryCursor, then the ready frame.                           *)
Reconcile ==
    /\ resume.stage = "validated"
    /\ IF resume.seq # 0 /\ resume.seq < gJ.delivered
         THEN /\ GatewayCloses(resume.conn)
              /\ resume' = NoResume
              /\ UNCHANGED <<gJ, down>>
         ELSE /\ IF resume.seq \in {0, gJ.delivered}
                   THEN UNCHANGED gJ
                   ELSE gJ' \in Delivered(gJ, resume.seq)
              /\ SendDown(resume.conn, <<[type |-> "ready", seq |-> 0]>>)
              /\ resume' = [resume EXCEPT !.stage = "ready"]
              /\ UNCHANGED link
    /\ UNCHANGED <<cJ, unsent, active, acks, up, knocking, sock, state, handling, cursor,
                   loaded, target, streamVars, routerVars, bounds>>

(* The rest of the journal is read ...                                      *)
ReadReplay ==
    /\ resume.stage = "ready"
    /\ resume' = [resume EXCEPT !.stage = "read", !.upto = gJ.last]
    /\ UNCHANGED <<journals, unsent, active, acks, network, clientVars, streamVars,
                   routerVars, bounds>>

(* ... and sent, after whatever live events got in between.                 *)
SendReplay ==
    /\ resume.stage = "read"
    /\ LET replay == Events(Larger(gJ.first, resume.seq + 1), resume.upto) IN
       SendDown(resume.conn, [i \in 1 .. Len(replay) |-> [type |-> "event", seq |-> replay[i]]])
    /\ resume' = NoResume
    /\ UNCHANGED <<journals, unsent, active, acks, up, knocking, clientVars, streamVars,
                   routerVars, bounds>>

(* markDeliveredIdentity of the acknowledgement that is next in its lane.   *)
TakeAck ==
    /\ acks # <<>>
    /\ acks' = Tail(acks)
    /\ LET a == Head(acks) IN
        \/ /\ Redelivered(gJ, a.seq)
           /\ UNCHANGED <<gJ, link>>
        \/ /\ NextDelivered(gJ, a.seq)
           /\ gJ' \in Delivered(gJ, a.seq)
           /\ UNCHANGED link
        \/ /\ ~Redelivered(gJ, a.seq) /\ ~NextDelivered(gJ, a.seq)
           /\ GatewayCloses(a.conn)
           /\ UNCHANGED gJ
    /\ UNCHANGED <<cJ, unsent, active, resume, network, sock, state, handling, cursor,
                   loaded, target, streamVars, routerVars, bounds>>

-----------------------------------------------------------------------------
(* The transport: connecting *)

Unused(c) ==
    /\ c \notin {sock, active, resume.conn} \cup knocking
    /\ up[c] = <<>> /\ \A i \in DOMAIN acks : acks[i].conn # c

(* openConnection, at connect or when the reconnect timer fires.            *)
Open(c) ==
    /\ sock = NoConn /\ Unused(c)
    /\ sock' = c /\ link' = "connecting" /\ state' = "connecting"
    /\ knocking' = knocking \cup {c}
    /\ UNCHANGED <<journals, gatewayVars, up, down, handling, cursor, loaded, target,
                   streamVars, routerVars, bounds>>

SendUp(type, seq) ==
    up' = [up EXCEPT ![sock] = Append(@, [type |-> type, seq |-> seq])]

OnOpen ==
    /\ link = "connecting" /\ sock \notin knocking
    /\ link' = "open"
    /\ SendUp("resume", cursor)
    /\ UNCHANGED <<journals, gatewayVars, down, knocking, sock, state, handling, cursor,
                   loaded, target, streamVars, routerVars, bounds>>

(* onClose: the socket is forgotten, and frames still under way to it are   *)
(* ignored; a reconnect is scheduled.                                       *)
OnClose ==
    /\ link = "closing"
    /\ down' = [down EXCEPT ![sock] = <<>>]
    /\ sock' = NoConn /\ link' = "none" /\ state' = "connecting"
    /\ UNCHANGED <<journals, gatewayVars, up, knocking, handling, cursor, loaded, target,
                   streamVars, routerVars, bounds>>

(* A connection breaks, or one of its timers gives it up; what the client   *)
(* had sent may be lost.                                                    *)
Drop ==
    /\ sock # NoConn /\ drops < MaxDrops
    /\ drops' = drops + 1
    /\ down' = [down EXCEPT ![sock] = <<>>]
    /\ \E sent \in {up[sock], <<>>} : up' = [up EXCEPT ![sock] = sent]
    /\ sock' = NoConn /\ link' = "none" /\ state' = "connecting"
    /\ UNCHANGED <<journals, gatewayVars, knocking, handling, cursor, loaded, target,
                   streamVars, routerVars, crashes, retires>>

(* The gateway learns that its active socket is gone.                       *)
Detach ==
    /\ active \notin {NoConn, sock}
    /\ active' = NoConn
    /\ UNCHANGED <<journals, unsent, resume, acks, network, clientVars, streamVars,
                   routerVars, bounds>>

(* protocolFailure closes the current socket, which may be another one than *)
(* the frame came from; without a socket a reconnect is under way already.  *)
ProtocolFailure == link' = IF sock = NoConn THEN link ELSE "closing"

(* ackEvent throws unless the current socket is open.                       *)
AckEvent(seq) ==
    IF link = "open"
      THEN SendUp("ack", seq) /\ UNCHANGED link
      ELSE ProtocolFailure /\ UNCHANGED up

-----------------------------------------------------------------------------
(* The transport: receiving.  messageChain handles one frame at a time.     *)

Receiving(type) ==
    /\ handling = NoFrame
    /\ sock # NoConn /\ down[sock] # <<>> /\ Head(down[sock]).type = type

TakeDown == down' = [down EXCEPT ![sock] = Tail(@)]

(* The first ready frame waits for the client's delivery cursor.            *)
ReceiveReady ==
    /\ Receiving("ready") /\ TakeDown
    /\ IF state = "connecting"
         THEN handling' = [type |-> "ready", seq |-> 0] /\ UNCHANGED link
         ELSE ProtocolFailure /\ UNCHANGED handling
    /\ UNCHANGED <<journals, gatewayVars, up, knocking, sock, state, cursor, loaded, target,
                   streamVars, routerVars, bounds>>

(* Mutant: what was received but not handled before a crash is forgotten.   *)
ConnectedWithoutBacklog ==
    /\ handling.type = "ready"
    /\ handling' = NoFrame
    /\ state' = "connected" /\ loaded' = TRUE
    /\ UNCHANGED <<journals, gatewayVars, network, sock, link, cursor, target, streamVars,
                   routerVars, bounds>>

(* ... and is applied although its socket may be gone by then.              *)
Connected ==
    /\ handling.type = "ready"
    /\ handling' = NoFrame
    /\ state' = "connected" /\ loaded' = TRUE
    /\ target' = IF loaded THEN target ELSE IF cJ.delivered < cursor THEN cursor ELSE 0
    /\ UNCHANGED <<journals, gatewayVars, network, sock, link, cursor, streamVars,
                   routerVars, bounds>>

Acceptable(seq) ==
    state = "connected" /\ seq = cursor + 1 /\ Len(queue) < QueueCap /\ seq = cJ.last + 1

(* acceptEvent: the last event again is acknowledged again; its successor   *)
(* is appended; anything else, or a full queue, ends the connection.        *)
ReceiveEvent ==
    /\ Receiving("event") /\ TakeDown
    /\ LET seq == Head(down[sock]).seq IN
        \/ /\ state = "connected" /\ seq = cursor
           /\ AckEvent(seq)
           /\ UNCHANGED <<cJ, handling>>
        \/ /\ Acceptable(seq)
           /\ cJ' = Append1(cJ)
           /\ handling' = [type |-> "event", seq |-> seq]
           /\ UNCHANGED <<up, link>>
        \/ /\ ~Acceptable(seq) /\ ~(state = "connected" /\ seq = cursor)
           /\ ProtocolFailure
           /\ UNCHANGED <<cJ, handling, up>>
    /\ UNCHANGED <<gJ, gatewayVars, knocking, sock, state, cursor, loaded, target,
                   streamVars, routerVars, bounds>>

(* The append is durable: the event is queued, and acknowledged on whatever *)
(* socket is the current one by now.                                        *)
Appended ==
    /\ handling.type = "event"
    /\ handling' = NoFrame
    /\ cursor' = handling.seq
    /\ queue' = Append(queue, handling.seq)
    /\ AckEvent(handling.seq)
    /\ UNCHANGED <<journals, gatewayVars, down, knocking, sock, state, loaded, target,
                   yielded, page, routerVars, bounds>>

-----------------------------------------------------------------------------
(* The stream the router consumes, and the router *)

(* readUndelivered, one page; a page that is empty too early is an error.   *)
ReadBacklog ==
    /\ loaded /\ page = <<>> /\ yielded < target /\ ~router.failed
    /\ LET pending == ReadAfter(cJ, Larger(cJ.delivered, yielded), target)
       IN IF pending = <<>>
            THEN router' = [router EXCEPT !.failed = TRUE] /\ UNCHANGED page
            ELSE /\ page' = SubSeq(pending, 1, IF Len(pending) < PageSize
                                                 THEN Len(pending) ELSE PageSize)
                 /\ UNCHANGED router
    /\ UNCHANGED <<journals, gatewayVars, network, clientVars, yielded, queue, old, handled,
                   bounds>>

(* dispatch: every event is routed at once; the first fixes where the       *)
(* acknowledgements begin.                                                  *)
Dispatch(e) ==
    router' = [router EXCEPT !.next = IF @ = 0 THEN e ELSE @,
                             !.running = @ \cup {e}, !.last = e]

PullBacklog ==
    /\ page # <<>> /\ ~router.failed
    /\ Dispatch(Head(page))
    /\ yielded' = Head(page) /\ page' = Tail(page)
    /\ UNCHANGED <<journals, gatewayVars, network, clientVars, queue, old, handled, bounds>>

(* Mutant: live events do not wait for the backlog.                         *)
PullLiveFirst ==
    /\ loaded /\ queue # <<>> /\ ~router.failed
    /\ Dispatch(Head(queue))
    /\ queue' = Tail(queue)
    /\ UNCHANGED <<journals, gatewayVars, network, clientVars, yielded, page, old, handled,
                   bounds>>

PullLive ==
    /\ loaded /\ page = <<>> /\ yielded >= target /\ queue # <<>> /\ ~router.failed
    /\ Dispatch(Head(queue))
    /\ queue' = Tail(queue)
    /\ UNCHANGED <<journals, gatewayVars, network, clientVars, yielded, page, old, handled,
                   bounds>>

(* route has finished with the event; it waits for its turn to be           *)
(* acknowledged (queueAcknowledgement).                                     *)
Settled(r, e) == [r EXCEPT !.running = @ \ {e}, !.settled = @ \cup {e}]

Route(e) ==
    /\ e \in router.running
    /\ router' = Settled(router, e)
    /\ handled' = handled \cup {e}
    /\ UNCHANGED <<journals, gatewayVars, network, clientVars, streamVars, old, bounds>>

RouteOld(e) ==
    /\ e \in old.running
    /\ old' = Settled(old, e)
    /\ handled' = handled \cup {e}
    /\ UNCHANGED <<journals, gatewayVars, network, clientVars, streamVars, router, bounds>>

(* Mutant: an event is acknowledged as soon as it is dispatched.            *)
MayAcknowledgeEarly(r) == ~r.broken /\ r.next \in r.running \cup r.settled

(* The contiguous prefix of what is settled is acknowledged, in order.      *)
MayAcknowledge(r) == ~r.broken /\ r.next \in r.settled

Flushed(r, ok) ==
    IF ok THEN [r EXCEPT !.next = @ + 1, !.settled = @ \ {r.next}]
          ELSE [r EXCEPT !.broken = TRUE, !.failed = TRUE]

MarkDelivered(r) ==
    \/ Redelivered(cJ, r.next) /\ UNCHANGED cJ
    \/ NextDelivered(cJ, r.next) /\ cJ' \in Delivered(cJ, r.next)
    \/ ~Redelivered(cJ, r.next) /\ ~NextDelivered(cJ, r.next) /\ UNCHANGED cJ

AckAccepted(r) == Redelivered(cJ, r.next) \/ NextDelivered(cJ, r.next)

Acknowledge ==
    /\ MayAcknowledge(router) /\ MarkDelivered(router)
    /\ router' = Flushed(router, AckAccepted(router))
    /\ UNCHANGED <<gJ, gatewayVars, network, clientVars, streamVars, old, handled, bounds>>

(* A router that was closed goes on acknowledging what its handlers finish. *)
AcknowledgeOld ==
    /\ MayAcknowledge(old) /\ MarkDelivered(old)
    /\ old' = Flushed(old, AckAccepted(old))
    /\ UNCHANGED <<gJ, gatewayVars, network, clientVars, streamVars, router, handled, bounds>>

-----------------------------------------------------------------------------
(* Replacement and crash *)

(* New objects on both sides; the transport loads its cursor from cJ.       *)
Renew ==
    /\ unsent' = 0 /\ active' = NoConn /\ resume' = NoResume /\ acks' = <<>>
    /\ up' = [c \in Conns |-> <<>>] /\ down' = [c \in Conns |-> <<>>]
    /\ knocking' = {}
    /\ sock' = NoConn /\ link' = "none" /\ state' = "connecting"
    /\ handling' = NoFrame /\ cursor' = cJ.last /\ loaded' = FALSE /\ target' = 0
    /\ yielded' = 0 /\ page' = <<>> /\ queue' = <<>>
    /\ router' = NewRouter
    /\ UNCHANGED <<journals, handled>>

(* The service closes the router and the registry stops the gateway, which  *)
(* drains its chains; nobody waits for the router's handlers.               *)
Retire ==
    /\ unsent = 0 /\ resume = NoResume /\ acks = <<>>
    /\ IF router.failed THEN UNCHANGED retires
                        ELSE retires < MaxRetires /\ retires' = retires + 1
    /\ old' = router
    /\ Renew
    /\ UNCHANGED <<drops, crashes>>

Crash ==
    /\ crashes < MaxCrashes
    /\ crashes' = crashes + 1
    /\ old' = NewRouter
    /\ Renew
    /\ UNCHANGED <<drops, retires>>

Gateway ==
    \/ SendLive \/ Reconcile \/ ReadReplay \/ SendReplay \/ TakeAck \/ Detach
    \/ \E c \in Conns : Attach(c) \/ TakeFrame(c)

Transport ==
    \/ OnOpen \/ OnClose \/ ReceiveReady \/ Connected \/ ReceiveEvent \/ Appended
    \/ \E c \in Conns : Open(c)

Router ==
    \/ ReadBacklog \/ PullBacklog \/ PullLive \/ Acknowledge
    \/ \E e \in 1 .. MaxSeq : Route(e)

Next ==
    \/ Record \/ Gateway \/ Transport \/ Router
    \/ AcknowledgeOld \/ \E e \in 1 .. MaxSeq : RouteOld(e)
    \/ Drop \/ Retire \/ Crash

Spec == Init /\ [][Next]_vars

(* Node runs every chain, callback and timer that is due, sockets deliver,  *)
(* a handler that was called finishes, and a failed worker is replaced on   *)
(* the next request.  Nothing makes the App Server print, or a replaced     *)
(* router's handlers finish.                                                *)
Fairness ==
    /\ WF_vars(SendLive) /\ WF_vars(Reconcile) /\ WF_vars(ReadReplay)
    /\ WF_vars(SendReplay) /\ WF_vars(TakeAck) /\ WF_vars(Detach)
    /\ \A c \in Conns : WF_vars(Attach(c)) /\ WF_vars(TakeFrame(c))
    /\ WF_vars(\E c \in Conns : Open(c)) /\ WF_vars(OnOpen) /\ WF_vars(OnClose)
    /\ WF_vars(ReceiveReady) /\ WF_vars(Connected)
    /\ WF_vars(ReceiveEvent) /\ WF_vars(Appended)
    /\ WF_vars(ReadBacklog) /\ WF_vars(PullBacklog) /\ WF_vars(PullLive)
    /\ WF_vars(Acknowledge) /\ \A e \in 1 .. MaxSeq : WF_vars(Route(e))
    /\ WF_vars(router.failed /\ Retire)

FairSpec == Spec /\ Fairness

-----------------------------------------------------------------------------
(* Properties *)

(* No event is lost between the journals: what the gateway counts as        *)
(* delivered is durable at the client, the gateway still has what the       *)
(* client lacks, and the client still has what no handler has finished.     *)
NothingForgotten ==
    /\ gJ.delivered <= cJ.last /\ cJ.last <= gJ.last /\ cJ.delivered <= cJ.last
    /\ gJ.first <= cJ.last + 1
    /\ cJ.first <= cJ.delivered + 1

(* Whatever was dropped, crashed, reordered between sockets or replayed     *)
(* twice, neither the cursor of a resume nor an acknowledgement makes the   *)
(* gateway close the socket the client is using.                            *)
GatewayNeverRejects ==
    [][TakeAck \/ Reconcile \/ (\E c \in Conns : TakeFrame(c))
         => (link' = "closing" => link = "closing")]_vars

(* The router is given the events of one worker in their order, without a   *)
(* gap and without a repetition, across backlog, reconnects and replays.    *)
(* Once a worker was replaced, the handlers of its router may acknowledge   *)
(* what the next one has yet to read: only such events are left out.        *)
(* Until then no router fails: the backlog reaches the cursor, and every    *)
(* acknowledgement is the next one.                                         *)
InOrder ==
    [][/\ router.last # 0 /\ router'.last \notin {0, router.last}
            => \/ router'.last = router.last + 1
               \/ retires > 0 /\ router'.last \in router.last + 1 .. cJ.delivered + 1
       /\ router'.failed => router.failed \/ retires > 0]_vars

(* Together both sides are a DeliveryLog: an event is acknowledged for good *)
(* once, in order, and only after a handler has finished with it.           *)
Log == INSTANCE DeliveryLog WITH
    recorded <- gJ.last, handled <- handled, acked <- cJ.delivered
ImplementsLog == Log!Spec

(* Every recorded event is acknowledged in the end, although connections    *)
(* break, queues fill up and the process crashes.                           *)
AllDelivered == \A e \in 1 .. MaxSeq : gJ.last >= e ~> cJ.delivered >= e

=============================================================================
