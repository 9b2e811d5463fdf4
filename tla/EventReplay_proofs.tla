-------------------------- MODULE EventReplay_proofs --------------------------
(***************************************************************************)
(* For any sockets, buffers, pages and retention, and for any number of    *)
(* events, broken connections, crashes and replaced workers: nothing is    *)
(* forgotten between the two journals, together they are a DeliveryLog,    *)
(* a router is given the events in their order, and the gateway never      *)
(* rejects what the client says on the socket it is using.                 *)
(*                                                                         *)
(* The argument is that nobody ever names an event that was not recorded:  *)
(* whatever goes up to the gateway is in the client's journal, whatever    *)
(* comes down is in the gateway's, and the router has what it has from the *)
(* client's.                                                               *)
(***************************************************************************)
EXTENDS EventReplay, SequenceTheorems, TLAPS

FramesUpTo(n) == [type : {"none", "resume", "ack", "ready", "event"}, seq : 0 .. n]
AcksUpTo(n) == [conn : Conns, seq : 0 .. n]
RoutersUpTo(n) == [next : 0 .. n + 1, running : SUBSET (1 .. n), settled : SUBSET (1 .. n),
                   last : 0 .. n, broken : BOOLEAN, failed : BOOLEAN]

JournalsOK == gJ \in Journals /\ cJ \in Journals /\ NothingForgotten
UnsentOK == unsent \in 0 .. gJ.last
ResumeOK == resume \in [conn : Conns \cup {NoConn}, seq : 0 .. cJ.last, upto : 0 .. gJ.last,
                        stage : {"none", "validated", "ready", "read"}]
AcksOK == acks \in Seq(AcksUpTo(cJ.last))
UpOK == up \in [Conns -> Seq(FramesUpTo(cJ.last))]
DownOK == down \in [Conns -> Seq(FramesUpTo(gJ.last))]
ActiveOK == active \in Conns \cup {NoConn}
KnockingOK == knocking \subseteq Conns
SockOK == sock \in Conns \cup {NoConn}
LinkOK == link \in {"none", "connecting", "open", "closing"}
StateOK == state \in {"connecting", "connected"} /\ loaded \in BOOLEAN
HandlingOK == handling \in FramesUpTo(cJ.last) /\ (handling.type = "event" => handling.seq # 0)
CursorOK == cursor \in 0 .. cJ.last
TargetOK == target \in 0 .. cJ.last
YieldedOK == yielded \in 0 .. cJ.last
PageOK == page \in Seq(1 .. cJ.last)
QueueOK == queue \in Seq(1 .. cJ.last)
HandledOK == handled \subseteq 1 .. cJ.last
RouterOK(r) == r \in RoutersUpTo(cJ.last) /\ r.settled \subseteq handled

Inv ==
    /\ JournalsOK /\ UnsentOK /\ ResumeOK /\ AcksOK /\ UpOK /\ DownOK
    /\ ActiveOK /\ KnockingOK /\ SockOK /\ LinkOK /\ StateOK /\ HandlingOK
    /\ CursorOK /\ TargetOK /\ YieldedOK /\ PageOK /\ QueueOK
    /\ HandledOK /\ RouterOK(router) /\ RouterOK(old)
    /\ {drops, crashes, retires} \subseteq Nat

----------------------------------------------------------------------------
(* What is known does not become less.                                     *)

LEMMA KnownGrows ==
  ASSUME NEW m \in Nat, NEW n \in Nat, m <= n
  PROVE  /\ 0 .. m \subseteq 0 .. n /\ 1 .. m \subseteq 1 .. n
         /\ FramesUpTo(m) \subseteq FramesUpTo(n)
         /\ AcksUpTo(m) \subseteq AcksUpTo(n)
         /\ RoutersUpTo(m) \subseteq RoutersUpTo(n)
  <1>1. 0 .. m \subseteq 0 .. n /\ 1 .. m \subseteq 1 .. n /\ 0 .. m + 1 \subseteq 0 .. n + 1
    OBVIOUS
  <1>2. FramesUpTo(m) \subseteq FramesUpTo(n) /\ AcksUpTo(m) \subseteq AcksUpTo(n)
    BY <1>1 DEF FramesUpTo, AcksUpTo
  <1>3. RoutersUpTo(m) \subseteq RoutersUpTo(n)
    BY <1>1 DEF RoutersUpTo
  <1> QED BY <1>1, <1>2, <1>3

\* What a step leaves alone stays right.
LEMMA Kept ==
  ASSUME Inv, JournalsOK', gJ.last <= gJ'.last, cJ.last <= cJ'.last
  PROVE  /\ unsent' = unsent => UnsentOK'
         /\ resume' = resume => ResumeOK'
         /\ acks' = acks => AcksOK'
         /\ up' = up => UpOK'
         /\ down' = down => DownOK'
         /\ active' = active => ActiveOK'
         /\ knocking' = knocking => KnockingOK'
         /\ sock' = sock => SockOK'
         /\ link' = link => LinkOK'
         /\ UNCHANGED <<state, loaded>> => StateOK'
         /\ handling' = handling => HandlingOK'
         /\ cursor' = cursor => CursorOK'
         /\ target' = target => TargetOK'
         /\ yielded' = yielded => YieldedOK'
         /\ page' = page => PageOK'
         /\ queue' = queue => QueueOK'
         /\ handled' = handled => HandledOK'
         /\ router' = router /\ handled \subseteq handled' => RouterOK(router)'
         /\ old' = old /\ handled \subseteq handled' => RouterOK(old)'
         /\ old' = router /\ handled \subseteq handled' => RouterOK(old)'
         /\ UNCHANGED bounds => ({drops, crashes, retires} \subseteq Nat)'
  <1>1. /\ {gJ.last, cJ.last, gJ'.last, cJ'.last} \subseteq Nat
    BY BoundsAssumption DEF Inv, JournalsOK, Journals
  <1>2. /\ 0 .. gJ.last \subseteq 0 .. gJ'.last /\ 0 .. cJ.last \subseteq 0 .. cJ'.last
        /\ 1 .. cJ.last \subseteq 1 .. cJ'.last
        /\ FramesUpTo(cJ.last) \subseteq FramesUpTo(cJ'.last)
        /\ FramesUpTo(gJ.last) \subseteq FramesUpTo(gJ'.last)
        /\ AcksUpTo(cJ.last) \subseteq AcksUpTo(cJ'.last)
        /\ RoutersUpTo(cJ.last) \subseteq RoutersUpTo(cJ'.last)
    BY <1>1, KnownGrows
  <1>3. /\ unsent' = unsent => UnsentOK'
        /\ active' = active => ActiveOK'
        /\ knocking' = knocking => KnockingOK'
        /\ sock' = sock => SockOK'
        /\ link' = link => LinkOK'
        /\ UNCHANGED <<state, loaded>> => StateOK'
        /\ cursor' = cursor => CursorOK'
        /\ target' = target => TargetOK'
        /\ yielded' = yielded => YieldedOK'
        /\ handled' = handled => HandledOK'
        /\ UNCHANGED bounds => ({drops, crashes, retires} \subseteq Nat)'
    BY <1>2 DEF Inv, UnsentOK, ActiveOK, KnockingOK, SockOK, LinkOK, StateOK, CursorOK, TargetOK,
       YieldedOK, HandledOK, bounds
  <1>4. handling' = handling => HandlingOK'
    BY <1>2 DEF Inv, HandlingOK
  <1>5. resume' = resume => ResumeOK'
    BY <1>2 DEF Inv, ResumeOK
  <1>6. acks' = acks => AcksOK'
    BY <1>2, SeqMonotonic DEF Inv, AcksOK
  <1>7. /\ up' = up => UpOK'
        /\ down' = down => DownOK'
    <2>1. /\ Seq(FramesUpTo(cJ.last)) \subseteq Seq(FramesUpTo(cJ'.last))
          /\ Seq(FramesUpTo(gJ.last)) \subseteq Seq(FramesUpTo(gJ'.last))
      BY <1>2, SeqMonotonic
    <2> QED BY <2>1 DEF Inv, UpOK, DownOK
  <1>8. /\ page' = page => PageOK'
        /\ queue' = queue => QueueOK'
    BY <1>2, SeqMonotonic DEF Inv, PageOK, QueueOK
  <1>9. ASSUME NEW r, RouterOK(r), handled \subseteq handled'
        PROVE  r \in RoutersUpTo(cJ'.last) /\ r.settled \subseteq handled'
    BY <1>2, <1>9 DEF RouterOK
  <1>10. /\ router' = router /\ handled \subseteq handled' => RouterOK(router)'
         /\ old' = old /\ handled \subseteq handled' => RouterOK(old)'
         /\ old' = router /\ handled \subseteq handled' => RouterOK(old)'
    BY <1>9 DEF Inv, RouterOK
  <1> QED BY <1>3, <1>4, <1>5, <1>6, <1>7, <1>8, <1>10

\* The journals as they were.
LEMMA SameJournals ==
  ASSUME Inv, UNCHANGED journals
  PROVE  JournalsOK' /\ gJ.last <= gJ'.last /\ cJ.last <= cJ'.last
  <1>1. gJ.last \in Nat /\ cJ.last \in Nat
    BY DEF Inv, JournalsOK, Journals
  <1> QED BY <1>1 DEF Inv, JournalsOK, NothingForgotten, journals
----------------------------------------------------------------------------
(* What the operators return.                                              *)

\* An acknowledged journal has the same events, the acknowledged one or more.
LEMMA DeliveredJournal ==
  ASSUME NEW j \in Journals, NEW seq \in 0 .. MaxSeq, NEW k \in Delivered(j, seq)
  PROVE  /\ k \in Journals /\ k.last = j.last /\ k.delivered = seq
         /\ k.first = j.first \/ k.first <= seq
  <1>1. PICK f \in {j.first} \cup {g \in j.first .. seq : g + Retained > seq} :
          k = [j EXCEPT !.delivered = seq, !.first = f]
    BY DEF Delivered
  <1>2. j.first \in 1 .. MaxSeq + 1 /\ MaxSeq \in Nat
    BY BoundsAssumption DEF Journals
  <1>3. f \in 1 .. MaxSeq + 1 /\ (f = j.first \/ f <= seq)
    BY <1>2
  <1> QED BY <1>1, <1>3 DEF Journals

LEMMA EventsAreKnown ==
  ASSUME NEW a \in Nat \ {0}, NEW b \in Nat
  PROVE  Events(a, b) \in Seq(a .. b)
  <1> DEFINE n == (b + 1) - a
  <1>1. Events(a, b) = [i \in 1 .. n |-> (a - 1) + i]
    BY DEF Events
  <1>2. \A i \in 1 .. n : (a - 1) + i \in a .. b
    OBVIOUS
  <1>3. CASE n \in Nat
    <2> HIDE DEF n
    <2> QED BY <1>1, <1>2, <1>3
  <1>4. CASE n \notin Nat
    <2>1. 1 .. n = {} /\ 1 .. 0 = {}
      BY <1>4
    <2>2. Events(a, b) = << >>
      BY <1>1, <2>1
    <2> QED BY <2>2
  <1> QED BY <1>3, <1>4

\* Frames are added to, or taken from, those under way.
LEMMA FrameAdded ==
  ASSUME NEW S, NEW f \in [Conns -> Seq(S)], NEW c, NEW e \in S
  PROVE  [f EXCEPT ![c] = Append(@, e)] \in [Conns -> Seq(S)]
  <1>1. CASE c \in Conns
    BY <1>1, AppendProperties
  <1>2. CASE c \notin Conns
    BY <1>2
  <1> QED BY <1>1, <1>2

LEMMA FramesAdded ==
  ASSUME NEW S, NEW f \in [Conns -> Seq(S)], NEW c, NEW t \in Seq(S)
  PROVE  [f EXCEPT ![c] = @ \o t] \in [Conns -> Seq(S)]
  <1>1. CASE c \in Conns
    BY <1>1, ConcatProperties
  <1>2. CASE c \notin Conns
    BY <1>2
  <1> QED BY <1>1, <1>2

LEMMA FrameTaken ==
  ASSUME NEW S, NEW f \in [Conns -> Seq(S)], NEW c \in Conns, f[c] # << >>
  PROVE  /\ [f EXCEPT ![c] = Tail(@)] \in [Conns -> Seq(S)]
         /\ Head(f[c]) \in S
  BY HeadTailProperties

LEMMA FramesLost ==
  ASSUME NEW S, NEW f \in [Conns -> Seq(S)], NEW c
  PROVE  [f EXCEPT ![c] = << >>] \in [Conns -> Seq(S)]
  <1>1. << >> \in Seq(S)
    OBVIOUS
  <1>2. CASE c \in Conns
    BY <1>1, <1>2
  <1>3. CASE c \notin Conns
    BY <1>3
  <1> QED BY <1>2, <1>3

\* A socket is closed, or an acknowledgement is sent.
LEMMA Closes ==
  ASSUME LinkOK, NEW c, GatewayCloses(c) \/ ProtocolFailure
  PROVE  LinkOK'
  BY DEF LinkOK, GatewayCloses, ProtocolFailure

LEMMA Acks ==
  ASSUME Inv, NEW seq \in 0 .. cJ.last, AckEvent(seq), UNCHANGED cJ
  PROVE  UpOK' /\ LinkOK'
  <1>1. CASE link = "open"
    <2>1. [type |-> "ack", seq |-> seq] \in FramesUpTo(cJ.last)
      BY DEF FramesUpTo
    <2>2. up' = [up EXCEPT ![sock] = Append(@, [type |-> "ack", seq |-> seq])] /\ link' = link
      BY <1>1 DEF AckEvent, SendUp
    <2> QED BY <2>1, <2>2, FrameAdded DEF Inv, UpOK, LinkOK
  <1>2. CASE link # "open"
    BY <1>2, Closes DEF AckEvent, Inv, UpOK
  <1> QED BY <1>1, <1>2
----------------------------------------------------------------------------
(* The gateway's steps.                                                    *)

LEMMA RecordKeeps == ASSUME Inv, Record PROVE Inv'
  <1>1. gJ \in Journals /\ cJ \in Journals /\ MaxSeq \in Nat /\ gJ.last < MaxSeq
    BY BoundsAssumption DEF Inv, JournalsOK, Record
  <1>2. gJ' = [gJ EXCEPT !.last = @ + 1] /\ cJ' = cJ /\ unsent' = gJ.last + 1
    BY DEF Record, Append1
  <1>3. JournalsOK' /\ gJ.last <= gJ'.last /\ cJ.last <= cJ'.last
    BY <1>1, <1>2 DEF Inv, JournalsOK, NothingForgotten, Journals
  <1>4. UnsentOK'
    BY <1>1, <1>2 DEF UnsentOK, Journals
  <1> QED BY <1>3, <1>4, Kept DEF Record, Inv, network, clientVars, streamVars, routerVars

LEMMA SendLiveKeeps == ASSUME Inv, SendLive PROVE Inv'
  <1>1. gJ' = gJ /\ gJ.last \in Nat
    BY DEF SendLive, journals, Inv, JournalsOK, Journals
  <1>2. [type |-> "event", seq |-> unsent] \in FramesUpTo(gJ.last)
    BY DEF Inv, UnsentOK, FramesUpTo
  <1>3. DownOK'
    BY <1>1, <1>2, FrameAdded DEF SendLive, Inv, DownOK
  <1>4. UnsentOK'
    BY <1>1 DEF SendLive, UnsentOK
  <1> QED BY <1>3, <1>4, SameJournals, Kept DEF SendLive, Inv, clientVars, streamVars, routerVars

LEMMA AttachKeeps == ASSUME Inv, NEW c \in Conns, Attach(c) PROVE Inv'
  <1>1. ActiveOK' /\ KnockingOK'
    BY DEF Attach, Inv, ActiveOK, KnockingOK
  <1>2. LinkOK'
    BY Closes DEF Attach, Inv, LinkOK
  <1> QED BY <1>1, <1>2, SameJournals, Kept DEF Attach, Inv, streamVars, routerVars

LEMMA TakeFrameKeeps == ASSUME Inv, NEW c \in Conns, TakeFrame(c) PROVE Inv'
  <1> DEFINE f == Head(up[c])
  <1>1. cJ' = cJ /\ gJ' = gJ /\ gJ.last \in Nat /\ cJ.last \in Nat
    BY DEF TakeFrame, journals, Inv, JournalsOK, Journals
  <1>2. up' = [up EXCEPT ![c] = Tail(@)] /\ up[c] # << >>
    BY DEF TakeFrame
  <1>3. UpOK' /\ f \in FramesUpTo(cJ.last)
    BY <1>1, <1>2, FrameTaken DEF Inv, UpOK
  <1>4. AcksOK'
    <2>1. CASE acks' = acks
      BY <1>1, <2>1 DEF Inv, AcksOK
    <2>2. CASE acks' # acks
      <3>1. acks' = Append(acks, [conn |-> c, seq |-> f.seq])
        BY <2>2 DEF TakeFrame
      <3>2. [conn |-> c, seq |-> f.seq] \in AcksUpTo(cJ.last)
        BY <1>3 DEF FramesUpTo, AcksUpTo
      <3> QED BY <1>1, <3>1, <3>2, AppendProperties DEF Inv, AcksOK
    <2> QED BY <2>1, <2>2
  <1>5. ResumeOK'
    <2>1. CASE resume' = resume
      BY <1>1, <2>1 DEF Inv, ResumeOK
    <2>2. CASE resume' # resume
      <3>1. resume' = [NoResume EXCEPT !.conn = c, !.stage = "validated", !.seq = f.seq]
        BY <2>2 DEF TakeFrame
      <3>2. f.seq \in 0 .. cJ.last
        BY <1>3 DEF FramesUpTo
      <3>3. resume' = [conn |-> c, stage |-> "validated", seq |-> f.seq, upto |-> 0]
        BY <3>1 DEF NoResume
      <3> HIDE DEF f
      <3> QED BY <1>1, <3>2, <3>3 DEF ResumeOK
    <2> QED BY <2>1, <2>2
  <1>6. LinkOK'
    BY Closes DEF TakeFrame, Inv, LinkOK
  <1> QED BY <1>3, <1>4, <1>5, <1>6, SameJournals, Kept DEF TakeFrame, Inv, streamVars, routerVars

\* The gateway acknowledges what the client has.
LEMMA AcknowledgesKnown ==
  ASSUME Inv, NEW seq \in 0 .. cJ.last, gJ' \in Delivered(gJ, seq), cJ' = cJ
  PROVE  JournalsOK' /\ gJ'.last = gJ.last /\ gJ.last <= gJ'.last /\ cJ.last <= cJ'.last
  <1>1. gJ \in Journals /\ cJ \in Journals /\ seq \in 0 .. MaxSeq
    BY BoundsAssumption DEF Inv, JournalsOK, Journals
  <1>2. /\ gJ' \in Journals /\ gJ'.last = gJ.last /\ gJ'.delivered = seq
        /\ gJ'.first = gJ.first \/ gJ'.first <= seq
    BY <1>1, DeliveredJournal
  <1> QED BY <1>1, <1>2, BoundsAssumption DEF Inv, JournalsOK, NothingForgotten, Journals

LEMMA ReconcileKeeps == ASSUME Inv, Reconcile PROVE Inv'
  <1>1. cJ' = cJ /\ resume.seq \in 0 .. cJ.last
    BY DEF Reconcile, Inv, ResumeOK
  <1>2. JournalsOK' /\ gJ'.last = gJ.last /\ gJ.last <= gJ'.last /\ cJ.last <= cJ'.last
    <2>1. CASE gJ' = gJ
      BY <1>1, <2>1, SameJournals DEF journals, Inv, JournalsOK, Journals
    <2>2. CASE gJ' # gJ
      BY <1>1, <2>2, AcknowledgesKnown DEF Reconcile
    <2> QED BY <2>1, <2>2
  <1>3. gJ.last \in Nat /\ cJ.last \in Nat
    BY DEF Inv, JournalsOK, Journals
  <1>4. ResumeOK'
    <2>1. resume' = NoResume \/ resume' = [resume EXCEPT !.stage = "ready"]
      BY DEF Reconcile
    <2> QED BY <1>1, <1>2, <1>3, <2>1 DEF NoResume, Inv, ResumeOK
  <1>5. DownOK'
    <2>1. <<[type |-> "ready", seq |-> 0]>> \in Seq(FramesUpTo(gJ.last))
      BY <1>3 DEF FramesUpTo
    <2>2. CASE down' = down
      BY <1>2, <2>2 DEF Inv, DownOK
    <2>3. CASE down' # down
      <3>1. down' = [down EXCEPT ![resume.conn] = @ \o <<[type |-> "ready", seq |-> 0]>>]
        BY <2>3 DEF Reconcile, SendDown
      <3> QED BY <1>2, <2>1, <3>1, FramesAdded DEF Inv, DownOK
    <2> QED BY <2>2, <2>3
  <1>6. LinkOK'
    BY Closes DEF Reconcile, Inv, LinkOK
  <1> QED BY <1>2, <1>4, <1>5, <1>6, Kept DEF Reconcile, Inv, streamVars, routerVars

LEMMA ReadReplayKeeps == ASSUME Inv, ReadReplay PROVE Inv'
  <1>1. cJ' = cJ /\ gJ' = gJ /\ gJ.last \in 0 .. gJ.last
    BY DEF ReadReplay, journals, Inv, JournalsOK, Journals
  <1>2. resume' = [resume EXCEPT !.stage = "read", !.upto = gJ.last]
    BY DEF ReadReplay
  <1>3. ResumeOK'
    BY <1>1, <1>2 DEF Inv, ResumeOK
  <1> QED
    BY <1>3, SameJournals, Kept DEF ReadReplay, Inv, network, clientVars, streamVars, routerVars

LEMMA SendReplayKeeps == ASSUME Inv, SendReplay PROVE Inv'
  <1> DEFINE first == Larger(gJ.first, resume.seq + 1)
             replay == Events(first, resume.upto)
             frames == [i \in 1 .. Len(replay) |-> [type |-> "event", seq |-> replay[i]]]
  <1>1. cJ' = cJ /\ gJ' = gJ /\ gJ.last \in Nat /\ cJ.last \in Nat
    BY DEF SendReplay, journals, Inv, JournalsOK, Journals
  <1>2. first \in Nat \ {0} /\ resume.upto \in 0 .. gJ.last
    <2>1. gJ.first \in Nat \ {0} /\ resume.seq \in Nat /\ resume.upto \in 0 .. gJ.last
      BY BoundsAssumption DEF Inv, JournalsOK, Journals, ResumeOK
    <2> QED BY <2>1 DEF Larger
  <1>3. frames \in Seq(FramesUpTo(gJ.last))
    <2> HIDE DEF first
    <2>1. replay \in Seq(first .. resume.upto)
      <3>1. resume.upto \in Nat
        BY <1>1, <1>2
      <3> QED BY <1>2, <3>1, EventsAreKnown
    <2>2. Len(replay) \in Nat /\ \A i \in 1 .. Len(replay) : replay[i] \in first .. resume.upto
      BY <2>1, ElementOfSeq, LenProperties
    <2> HIDE DEF replay
    <2>3. \A i \in 1 .. Len(replay) : replay[i] \in 0 .. gJ.last
      BY <1>1, <1>2, <2>2
    <2>4. \A i \in 1 .. Len(replay) :
            [type |-> "event", seq |-> replay[i]] \in FramesUpTo(gJ.last)
      BY <2>3 DEF FramesUpTo
    <2> QED BY <2>2, <2>4
  <1>4. DownOK'
    <2>1. SendDown(resume.conn, frames)
      BY DEF SendReplay
    <2> HIDE DEF frames
    <2> QED BY <1>1, <1>3, <2>1, FramesAdded DEF SendDown, Inv, DownOK
  <1>5. ResumeOK'
    BY <1>1 DEF SendReplay, NoResume, ResumeOK
  <1> QED
    BY <1>4, <1>5, SameJournals, Kept DEF SendReplay, Inv, clientVars, streamVars, routerVars

LEMMA TakeAckKeeps == ASSUME Inv, TakeAck PROVE Inv'
  <1>1. acks \in Seq(AcksUpTo(cJ.last)) /\ acks # << >> /\ acks' = Tail(acks) /\ cJ' = cJ
    BY DEF TakeAck, Inv, AcksOK
  <1>2. AcksOK' /\ Head(acks).seq \in 0 .. cJ.last
    <2>1. Tail(acks) \in Seq(AcksUpTo(cJ.last)) /\ Head(acks) \in AcksUpTo(cJ.last)
      BY <1>1, HeadTailProperties
    <2> QED BY <1>1, <2>1 DEF AcksOK, AcksUpTo
  <1>3. JournalsOK' /\ gJ'.last = gJ.last /\ gJ.last <= gJ'.last /\ cJ.last <= cJ'.last
    <2>1. CASE gJ' = gJ
      BY <1>1, <2>1, SameJournals DEF journals, Inv, JournalsOK, Journals
    <2>2. CASE gJ' # gJ
      BY <1>1, <1>2, <2>2, AcknowledgesKnown DEF TakeAck
    <2> QED BY <2>1, <2>2
  <1>4. LinkOK'
    BY Closes DEF TakeAck, Inv, LinkOK
  <1> QED BY <1>2, <1>3, <1>4, Kept DEF TakeAck, Inv, network, streamVars, routerVars

LEMMA DetachKeeps == ASSUME Inv, Detach PROVE Inv'
  <1>1. ActiveOK'
    BY DEF Detach, ActiveOK
  <1> QED
    BY <1>1, SameJournals, Kept DEF Detach, Inv, network, clientVars, streamVars, routerVars
----------------------------------------------------------------------------
(* The transport's steps.                                                  *)

LEMMA OpenKeeps == ASSUME Inv, NEW c \in Conns, Open(c) PROVE Inv'
  <1>1. SockOK' /\ LinkOK' /\ KnockingOK' /\ StateOK'
    BY DEF Open, Inv, SockOK, LinkOK, KnockingOK, StateOK
  <1> QED
    BY <1>1, SameJournals, Kept DEF Open, Inv, gatewayVars, streamVars, routerVars

LEMMA OnOpenKeeps == ASSUME Inv, OnOpen PROVE Inv'
  <1>1. cJ' = cJ
    BY DEF OnOpen, journals
  <1>2. [type |-> "resume", seq |-> cursor] \in FramesUpTo(cJ.last)
    BY DEF Inv, CursorOK, FramesUpTo
  <1>3. UpOK' /\ LinkOK'
    BY <1>1, <1>2, FrameAdded DEF OnOpen, SendUp, Inv, UpOK, LinkOK
  <1> QED
    BY <1>3, SameJournals, Kept DEF OnOpen, Inv, gatewayVars, streamVars, routerVars

LEMMA OnCloseKeeps == ASSUME Inv, OnClose PROVE Inv'
  <1>1. gJ' = gJ
    BY DEF OnClose, journals
  <1>2. DownOK'
    BY <1>1, FramesLost DEF OnClose, Inv, DownOK
  <1>3. SockOK' /\ LinkOK' /\ StateOK'
    BY DEF OnClose, Inv, SockOK, LinkOK, StateOK
  <1> QED
    BY <1>2, <1>3, SameJournals, Kept DEF OnClose, Inv, gatewayVars, streamVars, routerVars

LEMMA DropKeeps == ASSUME Inv, Drop PROVE Inv'
  <1>1. gJ' = gJ /\ cJ' = cJ
    BY DEF Drop, journals
  <1>2. DownOK'
    BY <1>1, FramesLost DEF Drop, Inv, DownOK
  <1>3. UpOK'
    <2>1. PICK sent \in {up[sock], << >>} : up' = [up EXCEPT ![sock] = sent]
      BY DEF Drop
    <2>2. CASE sent = << >>
      BY <1>1, <2>1, <2>2, FramesLost DEF Inv, UpOK
    <2>3. CASE sent = up[sock]
      BY <1>1, <2>1, <2>3 DEF Inv, UpOK
    <2> QED BY <2>1, <2>2, <2>3
  <1>4. SockOK' /\ LinkOK' /\ StateOK'
    BY DEF Drop, Inv, SockOK, LinkOK, StateOK
  <1>5. ({drops, crashes, retires} \subseteq Nat)'
    BY DEF Drop, Inv
  <1> QED
    BY <1>2, <1>3, <1>4, <1>5, SameJournals, Kept DEF Drop, Inv, gatewayVars, streamVars, routerVars

LEMMA ReceiveReadyKeeps == ASSUME Inv, ReceiveReady PROVE Inv'
  <1>1. gJ' = gJ /\ cJ' = cJ /\ cJ.last \in Nat
    BY DEF ReceiveReady, journals, Inv, JournalsOK, Journals
  <1>2. DownOK'
    BY <1>1, FrameTaken, ConnsAssumption
    DEF ReceiveReady, Receiving, TakeDown, Inv, DownOK, SockOK
  <1>3. HandlingOK'
    BY <1>1 DEF ReceiveReady, Inv, HandlingOK, FramesUpTo
  <1>4. LinkOK'
    BY Closes DEF ReceiveReady, Inv, LinkOK
  <1> QED
    BY <1>2, <1>3, <1>4, SameJournals, Kept
    DEF ReceiveReady, Inv, gatewayVars, streamVars, routerVars

LEMMA ConnectedKeeps == ASSUME Inv, Connected PROVE Inv'
  <1>1. cJ' = cJ /\ cJ.last \in Nat
    BY DEF Connected, journals, Inv, JournalsOK, Journals
  <1>2. HandlingOK'
    BY <1>1 DEF Connected, NoFrame, HandlingOK, FramesUpTo
  <1>3. TargetOK'
    BY <1>1 DEF Connected, Inv, TargetOK, CursorOK
  <1>4. StateOK'
    BY DEF Connected, StateOK
  <1> QED
    BY <1>2, <1>3, <1>4, SameJournals, Kept
    DEF Connected, Inv, gatewayVars, network, streamVars, routerVars

LEMMA ReceiveEventKeeps == ASSUME Inv, ReceiveEvent PROVE Inv'
  <1> DEFINE seq == Head(down[sock]).seq
  <1>1. gJ' = gJ /\ {gJ.last, cJ.last} \subseteq Nat /\ cJ \in Journals /\ MaxSeq \in Nat
    BY BoundsAssumption DEF ReceiveEvent, Inv, JournalsOK, Journals
  <1>2. sock \in Conns /\ down[sock] # << >>
    BY DEF ReceiveEvent, Receiving, Inv, SockOK
  <1>3. DownOK' /\ Head(down[sock]) \in FramesUpTo(gJ.last)
    BY <1>1, <1>2, FrameTaken DEF ReceiveEvent, TakeDown, Inv, DownOK
  <1>4. seq \in 0 .. gJ.last
    BY <1>3 DEF FramesUpTo
  <1> HIDE DEF seq
  <1>5. CASE cJ' = cJ /\ handling' = handling
    <2>1. UpOK' /\ LinkOK'
      <3>1. CASE seq = cursor /\ AckEvent(seq)
        BY <1>5, <3>1, Acks DEF Inv, CursorOK
      <3>2. CASE ProtocolFailure /\ up' = up
        BY <1>5, <3>2, Closes DEF Inv, UpOK
      <3>3. CASE Acceptable(seq) /\ cJ' = Append1(cJ)
        <4>1. [cJ EXCEPT !.last = @ + 1].last = cJ.last + 1
          BY <1>1 DEF Journals
        <4>2. cJ.last + 1 # cJ.last
          BY <1>1
        <4> QED BY <1>5, <3>3, <4>1, <4>2 DEF Append1
      <3> QED BY <3>1, <3>2, <3>3 DEF ReceiveEvent, seq
    <2> QED
      BY <1>1, <1>3, <1>5, <2>1, SameJournals, Kept
      DEF ReceiveEvent, journals, Inv, gatewayVars, streamVars, routerVars
  <1>6. CASE ~(cJ' = cJ /\ handling' = handling)
    <2>1. /\ seq = cJ.last + 1 /\ cJ' = [cJ EXCEPT !.last = @ + 1]
          /\ handling' = [type |-> "event", seq |-> seq] /\ up' = up /\ link' = link
      BY <1>6 DEF ReceiveEvent, Acceptable, Append1, seq
    <2>2. JournalsOK' /\ gJ.last <= gJ'.last /\ cJ.last <= cJ'.last
      BY <1>1, <1>4, <2>1 DEF Inv, JournalsOK, NothingForgotten, Journals
    <2>3. cJ'.last = cJ.last + 1
      BY <1>1, <2>1 DEF Journals
    <2>4. HandlingOK'
      BY <1>1, <2>1, <2>3 DEF HandlingOK, FramesUpTo
    <2> QED
      BY <1>3, <2>1, <2>2, <2>4, Kept DEF ReceiveEvent, Inv, gatewayVars, streamVars, routerVars
  <1> QED BY <1>5, <1>6

LEMMA AppendedKeeps == ASSUME Inv, Appended PROVE Inv'
  <1>1. cJ' = cJ /\ cJ.last \in Nat
    BY DEF Appended, journals, Inv, JournalsOK, Journals
  <1>2. handling.seq \in 0 .. cJ.last /\ handling.seq \in 1 .. cJ.last
    BY <1>1 DEF Appended, Inv, HandlingOK, FramesUpTo
  <1>3. UpOK' /\ LinkOK'
    BY <1>1, <1>2, Acks DEF Appended
  <1>4. QueueOK'
    BY <1>1, <1>2, AppendProperties DEF Appended, Inv, QueueOK
  <1>5. CursorOK'
    BY <1>1, <1>2 DEF Appended, CursorOK
  <1>6. HandlingOK'
    BY <1>1 DEF Appended, NoFrame, HandlingOK, FramesUpTo
  <1> QED
    BY <1>3, <1>4, <1>5, <1>6, SameJournals, Kept DEF Appended, Inv, gatewayVars, routerVars
----------------------------------------------------------------------------
(* The steps of the stream and of the routers.                             *)

LEMMA ReadBacklogKeeps == ASSUME Inv, ReadBacklog PROVE Inv'
  <1> DEFINE start == Larger(cJ.first, Larger(cJ.delivered, yielded) + 1)
             upto == IF cJ.last < target THEN cJ.last ELSE target
             pending == Events(start, upto)
             n == IF Len(pending) < PageSize THEN Len(pending) ELSE PageSize
  <1>1. cJ' = cJ /\ cJ.last \in Nat
    BY DEF ReadBacklog, journals, Inv, JournalsOK, Journals
  <1>2. start \in Nat \ {0} /\ upto \in 0 .. cJ.last
    <2>1. cJ.first \in Nat \ {0} /\ {cJ.delivered, yielded} \subseteq Nat /\ target \in 0 .. cJ.last
      BY BoundsAssumption DEF Inv, JournalsOK, Journals, YieldedOK, TargetOK
    <2> QED BY <1>1, <2>1 DEF Larger
  <1>3. PageOK'
    <2>1. CASE page' = page
      BY <1>1, <2>1 DEF Inv, PageOK
    <2>2. CASE page' # page
      <3>1. page' = SubSeq(pending, 1, n) /\ pending # << >>
        BY <2>2 DEF ReadBacklog, ReadAfter
      <3> HIDE DEF start, upto
      <3>2. pending \in Seq(start .. upto) /\ upto \in Nat
        BY <1>1, <1>2, EventsAreKnown
      <3>3. start .. upto \subseteq 1 .. cJ.last
        BY <1>1, <1>2
      <3> HIDE DEF pending
      <3>4. pending \in Seq(1 .. cJ.last)
        BY <3>2, <3>3, SeqMonotonic
      <3>5. n \in 1 .. Len(pending)
        BY <3>1, <3>4, EmptySeq, LenProperties, BoundsAssumption
      <3> HIDE DEF n
      <3>6. \A i \in 1 .. n : pending[i] \in 1 .. cJ.last
        <4>1. Len(pending) \in Nat
          BY <3>4, LenProperties
        <4>2. 1 .. n \subseteq 1 .. Len(pending)
          BY <3>5, <4>1
        <4> QED BY <3>4, <4>2, ElementOfSeq
      <3>7. SubSeq(pending, 1, n) \in Seq(1 .. cJ.last)
        <4>1. 1 \in Int /\ n \in Int
          BY <3>4, <3>5, LenProperties
        <4> QED BY <3>6, <4>1, SubSeqProperties
      <3> QED BY <1>1, <3>1, <3>7 DEF PageOK
    <2> QED BY <2>1, <2>2
  <1>4. RouterOK(router)'
    <2>1. router' = router \/ router' = [router EXCEPT !.failed = TRUE]
      BY DEF ReadBacklog
    <2>2. handled' = handled
      BY DEF ReadBacklog
    <2> QED BY <1>1, <2>1, <2>2 DEF Inv, RouterOK, RoutersUpTo
  <1> QED
    BY <1>3, <1>4, SameJournals, Kept
    DEF ReadBacklog, Inv, gatewayVars, network, clientVars

\* An event of the client's journal is dispatched.
LEMMA Dispatches ==
  ASSUME Inv, NEW e \in 1 .. cJ.last, Dispatch(e), UNCHANGED <<journals, handled>>
  PROVE  RouterOK(router)'
  <1>1. cJ' = cJ /\ handled' = handled /\ cJ.last \in Nat
    BY DEF journals, Inv, JournalsOK, Journals
  <1>2. e \in 0 .. cJ.last /\ e \in 0 .. cJ.last + 1
    BY <1>1
  <1> QED BY <1>1, <1>2 DEF Dispatch, Inv, RouterOK, RoutersUpTo

LEMMA PullBacklogKeeps == ASSUME Inv, PullBacklog PROVE Inv'
  <1>1. cJ' = cJ /\ cJ.last \in Nat /\ page \in Seq(1 .. cJ.last) /\ page # << >>
    BY DEF PullBacklog, journals, Inv, JournalsOK, Journals, PageOK
  <1>2. Head(page) \in 1 .. cJ.last /\ Tail(page) \in Seq(1 .. cJ.last)
    BY <1>1, HeadTailProperties
  <1>3. PageOK' /\ YieldedOK'
    BY <1>1, <1>2 DEF PullBacklog, PageOK, YieldedOK
  <1>4. RouterOK(router)'
    BY <1>2, Dispatches DEF PullBacklog
  <1> QED
    BY <1>3, <1>4, SameJournals, Kept DEF PullBacklog, Inv, gatewayVars, network, clientVars

LEMMA PullLiveKeeps == ASSUME Inv, PullLive PROVE Inv'
  <1>1. cJ' = cJ /\ cJ.last \in Nat /\ queue \in Seq(1 .. cJ.last) /\ queue # << >>
    BY DEF PullLive, journals, Inv, JournalsOK, Journals, QueueOK
  <1>2. Head(queue) \in 1 .. cJ.last /\ Tail(queue) \in Seq(1 .. cJ.last)
    BY <1>1, HeadTailProperties
  <1>3. QueueOK'
    BY <1>1, <1>2 DEF PullLive, QueueOK
  <1>4. RouterOK(router)'
    BY <1>2, Dispatches DEF PullLive
  <1> QED
    BY <1>3, <1>4, SameJournals, Kept DEF PullLive, Inv, gatewayVars, network, clientVars

\* A handler of either router has finished.
LEMMA Settles ==
  ASSUME NEW r, RouterOK(r), cJ.last \in Nat, NEW e \in r.running
  PROVE  /\ Settled(r, e) \in RoutersUpTo(cJ.last)
         /\ Settled(r, e).settled \subseteq handled \cup {e}
         /\ e \in 1 .. cJ.last
  BY DEF RouterOK, RoutersUpTo, Settled

LEMMA RouteKeeps == ASSUME Inv, NEW e, Route(e) PROVE Inv'
  <1>1. cJ' = cJ /\ cJ.last \in Nat /\ handled' = handled \cup {e}
    BY DEF Route, journals, Inv, JournalsOK, Journals
  <1>2. router' = Settled(router, e) /\ e \in router.running
    BY DEF Route
  <1>3. /\ Settled(router, e) \in RoutersUpTo(cJ.last)
        /\ Settled(router, e).settled \subseteq handled \cup {e}
        /\ e \in 1 .. cJ.last
    BY <1>1, <1>2, Settles DEF Inv
  <1>4. RouterOK(router)' /\ HandledOK'
    BY <1>1, <1>2, <1>3 DEF RouterOK, HandledOK, Inv
  <1> QED
    BY <1>1, <1>4, SameJournals, Kept DEF Route, Inv, gatewayVars, network, clientVars, streamVars

LEMMA RouteOldKeeps == ASSUME Inv, NEW e, RouteOld(e) PROVE Inv'
  <1>1. cJ' = cJ /\ cJ.last \in Nat /\ handled' = handled \cup {e}
    BY DEF RouteOld, journals, Inv, JournalsOK, Journals
  <1>2. old' = Settled(old, e) /\ e \in old.running
    BY DEF RouteOld
  <1>3. /\ Settled(old, e) \in RoutersUpTo(cJ.last)
        /\ Settled(old, e).settled \subseteq handled \cup {e}
        /\ e \in 1 .. cJ.last
    BY <1>1, <1>2, Settles DEF Inv
  <1>4. RouterOK(old)' /\ HandledOK'
    BY <1>1, <1>2, <1>3 DEF RouterOK, HandledOK, Inv
  <1> QED
    BY <1>1, <1>4, SameJournals, Kept
    DEF RouteOld, Inv, gatewayVars, network, clientVars, streamVars

\* What an acknowledgement of a router does to its journal and to the router.
LEMMA Acknowledges ==
  ASSUME Inv, NEW r, RouterOK(r), MayAcknowledge(r), MarkDelivered(r), gJ' = gJ
  PROVE  /\ JournalsOK' /\ cJ'.last = cJ.last /\ gJ.last <= gJ'.last /\ cJ.last <= cJ'.last
         /\ \/ cJ'.delivered = cJ.delivered
            \/ cJ'.delivered = cJ.delivered + 1 /\ cJ'.delivered \in handled
         /\ Flushed(r, AckAccepted(r)) \in RoutersUpTo(cJ.last)
         /\ Flushed(r, AckAccepted(r)).settled \subseteq handled
  <1>1. gJ \in Journals /\ cJ \in Journals /\ {MaxSeq, cJ.last, gJ.last} \subseteq Nat
    BY BoundsAssumption DEF Inv, JournalsOK, Journals
  <1>2. r.next \in 1 .. cJ.last /\ r.next \in handled
    BY DEF RouterOK, RoutersUpTo, MayAcknowledge
  <1>3. /\ JournalsOK' /\ cJ'.last = cJ.last
        /\ \/ cJ'.delivered = cJ.delivered
           \/ cJ'.delivered = cJ.delivered + 1 /\ cJ'.delivered \in handled
    <2>1. CASE cJ' = cJ
      BY <2>1, SameJournals DEF journals
    <2>2. CASE cJ' # cJ
      <3>1. NextDelivered(cJ, r.next) /\ cJ' \in Delivered(cJ, r.next)
        BY <2>2 DEF MarkDelivered
      <3>2. r.next \in 0 .. MaxSeq
        BY <1>1, <1>2 DEF Journals
      <3>3. /\ cJ' \in Journals /\ cJ'.last = cJ.last /\ cJ'.delivered = r.next
            /\ cJ'.first = cJ.first \/ cJ'.first <= r.next
        BY <1>1, <3>1, <3>2, DeliveredJournal
      <3>4. r.next = cJ.delivered + 1
        BY <3>1 DEF NextDelivered
      <3>5. JournalsOK'
        BY <1>1, <1>2, <3>3, <3>4 DEF Inv, JournalsOK, NothingForgotten, Journals
      <3> QED BY <1>2, <3>3, <3>4, <3>5
    <2> QED BY <2>1, <2>2
  <1>4. /\ Flushed(r, AckAccepted(r)) \in RoutersUpTo(cJ.last)
        /\ Flushed(r, AckAccepted(r)).settled \subseteq handled
    <2>1. r.next + 1 \in 0 .. cJ.last + 1
      BY <1>1, <1>2
    <2> QED BY <2>1 DEF RouterOK, RoutersUpTo, Flushed
  <1> QED BY <1>1, <1>3, <1>4

LEMMA AcknowledgeKeeps == ASSUME Inv, Acknowledge PROVE Inv'
  <1>1. /\ JournalsOK' /\ cJ'.last = cJ.last /\ gJ.last <= gJ'.last /\ cJ.last <= cJ'.last
        /\ RouterOK(router)'
    BY Acknowledges DEF Acknowledge, Inv, RouterOK
  <1> QED
    BY <1>1, Kept DEF Acknowledge, Inv, gatewayVars, network, clientVars, streamVars

LEMMA AcknowledgeOldKeeps == ASSUME Inv, AcknowledgeOld PROVE Inv'
  <1>1. /\ JournalsOK' /\ cJ'.last = cJ.last /\ gJ.last <= gJ'.last /\ cJ.last <= cJ'.last
        /\ RouterOK(old)'
    BY Acknowledges DEF AcknowledgeOld, Inv, RouterOK
  <1> QED
    BY <1>1, Kept DEF AcknowledgeOld, Inv, gatewayVars, network, clientVars, streamVars
----------------------------------------------------------------------------
(* New objects know what the journals know.                                *)

\* Nothing is under way, and nobody has been given anything.
LEMMA Fresh ==
  ASSUME NEW m \in Nat, NEW n \in Nat
  PROVE  /\ [c \in Conns |-> << >>] \in [Conns -> Seq(FramesUpTo(n))]
         /\ << >> \in Seq(AcksUpTo(n)) /\ << >> \in Seq(1 .. n)
         /\ NoFrame \in FramesUpTo(n) /\ NoFrame.type # "event"
         /\ NewRouter \in RoutersUpTo(n) /\ NewRouter.settled = {}
         /\ NoResume \in [conn : Conns \cup {NoConn}, seq : 0 .. n, upto : 0 .. m,
                          stage : {"none", "validated", "ready", "read"}]
  BY DEF NoFrame, FramesUpTo, NewRouter, RoutersUpTo, NoResume

LEMMA RenewKeeps ==
  ASSUME Inv, Renew, old' \in {router, NewRouter}, ({drops, crashes, retires} \subseteq Nat)'
  PROVE  Inv'
  <1>1. {gJ.last, cJ.last} \subseteq Nat /\ gJ' = gJ /\ cJ' = cJ /\ handled' = handled
    BY DEF Renew, journals, Inv, JournalsOK, Journals
  <1>2. UnsentOK' /\ ActiveOK' /\ KnockingOK' /\ SockOK' /\ LinkOK' /\ StateOK'
    <2>1. UnsentOK'
      BY <1>1 DEF Renew, UnsentOK
    <2>2. ActiveOK' /\ KnockingOK' /\ SockOK'
      BY DEF Renew, ActiveOK, KnockingOK, SockOK
    <2>3. LinkOK' /\ StateOK'
      BY DEF Renew, LinkOK, StateOK
    <2> QED BY <2>1, <2>2, <2>3
  <1>3. ResumeOK' /\ AcksOK' /\ UpOK' /\ DownOK' /\ HandlingOK' /\ PageOK' /\ QueueOK'
    BY <1>1, Fresh
    DEF Renew, ResumeOK, AcksOK, UpOK, DownOK, HandlingOK, PageOK, QueueOK
  <1>4. CursorOK' /\ TargetOK' /\ YieldedOK'
    BY <1>1 DEF Renew, CursorOK, TargetOK, YieldedOK
  <1>5. RouterOK(NewRouter)'
    BY <1>1, Fresh DEF RouterOK, NewRouter
  <1>6. RouterOK(router)' /\ RouterOK(old)' /\ HandledOK'
    BY <1>1, <1>5 DEF Renew, Inv, RouterOK, HandledOK
  <1>7. JournalsOK'
    BY <1>1 DEF Inv, JournalsOK, NothingForgotten
  <1> QED BY <1>2, <1>3, <1>4, <1>6, <1>7 DEF Inv

LEMMA RetireKeeps == ASSUME Inv, Retire PROVE Inv'
  <1>1. ({drops, crashes, retires} \subseteq Nat)'
    BY DEF Retire, Inv
  <1> QED BY <1>1, RenewKeeps DEF Retire

LEMMA CrashKeeps == ASSUME Inv, Crash PROVE Inv'
  <1>1. ({drops, crashes, retires} \subseteq Nat)'
    BY DEF Crash, Inv
  <1> QED BY <1>1, RenewKeeps DEF Crash
----------------------------------------------------------------------------
(* The invariant, and nothing is forgotten.                                *)

LEMMA InitInv == Init => Inv
  <1> SUFFICES ASSUME Init PROVE Inv
    OBVIOUS
  <1>1. gJ = EmptyJournal /\ cJ = EmptyJournal /\ MaxSeq \in Nat
    BY BoundsAssumption DEF Init
  <1>2. gJ.last = 0 /\ cJ.last = 0 /\ JournalsOK
    BY <1>1 DEF EmptyJournal, JournalsOK, Journals, NothingForgotten
  <1>3. /\ UnsentOK /\ CursorOK /\ TargetOK /\ YieldedOK /\ HandledOK
        /\ ActiveOK /\ KnockingOK /\ SockOK /\ LinkOK /\ StateOK
        /\ {drops, crashes, retires} \subseteq Nat
    <2>1. UnsentOK /\ CursorOK /\ TargetOK /\ YieldedOK /\ HandledOK
      BY <1>2 DEF Init, UnsentOK, CursorOK, TargetOK, YieldedOK, HandledOK
    <2>2. ActiveOK /\ KnockingOK /\ SockOK
      BY DEF Init, ActiveOK, KnockingOK, SockOK
    <2>3. LinkOK /\ StateOK
      BY DEF Init, LinkOK, StateOK
    <2>4. {drops, crashes, retires} \subseteq Nat
      BY DEF Init
    <2> QED BY <2>1, <2>2, <2>3, <2>4
  <1>4. 0 \in Nat
    OBVIOUS
  <1>5. ResumeOK /\ AcksOK /\ UpOK /\ DownOK /\ HandlingOK /\ PageOK /\ QueueOK
    BY <1>2, <1>4, Fresh
    DEF Init, ResumeOK, AcksOK, UpOK, DownOK, HandlingOK, PageOK, QueueOK
  <1>6. RouterOK(router) /\ RouterOK(old)
    BY <1>2, <1>4, Fresh DEF Init, RouterOK
  <1> QED BY <1>2, <1>3, <1>5, <1>6 DEF Inv

LEMMA StutterKeeps == ASSUME Inv, UNCHANGED vars PROVE Inv'
  <1>1. JournalsOK' /\ gJ.last <= gJ'.last /\ cJ.last <= cJ'.last
    BY SameJournals DEF vars
  <1> QED
    BY <1>1, Kept
    DEF vars, Inv, gatewayVars, network, clientVars, streamVars, routerVars

LEMMA NextInv == ASSUME Inv, [Next]_vars PROVE Inv'
  <1>1. CASE Record
    BY <1>1, RecordKeeps
  <1>2. CASE Gateway
    BY <1>2, SendLiveKeeps, ReconcileKeeps, ReadReplayKeeps, SendReplayKeeps, TakeAckKeeps,
       DetachKeeps, AttachKeeps, TakeFrameKeeps DEF Gateway
  <1>3. CASE Transport
    BY <1>3, OnOpenKeeps, OnCloseKeeps, ReceiveReadyKeeps, ConnectedKeeps, ReceiveEventKeeps,
       AppendedKeeps, OpenKeeps DEF Transport
  <1>4. CASE Router
    BY <1>4, ReadBacklogKeeps, PullBacklogKeeps, PullLiveKeeps, AcknowledgeKeeps, RouteKeeps
    DEF Router
  <1>5. CASE AcknowledgeOld \/ \E e \in 1 .. MaxSeq : RouteOld(e)
    BY <1>5, AcknowledgeOldKeeps, RouteOldKeeps
  <1>6. CASE Drop \/ Retire \/ Crash
    BY <1>6, DropKeeps, RetireKeeps, CrashKeeps
  <1>7. CASE UNCHANGED vars
    BY <1>7, StutterKeeps
  <1> QED BY <1>1, <1>2, <1>3, <1>4, <1>5, <1>6, <1>7 DEF Next

LEMMA Invariant == Spec => []Inv
  <1>1. Init => Inv
    BY InitInv
  <1>2. Inv /\ [Next]_vars => Inv'
    BY NextInv
  <1> QED BY <1>1, <1>2, PTL DEF Spec

(* The gateway never counts as delivered what the client has not made      *)
(* durable, and no journal drops what the other side, or a handler, still  *)
(* needs: compaction and the two delivery cursors (file-event-journal.ts)  *)
(* lose nothing across reconnects, replays, crashes and replaced workers.  *)
THEOREM NothingIsForgotten == Spec => []NothingForgotten
  <1>1. Inv => NothingForgotten
    BY DEF Inv, JournalsOK
  <1> QED BY <1>1, Invariant, PTL

\* What is known at all is within the bound on what is recorded.
LEMMA Typed == Inv => TypeOK
  <1> SUFFICES ASSUME Inv PROVE TypeOK
    OBVIOUS
  <1>1. gJ \in Journals /\ cJ \in Journals /\ MaxSeq \in Nat
    BY BoundsAssumption DEF Inv, JournalsOK
  <1>2. {gJ.last, cJ.last} \subseteq Nat /\ gJ.last <= MaxSeq /\ cJ.last <= MaxSeq
    BY <1>1 DEF Journals
  <1>3. /\ 0 .. gJ.last \subseteq 0 .. MaxSeq /\ 0 .. cJ.last \subseteq 0 .. MaxSeq
        /\ 1 .. cJ.last \subseteq 1 .. MaxSeq
        /\ FramesUpTo(cJ.last) \subseteq FramesUpTo(MaxSeq)
        /\ FramesUpTo(gJ.last) \subseteq FramesUpTo(MaxSeq)
        /\ AcksUpTo(cJ.last) \subseteq AcksUpTo(MaxSeq)
        /\ RoutersUpTo(cJ.last) \subseteq RoutersUpTo(MaxSeq)
    BY <1>1, <1>2, KnownGrows
  <1>4. /\ FramesUpTo(MaxSeq) = Frames /\ RoutersUpTo(MaxSeq) = Routers
        /\ AcksUpTo(MaxSeq) = [conn : Conns, seq : 0 .. MaxSeq]
    BY DEF FramesUpTo, Frames, RoutersUpTo, Routers, AcksUpTo
  <1>5. /\ unsent \in 0 .. MaxSeq /\ {cursor, target, yielded} \subseteq 0 .. MaxSeq
        /\ handled \subseteq 1 .. MaxSeq
    BY <1>3 DEF Inv, UnsentOK, CursorOK, TargetOK, YieldedOK, HandledOK
  <1>6. resume \in [conn : Conns \cup {NoConn}, seq : 0 .. MaxSeq, upto : 0 .. MaxSeq,
                    stage : {"none", "validated", "ready", "read"}]
    BY <1>3 DEF Inv, ResumeOK
  <1>7. acks \in Seq([conn : Conns, seq : 0 .. MaxSeq])
    BY <1>3, <1>4, SeqMonotonic DEF Inv, AcksOK
  <1>8. up \in [Conns -> Seq(Frames)] /\ down \in [Conns -> Seq(Frames)]
    <2>1. /\ Seq(FramesUpTo(cJ.last)) \subseteq Seq(Frames)
          /\ Seq(FramesUpTo(gJ.last)) \subseteq Seq(Frames)
      BY <1>3, <1>4, SeqMonotonic
    <2> QED BY <2>1 DEF Inv, UpOK, DownOK
  <1>9. page \in Seq(1 .. MaxSeq) /\ queue \in Seq(1 .. MaxSeq)
    <2>1. page \in Seq(1 .. cJ.last) /\ queue \in Seq(1 .. cJ.last)
      BY DEF Inv, PageOK, QueueOK
    <2>2. Seq(1 .. cJ.last) \subseteq Seq(1 .. MaxSeq)
      BY <1>3, SeqMonotonic
    <2> QED BY <2>1, <2>2
  <1>10. handling \in Frames /\ router \in Routers /\ old \in Routers
    BY <1>3, <1>4 DEF Inv, HandlingOK, RouterOK
  <1>11. /\ active \in Conns \cup {NoConn} /\ knocking \subseteq Conns
         /\ sock \in Conns \cup {NoConn}
         /\ link \in {"none", "connecting", "open", "closing"}
         /\ state \in {"connecting", "connected"} /\ loaded \in BOOLEAN
    BY DEF Inv, ActiveOK, KnockingOK, SockOK, LinkOK, StateOK
  <1> QED BY <1>1, <1>5, <1>6, <1>7, <1>8, <1>9, <1>10, <1>11 DEF TypeOK

(* Every sequence number, on the wire or in memory, is one of an event the *)
(* App Server printed, and every frame goes to a socket that exists.       *)
THEOREM TypeCorrect == Spec => []TypeOK
  BY Typed, Invariant, PTL
----------------------------------------------------------------------------
(* Both sides together are a DeliveryLog.                                  *)

LEMMA StepsOfTheLog == ASSUME Inv, [Next]_vars PROVE [Log!Next]_(Log!vars)
  <1> USE DEF Log!vars
  <1>1. CASE Record
    <2>1. gJ' = [gJ EXCEPT !.last = @ + 1] /\ cJ' = cJ /\ handled' = handled
      BY <1>1 DEF Record, Append1, routerVars
    <2>2. gJ'.last = gJ.last + 1 /\ gJ.last < MaxSeq
      BY <1>1, <2>1 DEF Record, Inv, JournalsOK, Journals
    <2> QED BY <2>1, <2>2 DEF Log!Next, Log!Record
  <1>2. CASE Gateway
    <2>1. cJ' = cJ /\ handled' = handled
      BY <1>2 DEF Gateway, SendLive, Reconcile, ReadReplay, SendReplay, TakeAck, Detach, Attach,
         TakeFrame, journals, routerVars
    <2>2. gJ'.last = gJ.last
      <3>1. CASE gJ' = gJ
        BY <3>1
      <3>2. CASE gJ' # gJ
        <4>1. PICK seq : gJ' \in Delivered(gJ, seq)
          BY <1>2, <3>2 DEF Gateway, SendLive, Reconcile, ReadReplay, SendReplay, TakeAck,
             Detach, Attach, TakeFrame, journals
        <4> QED BY <4>1 DEF Delivered, Inv, JournalsOK, Journals
      <3> QED BY <3>1, <3>2
    <2> QED BY <2>1, <2>2
  <1>3. CASE Transport
    <2>1. gJ' = gJ /\ handled' = handled
      BY <1>3 DEF Transport, OnOpen, OnClose, ReceiveReady, Connected, ReceiveEvent, Appended,
         Open, journals, routerVars
    <2>2. cJ' \in {cJ, Append1(cJ)}
      BY <1>3 DEF Transport, OnOpen, OnClose, ReceiveReady, Connected, ReceiveEvent, Appended,
         Open, journals
    <2>3. cJ'.delivered = cJ.delivered
      BY <2>2 DEF Append1, Inv, JournalsOK, Journals
    <2> QED BY <2>1, <2>3
  <1>4. ASSUME NEW r, RouterOK(r), MayAcknowledge(r), MarkDelivered(r), gJ' = gJ,
               handled' = handled
        PROVE  [Log!Next]_(Log!vars)
    <2>1. \/ cJ'.delivered = cJ.delivered
          \/ cJ'.delivered = cJ.delivered + 1 /\ cJ'.delivered \in handled
      BY <1>4, Acknowledges
    <2> QED BY <1>4, <2>1 DEF Log!Next, Log!Acknowledge
  <1>5. ASSUME NEW e \in 1 .. cJ.last, handled' = handled \cup {e}, UNCHANGED journals
        PROVE  [Log!Next]_(Log!vars)
    <2>1. e \in 1 .. gJ.last
      BY <1>5 DEF Inv, JournalsOK, NothingForgotten, Journals
    <2> QED BY <1>5, <2>1 DEF Log!Next, Log!Handle, journals
  <1>6. CASE Router
    <2>1. CASE ReadBacklog \/ PullBacklog \/ PullLive
      BY <2>1 DEF ReadBacklog, PullBacklog, PullLive, journals
    <2>2. CASE Acknowledge
      BY <1>4, <2>2 DEF Acknowledge, Inv
    <2>3. CASE \E e \in 1 .. MaxSeq : Route(e)
      <3>1. PICK e \in router.running : handled' = handled \cup {e} /\ UNCHANGED journals
        BY <2>3 DEF Route
      <3>2. e \in 1 .. cJ.last
        BY DEF Inv, RouterOK, RoutersUpTo
      <3> QED BY <1>5, <3>1, <3>2
    <2> QED BY <1>6, <2>1, <2>2, <2>3 DEF Router
  <1>7. CASE AcknowledgeOld
    BY <1>4, <1>7 DEF AcknowledgeOld, Inv
  <1>8. CASE \E e \in 1 .. MaxSeq : RouteOld(e)
    <2>1. PICK e \in old.running : handled' = handled \cup {e} /\ UNCHANGED journals
      BY <1>8 DEF RouteOld
    <2>2. e \in 1 .. cJ.last
      BY DEF Inv, RouterOK, RoutersUpTo
    <2> QED BY <1>5, <2>1, <2>2
  <1>9. CASE Drop \/ Retire \/ Crash \/ UNCHANGED vars
    BY <1>9 DEF Drop, Retire, Crash, Renew, vars, journals, routerVars
  <1> QED BY <1>1, <1>2, <1>3, <1>6, <1>7, <1>8, <1>9 DEF Next

(* Whatever interleaves, breaks or is replaced, the gateway, the transport *)
(* and the routers implement the delivery log: an event is acknowledged    *)
(* for good once, in the order of the record, and only after a handler has *)
(* finished with it (queueAcknowledgement, markDelivered).                 *)
THEOREM ImplementsDeliveryLog == Spec => ImplementsLog
  <1>1. Init => Log!Init
    BY DEF Init, EmptyJournal, Log!Init
  <1>2. Inv /\ [Next]_vars => [Log!Next]_(Log!vars)
    BY StepsOfTheLog
  <1> QED BY <1>1, <1>2, Invariant, PTL DEF Spec, ImplementsLog, Log!Spec

----------------------------------------------------------------------------
(***************************************************************************)
(* A router is given the events in their order, for any sockets, buffers,  *)
(* pages and retention and any number of events, failures and replaced     *)
(* workers; and it leaves out only what the handlers of a replaced router  *)
(* have acknowledged meanwhile, which takes more events than TLC's         *)
(* instances have.                                                         *)
(*                                                                         *)
(* Order says that backlog, page and live queue are runs of events that    *)
(* continue each other, whoever acknowledges.  Alone says what holds       *)
(* beyond that until the first worker is replaced: the router then is the  *)
(* only one that moves the delivery cursor.                                *)
(***************************************************************************)

\* The events of s follow each other, and k is the last of them.
Run(s, k) == \A i \in 1 .. Len(s) : s[i] + Len(s) = k + i

Unloaded ==
    ~loaded => /\ state = "connecting" /\ handling.type # "event" /\ cursor = cJ.last
               /\ router = NewRouter /\ yielded = 0 /\ target = 0
               /\ page = << >> /\ queue = << >>
Unqueued == handling.type = "event" => handling.seq = cursor + 1
Yields ==
    /\ yielded <= target
    /\ yielded < target => router.last = yielded
    /\ yielded = target => target <= router.last
PageRuns ==
    /\ \E k \in 0 .. target : Run(page, k)
    /\ page # << >> => /\ yielded < Head(page)
                       /\ Head(page) <= Larger(cJ.delivered, yielded) + 1
QueueRuns ==
    /\ Run(queue, cursor)
    /\ loaded /\ (target # 0 \/ router.last # 0)
         => cursor = Larger(target, router.last) + Len(queue)

Order == Unloaded /\ Unqueued /\ Yields /\ PageRuns /\ QueueRuns

OnlyRouter ==
    /\ old = NewRouter /\ ~router.broken /\ ~router.failed
    /\ router.running \cap router.settled = {}
    /\ router.running \cup router.settled \subseteq router.next .. router.last
    /\ router.next = 0 => router.last = 0 /\ router.running = {} /\ router.settled = {}
    /\ router.next # 0 => /\ router.next = cJ.delivered + 1
                          /\ router.last # 0 /\ cJ.delivered <= router.last

Given == IF router.last = 0 THEN cJ.delivered ELSE router.last

OnlyStream ==
    /\ page # << >> => Head(page) = Given + 1
    /\ loaded /\ target = 0 /\ router.last = 0 => cursor = cJ.delivered + Len(queue)
    /\ target # 0 /\ router.last = 0 => cJ.delivered < target

Alone == retires = 0 => OnlyRouter /\ OnlyStream

OInv == Inv /\ Order /\ Alone

----------------------------------------------------------------------------
(* Runs of events.                                                         *)

LEMMA RunEmpty == ASSUME NEW k PROVE Run(<< >>, k)
  BY DEF Run

LEMMA OneFewer ==
  ASSUME NEW x \in Nat, NEW m \in Nat, NEW k \in Nat, NEW i \in Nat, x + m = k + (i + 1)
  PROVE  x + (m - 1) = k + i
  OBVIOUS

LEMMA OneMore ==
  ASSUME NEW x \in Nat, NEW m \in Nat, NEW k \in Nat, NEW i \in Nat, x + m = k + i
  PROVE  x + (m + 1) = (k + 1) + i
  OBVIOUS

LEMMA RunTail ==
  ASSUME NEW s \in Seq(Nat), s # << >>, NEW k \in Nat, Run(s, k)
  PROVE  /\ Tail(s) \in Seq(Nat) /\ Run(Tail(s), k)
         /\ Head(s) \in Nat /\ Len(s) \in Nat \ {0} /\ Len(Tail(s)) = Len(s) - 1
         /\ Head(s) + Len(s) = k + 1
         /\ Tail(s) # << >> => Head(Tail(s)) = Head(s) + 1
  <1>1. /\ Head(s) \in Nat /\ Tail(s) \in Seq(Nat) /\ Len(Tail(s)) = Len(s) - 1
        /\ \A i \in 1 .. Len(Tail(s)) : Tail(s)[i] = s[i + 1]
    BY HeadTailProperties
  <1>2. Len(s) \in Nat \ {0} /\ Head(s) = s[1]
    BY EmptySeq, LenProperties
  <1>3. Head(s) + Len(s) = k + 1
    BY <1>2 DEF Run
  <1>4. Run(Tail(s), k)
    <2> SUFFICES ASSUME NEW i \in 1 .. Len(Tail(s)) PROVE Tail(s)[i] + Len(Tail(s)) = k + i
      BY DEF Run
    <2>1. i + 1 \in 1 .. Len(s)
      BY <1>1, <1>2
    <2>2. s[i + 1] + Len(s) = k + (i + 1) /\ s[i + 1] \in Nat
      BY <2>1, ElementOfSeq DEF Run
    <2>3. Tail(s)[i] = s[i + 1] /\ Len(Tail(s)) = Len(s) - 1 /\ i \in Nat /\ Len(s) \in Nat
      BY <1>1, <1>2
    <2>4. s[i + 1] + (Len(s) - 1) = k + i
      <3> DEFINE x == s[i + 1]
                 m == Len(s)
      <3>1. x \in Nat /\ m \in Nat /\ x + m = k + (i + 1)
        BY <2>2, <2>3
      <3> HIDE DEF x, m
      <3>2. x + (m - 1) = k + i
        BY <2>3, <3>1, OneFewer
      <3> QED BY <3>2 DEF x, m
    <2> QED BY <2>3, <2>4
  <1>5. Tail(s) # << >> => Head(Tail(s)) = Head(s) + 1
    <2> SUFFICES ASSUME Tail(s) # << >> PROVE Head(Tail(s)) = Head(s) + 1
      OBVIOUS
    <2>1. Len(Tail(s)) \in Nat \ {0} /\ Head(Tail(s)) = Tail(s)[1]
      BY <1>1, EmptySeq, LenProperties
    <2>2. Tail(s)[1] = s[2] /\ 2 \in 1 .. Len(s)
      BY <1>1, <1>2, <2>1
    <2>3. s[2] + Len(s) = k + 2 /\ s[2] \in Nat
      BY <2>2, ElementOfSeq DEF Run
    <2>4. Head(s) \in Nat /\ Len(s) \in Nat
      BY <1>1, <1>2
    <2>5. s[2] = Head(s) + 1
      <3> DEFINE h == Head(s)
                 x == s[2]
                 m == Len(s)
      <3>1. h \in Nat /\ x \in Nat /\ m \in Nat /\ h + m = k + 1 /\ x + m = k + 2
        BY <1>3, <2>3, <2>4
      <3> HIDE DEF h, x, m
      <3>2. x = h + 1
        BY <3>1
      <3> QED BY <3>2 DEF h, x
    <2> QED BY <2>1, <2>2, <2>5
  <1> QED BY <1>1, <1>2, <1>3, <1>4, <1>5

LEMMA RunAppend ==
  ASSUME NEW s \in Seq(Nat), NEW k \in Nat, Run(s, k)
  PROVE  /\ Run(Append(s, k + 1), k + 1)
         /\ Len(Append(s, k + 1)) = Len(s) + 1 /\ Len(s) \in Nat
  <1> DEFINE t == Append(s, k + 1)
  <1>1. /\ Len(t) = Len(s) + 1 /\ Len(s) \in Nat
        /\ \A i \in 1 .. Len(s) : t[i] = s[i]
        /\ t[Len(s) + 1] = k + 1
    BY AppendProperties, LenProperties
  <1> HIDE DEF t
  <1>2. ASSUME NEW i \in 1 .. Len(s) + 1
        PROVE  t[i] + (Len(s) + 1) = (k + 1) + i
    <2>1. CASE i = Len(s) + 1
      <3> DEFINE m == Len(s)
      <3>1. m \in Nat /\ t[i] = k + 1
        BY <1>1, <2>1
      <3> HIDE DEF m
      <3>2. (k + 1) + (m + 1) = (k + 1) + (m + 1)
        OBVIOUS
      <3> QED BY <2>1, <3>1, <3>2 DEF m
    <2>2. CASE i # Len(s) + 1
      <3>1. i \in 1 .. Len(s)
        BY <1>1, <2>2
      <3>2. s[i] + Len(s) = k + i /\ s[i] \in Nat
        BY <3>1, ElementOfSeq DEF Run
      <3>3. t[i] = s[i] /\ i \in Nat /\ Len(s) \in Nat
        BY <1>1, <3>1
      <3>4. s[i] + (Len(s) + 1) = (k + 1) + i
        BY <3>2, <3>3, OneMore
      <3> QED BY <3>3, <3>4
    <2> QED BY <2>1, <2>2
  <1> QED BY <1>1, <1>2 DEF Run, t

\* A page is a run that begins where it was asked to.
LEMMA RunPage ==
  ASSUME NEW a \in Nat \ {0}, NEW b \in Nat, a <= b, NEW n \in 1 .. Len(Events(a, b))
  PROVE  LET s == SubSeq(Events(a, b), 1, n)
         IN  Run(s, (a + n) - 1) /\ Head(s) = a /\ s # << >> /\ (a + n) - 1 <= b
  <1> DEFINE e == Events(a, b)
             s == SubSeq(e, 1, n)
  <1>1. e = [i \in 1 .. (b + 1) - a |-> (a - 1) + i] /\ (b + 1) - a \in Nat
    BY DEF Events
  <1>2. Len(e) = (b + 1) - a /\ \A i \in 1 .. Len(e) : e[i] = (a - 1) + i
    <2> HIDE DEF e
    <2> QED BY <1>1
  <1>3. n \in Nat \ {0} /\ n <= (b + 1) - a
    BY <1>1, <1>2
  <1>4. \A i \in 1 .. n : e[i] = (a - 1) + i
    BY <1>2, <1>3
  <1> HIDE DEF e
  <1>5. s = [i \in 1 .. n |-> e[i]]
    BY <1>3
  <1>6. Len(s) = n /\ \A i \in 1 .. n : s[i] = (a - 1) + i
    <2> HIDE DEF s
    <2> QED BY <1>3, <1>4, <1>5
  <1> HIDE DEF s
  <1>7. Run(s, (a + n) - 1)
    BY <1>3, <1>6 DEF Run
  <1>8. s # << >> /\ Head(s) = a
    BY <1>3, <1>5, <1>6
  <1> QED BY <1>3, <1>7, <1>8 DEF s, e
----------------------------------------------------------------------------
(* Order: the steps that leave the stream alone, and the others.           *)

LEMMA Numbers ==
  ASSUME Inv
  PROVE  /\ cursor \in Nat /\ target \in Nat /\ yielded \in Nat
         /\ router.last \in Nat /\ router.next \in Nat /\ retires \in Nat
         /\ cJ.first \in Nat /\ cJ.last \in Nat /\ cJ.delivered \in Nat
         /\ cJ.first <= cJ.delivered + 1 /\ cJ.delivered <= cJ.last
         /\ target <= cJ.last
  <1>1. /\ cJ.first \in Nat /\ cJ.last \in Nat /\ cJ.delivered \in Nat
        /\ cJ.first <= cJ.delivered + 1 /\ cJ.delivered <= cJ.last
    BY BoundsAssumption DEF Inv, JournalsOK, Journals, NothingForgotten
  <1>2. /\ cursor \in Nat /\ target \in Nat /\ yielded \in Nat
        /\ router.last \in Nat /\ router.next \in Nat /\ retires \in Nat
    BY <1>1 DEF Inv, CursorOK, TargetOK, YieldedOK, RouterOK, RoutersUpTo
  <1>3. target <= cJ.last
    BY <1>1 DEF Inv, TargetOK
  <1> QED BY <1>1, <1>2, <1>3

LEMMA Streams ==
  ASSUME Inv
  PROVE  /\ page \in Seq(Nat) /\ queue \in Seq(Nat)
         /\ Len(page) \in Nat /\ Len(queue) \in Nat
  <1>1. 1 .. cJ.last \subseteq Nat
    BY Numbers
  <1>2. page \in Seq(Nat) /\ queue \in Seq(Nat)
    BY <1>1, SeqMonotonic DEF Inv, PageOK, QueueOK
  <1> QED BY <1>2, LenProperties

LEMMA LargerIs ==
  ASSUME NEW m \in Nat, NEW n \in Nat
  PROVE  /\ Larger(m, n) \in Nat /\ m <= Larger(m, n) /\ n <= Larger(m, n)
         /\ m <= n => Larger(m, n) = n
         /\ n <= m => Larger(m, n) = m
  BY DEF Larger

\* Acknowledging more, and losing the connection, leave the order alone.
LEMMA OrderStays ==
  ASSUME Inv, Order, UNCHANGED <<loaded, cursor, target, yielded, page, queue, router>>,
         state' \in {state, "connecting"},
         handling' = handling \/ handling'.type # "event",
         cJ'.last = cJ.last, cJ'.delivered \in Nat, cJ.delivered <= cJ'.delivered
  PROVE  Order'
  <1>1. Unloaded' /\ Unqueued'
    BY DEF Order, Unloaded, Unqueued
  <1>2. Yields' /\ QueueRuns'
    BY DEF Order, Yields, QueueRuns
  <1>3. PageRuns'
    <2>1. (page # << >> => Head(page) <= Larger(cJ.delivered, yielded) + 1)
            => (page # << >> => Head(page) <= Larger(cJ'.delivered, yielded) + 1)
      <3>1. Larger(cJ.delivered, yielded) <= Larger(cJ'.delivered, yielded)
        BY Numbers DEF Larger
      <3>2. page # << >> => Head(page) \in Nat
        BY Streams, HeadTailProperties
      <3>3. Larger(cJ.delivered, yielded) \in Nat /\ Larger(cJ'.delivered, yielded) \in Nat
        BY Numbers DEF Larger
      <3> QED BY <3>1, <3>2, <3>3
    <2> QED BY <2>1 DEF Order, PageRuns
  <1> QED BY <1>1, <1>2, <1>3 DEF Order

LEMMA OrderConnected ==
  ASSUME Inv, Order, Connected
  PROVE  Order'
  <1>1. Unloaded' /\ Unqueued'
    BY DEF Connected, NoFrame, Unloaded, Unqueued
  <1>2. UNCHANGED <<cJ, router, cursor, yielded, page, queue>> /\ loaded'
    BY DEF Connected, journals, streamVars, routerVars
  <1>3. CASE loaded
    <2>1. target' = target
      BY <1>3 DEF Connected
    <2>2. Yields' /\ PageRuns'
      BY <1>2, <2>1 DEF Order, Yields, PageRuns
    <2>3. QueueRuns'
      BY <1>2, <1>3, <2>1 DEF Order, QueueRuns
    <2> QED BY <1>1, <2>2, <2>3 DEF Order
  <1>4. CASE ~loaded
    <2>1. router.last = 0 /\ yielded = 0 /\ page = << >> /\ queue = << >>
      BY <1>4 DEF Order, Unloaded, NewRouter
    <2>2. target' \in {0, cursor} /\ cursor \in Nat
      BY <1>4, Numbers DEF Connected
    <2>3. Yields'
      BY <1>2, <2>1, <2>2 DEF Yields
    <2>4. PageRuns'
      BY <1>2, <2>1, <2>2, RunEmpty DEF PageRuns
    <2>5. QueueRuns'
      <3>1. Run(queue', cursor') /\ Len(queue') = 0
        BY <1>2, <2>1, RunEmpty
      <3>2. target' # 0 => cursor' = Larger(target', router'.last) + 0
        <4>1. cursor # 0 => Larger(cursor, 0) = cursor /\ cursor + 0 = cursor
          BY <2>2, LargerIs
        <4> QED BY <1>2, <2>1, <2>2, <4>1
      <3> QED BY <1>2, <2>1, <3>1, <3>2 DEF QueueRuns
    <2> QED BY <1>1, <2>3, <2>4, <2>5 DEF Order
  <1> QED BY <1>3, <1>4

LEMMA OrderReceiveEvent ==
  ASSUME Inv, Order, ReceiveEvent
  PROVE  Order'
  <1>1. UNCHANGED <<loaded, state, cursor, target, yielded, page, queue, router>>
    BY DEF ReceiveEvent, streamVars, routerVars
  <1>2. CASE cJ' = cJ /\ handling' = handling
    BY <1>1, <1>2, Numbers, OrderStays
  <1>3. CASE ~(cJ' = cJ /\ handling' = handling)
    <2> DEFINE seq == Head(down[sock]).seq
    <2>1. /\ Acceptable(seq) /\ cJ' = [cJ EXCEPT !.last = @ + 1]
          /\ handling' = [type |-> "event", seq |-> seq]
      BY <1>3 DEF ReceiveEvent, Append1
    <2>2. state = "connected" /\ handling'.seq = cursor + 1
      BY <2>1 DEF Acceptable
    <2>3. loaded
      BY <2>2 DEF Order, Unloaded
    <2>4. cJ'.delivered = cJ.delivered
      BY <2>1 DEF Inv, JournalsOK, Journals
    <2>5. Unloaded' /\ Unqueued'
      BY <1>1, <2>2, <2>3 DEF Unloaded, Unqueued
    <2>6. Yields' /\ PageRuns' /\ QueueRuns'
      BY <1>1, <2>4 DEF Order, Yields, PageRuns, QueueRuns
    <2> QED BY <2>5, <2>6 DEF Order
  <1> QED BY <1>2, <1>3

LEMMA OrderAppended ==
  ASSUME Inv, Order, Appended
  PROVE  Order'
  <1>1. UNCHANGED <<cJ, loaded, state, target, yielded, page, router>>
    BY DEF Appended, journals, routerVars
  <1>2. handling.seq = cursor + 1 /\ loaded
    BY DEF Appended, Order, Unqueued, Unloaded
  <1>3. cursor' = cursor + 1 /\ queue' = Append(queue, cursor + 1) /\ handling' = NoFrame
    BY <1>2 DEF Appended
  <1>4. Run(queue', cursor') /\ Len(queue') = Len(queue) + 1
    BY <1>3, Numbers, Streams, RunAppend DEF Order, QueueRuns
  <1>5. Unloaded' /\ Unqueued'
    BY <1>1, <1>2, <1>3 DEF Unloaded, Unqueued, NoFrame
  <1>6. Yields' /\ PageRuns'
    BY <1>1 DEF Order, Yields, PageRuns
  <1>7. QueueRuns'
    <2>1. Larger(target, router.last) \in Nat
      BY Numbers DEF Larger
    <2> QED BY <1>1, <1>2, <1>3, <1>4, <2>1, Numbers, Streams DEF Order, QueueRuns
  <1> QED BY <1>5, <1>6, <1>7 DEF Order

\* A page that is not empty begins after what was given and acknowledged.
LEMMA PageRead ==
  ASSUME Inv, Order, ReadBacklog
  PROVE  /\ UNCHANGED <<cJ, loaded, state, handling, cursor, target, yielded, queue, old, retires>>
         /\ loaded /\ yielded < target /\ router'.last = router.last
         /\ \/ /\ page' = page /\ router' = [router EXCEPT !.failed = TRUE]
               /\ ~(Larger(cJ.delivered, yielded) < target)
            \/ /\ \E k \in 0 .. target : Run(page', k)
               /\ page' # << >> /\ Head(page') = Larger(cJ.delivered, yielded) + 1
               /\ router' = router
  <1> DEFINE start == Larger(cJ.first, Larger(cJ.delivered, yielded) + 1)
             upto == IF cJ.last < target THEN cJ.last ELSE target
             pending == Events(start, upto)
             n == IF Len(pending) < PageSize THEN Len(pending) ELSE PageSize
  <1>1. /\ UNCHANGED <<cJ, loaded, state, handling, cursor, target, yielded, queue, old, retires>>
        /\ loaded /\ yielded < target
    BY DEF ReadBacklog, journals, clientVars, bounds
  <1>2. router' = router \/ router' = [router EXCEPT !.failed = TRUE]
    BY DEF ReadBacklog
  <1>3. router'.last = router.last
    BY <1>2 DEF Inv, RouterOK, RoutersUpTo
  <1>4. /\ start = Larger(cJ.delivered, yielded) + 1 /\ upto = target
        /\ start \in Nat \ {0} /\ target \in Nat
    <2> DEFINE d == Larger(cJ.delivered, yielded)
    <2>1. d \in Nat /\ cJ.delivered <= d
      BY Numbers, LargerIs
    <2>2. d + 1 \in Nat /\ cJ.first <= d + 1
      BY <2>1, Numbers
    <2> HIDE DEF d
    <2>3. Larger(cJ.first, d + 1) = d + 1
      BY <2>2, Numbers, LargerIs
    <2>4. upto = target
      BY Numbers
    <2> QED BY <2>1, <2>3, <2>4, Numbers DEF d
  <1>5. CASE pending = << >>
    <2>1. page' = page /\ router' = [router EXCEPT !.failed = TRUE]
      BY <1>5 DEF ReadBacklog, ReadAfter
    <2>2. ~(Larger(cJ.delivered, yielded) < target)
      <3> SUFFICES ASSUME Larger(cJ.delivered, yielded) < target PROVE FALSE
        OBVIOUS
      <3>1. start <= target
        <4> DEFINE d == Larger(cJ.delivered, yielded)
        <4>1. d \in Nat /\ d < target
          BY Numbers, LargerIs
        <4> HIDE DEF d
        <4>2. d + 1 <= target
          BY <4>1, Numbers
        <4> QED BY <1>4, <4>2 DEF d
      <3> HIDE DEF start, upto
      <3>2. pending = [i \in 1 .. (target + 1) - start |-> (start - 1) + i]
        BY <1>4 DEF Events
      <3>3. (target + 1) - start \in Nat \ {0}
        BY <1>4, <3>1
      <3>4. 1 \in DOMAIN pending
        BY <3>2, <3>3
      <3> QED BY <1>5, <3>4
    <2> QED BY <1>1, <1>3, <2>1, <2>2
  <1>6. CASE pending # << >>
    <2>1. page' = SubSeq(pending, 1, n) /\ router' = router
      BY <1>6 DEF ReadBacklog, ReadAfter
    <2> HIDE DEF start, upto
    <2>2. pending \in Seq(start .. target)
      BY <1>4, EventsAreKnown
    <2>3. Len(pending) \in Nat \ {0}
      BY <1>6, <2>2, EmptySeq, LenProperties
    <2>4. n \in 1 .. Len(pending)
      BY <2>3, BoundsAssumption
    <2>5. start <= target
      <3>1. 1 \in 1 .. Len(pending)
        BY <2>3
      <3>2. pending[1] \in start .. target
        BY <2>2, <3>1, ElementOfSeq
      <3> QED BY <1>4, <3>2
    <2> HIDE DEF n
    <2>6. /\ Run(page', (start + n) - 1) /\ Head(page') = start /\ page' # << >>
          /\ (start + n) - 1 <= target
      BY <1>4, <2>1, <2>4, <2>5, RunPage
    <2>7. (start + n) - 1 \in 0 .. target
      BY <1>4, <2>3, <2>4, <2>6
    <2> QED BY <1>1, <1>3, <1>4, <2>1, <2>6, <2>7
  <1> QED BY <1>5, <1>6

LEMMA OrderReadBacklog ==
  ASSUME Inv, Order, ReadBacklog
  PROVE  Order'
  <1>1. Unloaded' /\ Unqueued' /\ Yields' /\ QueueRuns'
    BY PageRead DEF Order, Unloaded, Unqueued, Yields, QueueRuns
  <1>2. PageRuns'
    <2>1. CASE page' = page
      BY <2>1, PageRead DEF Order, PageRuns
    <2>2. CASE page' # page
      <3>1. Larger(cJ.delivered, yielded) \in Nat /\ yielded <= Larger(cJ.delivered, yielded)
        BY Numbers DEF Larger
      <3>2. /\ \E k \in 0 .. target : Run(page', k)
            /\ page' # << >> /\ Head(page') = Larger(cJ.delivered, yielded) + 1
            /\ UNCHANGED <<cJ, target, yielded>>
        BY <2>2, PageRead
      <3>3. yielded \in Nat
        BY Numbers
      <3>4. yielded < Head(page') /\ Head(page') <= Larger(cJ.delivered, yielded) + 1
        BY <3>1, <3>2, <3>3
      <3> QED BY <3>2, <3>4 DEF PageRuns, Larger
    <2> QED BY <2>1, <2>2
  <1> QED BY <1>1, <1>2 DEF Order

\* The next event of the backlog.
LEMMA PulledBacklog ==
  ASSUME Inv, Order, PullBacklog
  PROVE  /\ loaded /\ yielded < target /\ router.last = yielded
         /\ Head(page) \in yielded + 1 .. target
         /\ Head(page) <= Larger(cJ.delivered, yielded) + 1
         /\ router'.last = Head(page)
         /\ UNCHANGED <<cJ, loaded, state, handling, cursor, target, queue, old, retires>>
  <1>1. page # << >>
    BY DEF PullBacklog
  <1>2. PICK k \in 0 .. target : Run(page, k)
    BY DEF Order, PageRuns
  <1>3. /\ Head(page) \in Nat /\ Len(page) \in Nat \ {0} /\ Head(page) + Len(page) = k + 1
        /\ k \in Nat /\ k <= target
    BY <1>1, <1>2, Numbers, Streams, RunTail
  <1>4. Head(page) <= target
    <2> DEFINE h == Head(page)
               n == Len(page)
    <2>1. h \in Nat /\ n \in Nat /\ n >= 1 /\ h + n = k + 1 /\ target \in Nat
      BY <1>3, Numbers
    <2> HIDE DEF h, n
    <2>2. h <= k
      BY <1>3, <2>1
    <2> QED BY <1>3, <2>1, <2>2 DEF h
  <1>5. yielded < Head(page) /\ Head(page) <= Larger(cJ.delivered, yielded) + 1
    BY <1>1 DEF Order, PageRuns
  <1>6. yielded < target /\ Head(page) \in yielded + 1 .. target
    <2>1. yielded \in Nat /\ target \in Nat /\ Head(page) \in Nat
      BY <1>3, Numbers
    <2> QED BY <1>4, <1>5, <2>1
  <1>7. loaded /\ router.last = yielded
    BY <1>1, <1>6 DEF Order, Unloaded, Yields
  <1>8. router'.last = Head(page)
    BY DEF PullBacklog, Dispatch, Inv, RouterOK, RoutersUpTo
  <1> QED
    BY <1>5, <1>6, <1>7, <1>8 DEF PullBacklog, journals, clientVars, bounds

LEMMA OrderPullBacklog ==
  ASSUME Inv, Order, PullBacklog
  PROVE  Order'
  <1>1. yielded' = Head(page) /\ page' = Tail(page) /\ page # << >>
    BY DEF PullBacklog
  <1>2. Unloaded' /\ Unqueued'
    BY PulledBacklog DEF Order, Unloaded, Unqueued
  <1>3. Yields'
    BY <1>1, PulledBacklog, Numbers DEF Yields
  <1>4. PageRuns'
    <2>1. PICK k \in 0 .. target : Run(page, k)
      BY DEF Order, PageRuns
    <2>2. k \in Nat
      BY <2>1, Numbers
    <2>3. /\ Run(Tail(page), k) /\ Head(page) \in Nat
          /\ Tail(page) # << >> => Head(Tail(page)) = Head(page) + 1
      BY <1>1, <2>1, <2>2, Streams, RunTail
    <2>4. Head(page) <= Larger(cJ.delivered, Head(page))
      BY <2>3, Numbers DEF Larger
    <2>5. Larger(cJ.delivered, Head(page)) \in Nat
      BY <2>3, Numbers DEF Larger
    <2>6. Tail(page) # << >> => /\ Head(page) < Head(Tail(page))
                                /\ Head(Tail(page)) <= Larger(cJ.delivered, Head(page)) + 1
      BY <2>3, <2>4, <2>5
    <2> QED BY <1>1, <2>1, <2>3, <2>6, PulledBacklog DEF PageRuns
  <1>5. QueueRuns'
    <2>1. Larger(target, router.last) = target /\ Larger(target, router'.last) = target
      BY PulledBacklog, Numbers DEF Larger
    <2>2. target # 0
      BY PulledBacklog, Numbers
    <2> QED BY <2>1, <2>2, PulledBacklog DEF Order, QueueRuns
  <1> QED BY <1>2, <1>3, <1>4, <1>5 DEF Order

\* The next live event.
LEMMA PulledLive ==
  ASSUME Inv, Order, PullLive
  PROVE  /\ loaded /\ yielded = target /\ target <= router.last /\ page = << >>
         /\ target # 0 \/ router.last # 0 => Head(queue) = router.last + 1
         /\ Head(queue) \in Nat /\ target < Head(queue)
         /\ Head(queue) + Len(queue) = cursor + 1
         /\ Len(queue) \in Nat \ {0} /\ Len(queue') = Len(queue) - 1 /\ Run(queue', cursor)
         /\ router'.last = Head(queue)
         /\ UNCHANGED <<cJ, loaded, state, handling, cursor, target, yielded, page, old, retires>>
  <1>1. queue # << >> /\ queue' = Tail(queue) /\ loaded /\ page = << >> /\ yielded >= target
    BY DEF PullLive
  <1>2. yielded = target /\ target <= router.last
    BY <1>1, Numbers DEF Order, Yields
  <1>3. /\ Head(queue) \in Nat /\ Len(queue) \in Nat \ {0} /\ Len(queue') = Len(queue) - 1
        /\ Run(queue', cursor) /\ Head(queue) + Len(queue) = cursor + 1
    BY <1>1, Numbers, Streams, RunTail DEF Order, QueueRuns
  <1>4. target # 0 \/ router.last # 0 => Head(queue) = router.last + 1
    <2>1. Larger(target, router.last) = router.last
      BY <1>2, Numbers DEF Larger
    <2>2. target # 0 \/ router.last # 0 => cursor = router.last + Len(queue)
      BY <1>1, <2>1 DEF Order, QueueRuns
    <2> DEFINE n == Len(queue)
               h == Head(queue)
    <2>3. n \in Nat /\ h \in Nat /\ h + n = cursor + 1 /\ cursor \in Nat /\ router.last \in Nat
      BY <1>3, Numbers
    <2>4. target # 0 \/ router.last # 0 => cursor = router.last + n
      BY <2>2
    <2> HIDE DEF n, h
    <2>5. target # 0 \/ router.last # 0 => h = router.last + 1
      BY <2>3, <2>4
    <2> QED BY <2>5 DEF h
  <1>5. router'.last = Head(queue)
    BY DEF PullLive, Dispatch, Inv, RouterOK, RoutersUpTo
  <1>6. target < Head(queue)
    <2>1. CASE target # 0 \/ router.last # 0
      BY <1>2, <1>4, <2>1, Numbers
    <2>2. CASE target = 0
      <3>1. Head(queue) \in 1 .. cJ.last
        BY <1>1, HeadTailProperties DEF Inv, QueueOK
      <3> QED BY <2>2, <3>1, Numbers
    <2> QED BY <2>1, <2>2
  <1> QED
    BY <1>1, <1>2, <1>3, <1>4, <1>5, <1>6 DEF PullLive, journals, clientVars, bounds

LEMMA OrderPullLive ==
  ASSUME Inv, Order, PullLive
  PROVE  Order'
  <1>1. Unloaded' /\ Unqueued'
    BY PulledLive DEF Order, Unloaded, Unqueued
  <1>2. Yields'
    <2>1. yielded' = target' /\ target' \in Nat /\ router'.last \in Nat /\ target' < router'.last
      BY PulledLive, Numbers
    <2> QED BY <2>1 DEF Yields
  <1>3. PageRuns'
    BY PulledLive DEF Order, PageRuns
  <1>4. QueueRuns'
    <2>1. Larger(target, router'.last) = Head(queue)
      BY PulledLive, Numbers DEF Larger
    <2>2. cursor = Head(queue) + Len(queue')
      <3> DEFINE h == Head(queue)
                 m == Len(queue)
      <3>1. /\ h \in Nat /\ m \in Nat /\ h + m = cursor + 1 /\ Len(queue') = m - 1
            /\ cursor \in Nat
        BY PulledLive, Numbers
      <3> HIDE DEF h, m
      <3>2. cursor = h + (m - 1)
        BY <3>1
      <3> QED BY <3>1, <3>2 DEF h
    <2> QED BY <2>1, <2>2, PulledLive DEF QueueRuns
  <1> QED BY <1>1, <1>2, <1>3, <1>4 DEF Order

LEMMA OrderRenew ==
  ASSUME Inv, Renew
  PROVE  Order'
  <1>1. Unloaded' /\ Unqueued'
    BY DEF Renew, journals, Unloaded, Unqueued, NoFrame
  <1>2. Yields' /\ QueueRuns'
    BY RunEmpty DEF Renew, Yields, QueueRuns, NewRouter
  <1>3. PageRuns'
    BY RunEmpty DEF Renew, PageRuns
  <1> QED BY <1>1, <1>2, <1>3 DEF Order

\* Routing and acknowledging change the router, but not what it was given.
LEMMA OrderRouted ==
  ASSUME Inv, Order, loaded, router'.last = router.last,
         UNCHANGED <<loaded, state, handling, cursor, target, yielded, page, queue>>,
         cJ'.last = cJ.last, cJ'.delivered \in Nat, cJ.delivered <= cJ'.delivered
  PROVE  Order'
  <1>1. Unloaded' /\ Unqueued'
    BY DEF Order, Unloaded, Unqueued
  <1>2. Yields' /\ QueueRuns'
    BY DEF Order, Yields, QueueRuns
  <1>3. PageRuns'
    <2>1. Larger(cJ.delivered, yielded) <= Larger(cJ'.delivered, yielded)
      BY Numbers DEF Larger
    <2>2. Larger(cJ.delivered, yielded) \in Nat /\ Larger(cJ'.delivered, yielded) \in Nat
      BY Numbers, LargerIs
    <2>3. page # << >> => Head(page) \in Nat
      BY Streams, HeadTailProperties
    <2>4. page # << >> => Head(page) <= Larger(cJ'.delivered, yielded) + 1
      BY <2>1, <2>2, <2>3 DEF Order, PageRuns
    <2> QED BY <2>4 DEF Order, PageRuns
  <1> QED BY <1>1, <1>2, <1>3 DEF Order

LEMMA LoadedToRoute ==
  ASSUME Order, router.running \cup router.settled # {}
  PROVE  loaded
  BY DEF Order, Unloaded, NewRouter

LEMMA OrderRoute ==
  ASSUME Inv, Order, NEW e, Route(e)
  PROVE  Order'
  <1>1. e \in router.running /\ router' = Settled(router, e) /\ cJ' = cJ
    BY DEF Route, journals
  <1>2. router'.last = router.last
    BY <1>1 DEF Settled, Inv, RouterOK, RoutersUpTo
  <1>3. loaded
    BY <1>1, LoadedToRoute
  <1> QED
    BY <1>1, <1>2, <1>3, Numbers, OrderRouted DEF Route, clientVars, streamVars

LEMMA OrderAcknowledge ==
  ASSUME Inv, Order, Acknowledge
  PROVE  Order'
  <1>1. MayAcknowledge(router) /\ MarkDelivered(router) /\ gJ' = gJ
        /\ router' = Flushed(router, AckAccepted(router)) /\ RouterOK(router)
    BY DEF Acknowledge, Inv
  <1>2. /\ cJ'.last = cJ.last
        /\ cJ'.delivered = cJ.delivered \/ cJ'.delivered = cJ.delivered + 1
    BY <1>1, Acknowledges
  <1>3. router'.last = router.last
    BY <1>1 DEF Flushed, RouterOK, RoutersUpTo
  <1>4. loaded
    BY <1>1, LoadedToRoute DEF MayAcknowledge
  <1>5. cJ'.delivered \in Nat /\ cJ.delivered <= cJ'.delivered
    BY <1>2, Numbers
  <1> QED
    BY <1>2, <1>3, <1>4, <1>5, OrderRouted DEF Acknowledge, clientVars, streamVars

LEMMA OrderAcknowledgeOld ==
  ASSUME Inv, Order, AcknowledgeOld
  PROVE  Order'
  <1>1. MayAcknowledge(old) /\ MarkDelivered(old) /\ gJ' = gJ /\ RouterOK(old)
    BY DEF AcknowledgeOld, Inv
  <1>2. /\ cJ'.last = cJ.last
        /\ cJ'.delivered = cJ.delivered \/ cJ'.delivered = cJ.delivered + 1
    BY <1>1, Acknowledges
  <1>3. cJ'.delivered \in Nat /\ cJ.delivered <= cJ'.delivered
    BY <1>2, Numbers
  <1> QED
    BY <1>2, <1>3, OrderStays DEF AcknowledgeOld, clientVars, streamVars

\* The steps that have nothing to do with the router's stream.
Elsewhere ==
    \/ Record \/ Gateway \/ OnOpen \/ OnClose \/ ReceiveReady \/ Drop
    \/ (\E c \in Conns : Open(c)) \/ UNCHANGED vars

LEMMA ElsewhereIsElsewhere ==
  ASSUME Inv, Elsewhere
  PROVE  /\ UNCHANGED <<cJ, loaded, cursor, target, yielded, page, queue, router, old, retires>>
         /\ state' \in {state, "connecting"}
         /\ handling' = handling \/ handling'.type # "event"
  <1>1. CASE Record \/ UNCHANGED vars
    BY <1>1 DEF Record, vars, journals, clientVars, streamVars, routerVars, bounds
  <1>2. CASE Gateway
    BY <1>2 DEF Gateway, SendLive, Reconcile, ReadReplay, SendReplay, TakeAck, Detach, Attach,
       TakeFrame, journals, clientVars, streamVars, routerVars, bounds
  <1>3. CASE OnOpen \/ OnClose \/ ReceiveReady \/ Drop \/ \E c \in Conns : Open(c)
    BY <1>3 DEF OnOpen, OnClose, ReceiveReady, Drop, Open, journals, streamVars, routerVars, bounds
  <1> QED BY <1>1, <1>2, <1>3 DEF Elsewhere

\* The cases of a step, as far as the stream is concerned.
LEMMA Cases ==
  ASSUME [Next]_vars
  PROVE  \/ Elsewhere \/ Connected \/ ReceiveEvent \/ Appended
         \/ ReadBacklog \/ PullBacklog \/ PullLive
         \/ (\E e : Route(e)) \/ Acknowledge \/ (\E e : RouteOld(e)) \/ AcknowledgeOld
         \/ Retire \/ Crash
  BY DEF Next, Transport, Router, Elsewhere

LEMMA OrderNext ==
  ASSUME Inv, Order, [Next]_vars
  PROVE  Order'
  <1>1. CASE Elsewhere
    BY <1>1, ElsewhereIsElsewhere, Numbers, OrderStays
  <1>2. CASE Connected \/ ReceiveEvent \/ Appended
    BY <1>2, OrderConnected, OrderReceiveEvent, OrderAppended
  <1>3. CASE ReadBacklog \/ PullBacklog \/ PullLive
    BY <1>3, OrderReadBacklog, OrderPullBacklog, OrderPullLive
  <1>4. CASE (\E e : Route(e)) \/ Acknowledge \/ AcknowledgeOld
    BY <1>4, OrderRoute, OrderAcknowledge, OrderAcknowledgeOld
  <1>5. CASE \E e : RouteOld(e)
    BY <1>5, Numbers, OrderStays DEF RouteOld, journals, clientVars, streamVars
  <1>6. CASE Retire \/ Crash
    BY <1>6, OrderRenew DEF Retire, Crash
  <1> QED BY <1>1, <1>2, <1>3, <1>4, <1>5, <1>6, Cases
----------------------------------------------------------------------------
(* Alone: until a worker is replaced.                                      *)

LEMMA AloneConnected ==
  ASSUME Inv, Order, Alone, Connected
  PROVE  Alone'
  <1> SUFFICES ASSUME retires' = 0 PROVE OnlyRouter' /\ OnlyStream'
    BY DEF Alone
  <1>1. UNCHANGED <<cJ, router, old, cursor, page, queue, retires>> /\ loaded'
    BY DEF Connected, journals, streamVars, routerVars, bounds
  <1>2. OnlyRouter /\ OnlyStream
    BY <1>1 DEF Alone
  <1>3. OnlyRouter'
    BY <1>1, <1>2 DEF OnlyRouter
  <1>4. CASE loaded
    BY <1>1, <1>2, <1>3, <1>4 DEF Connected, OnlyStream, Given
  <1>5. CASE ~loaded
    <2>1. page = << >> /\ Len(queue) = 0 /\ cursor = cJ.last
      BY <1>5 DEF Order, Unloaded
    <2>2. target' = IF cJ.delivered < cursor THEN cursor ELSE 0
      BY <1>5 DEF Connected
    <2>3. target' = 0 => cursor' = cJ'.delivered + 0
      BY <1>1, <2>1, <2>2, Numbers
    <2>4. target' # 0 => cJ'.delivered < target'
      BY <1>1, <2>2
    <2>5. page' = << >> /\ Len(queue') = 0
      BY <1>1, <2>1
    <2>6. OnlyStream'
      BY <2>3, <2>4, <2>5 DEF OnlyStream
    <2> QED BY <1>3, <2>6
  <1> QED BY <1>4, <1>5

LEMMA AloneReceiveEvent ==
  ASSUME Inv, Order, Alone, ReceiveEvent
  PROVE  Alone'
  <1>1. UNCHANGED <<loaded, cursor, target, page, queue, router, old, retires>>
    BY DEF ReceiveEvent, streamVars, routerVars, bounds
  <1>2. cJ'.delivered = cJ.delivered
    BY DEF ReceiveEvent, Append1, Inv, JournalsOK, Journals
  <1> QED BY <1>1, <1>2 DEF Alone, OnlyRouter, OnlyStream, Given

LEMMA AloneAppended ==
  ASSUME Inv, Order, Alone, Appended
  PROVE  Alone'
  <1>1. UNCHANGED <<cJ, loaded, target, page, router, old, retires>>
    BY DEF Appended, journals, routerVars, bounds
  <1>2. handling.seq = cursor + 1
    BY DEF Appended, Order, Unqueued
  <1>3. cursor' = cursor + 1 /\ queue' = Append(queue, cursor + 1)
    BY <1>2 DEF Appended
  <1>4. Len(queue') = Len(queue) + 1
    BY <1>3, Numbers, Streams, RunAppend DEF Order, QueueRuns
  <1>5. cursor = cJ.delivered + Len(queue) => cursor' = cJ'.delivered + Len(queue')
    <2> DEFINE d == cJ.delivered
               m == Len(queue)
    <2>1. d \in Nat /\ m \in Nat /\ cJ'.delivered = d /\ Len(queue') = m + 1
      BY <1>1, <1>4, Numbers, Streams
    <2> HIDE DEF d, m
    <2>2. cursor = d + m => cursor + 1 = d + (m + 1)
      BY <2>1
    <2> QED BY <1>3, <2>1, <2>2 DEF d, m
  <1> QED BY <1>1, <1>5 DEF Alone, OnlyRouter, OnlyStream, Given

LEMMA BacklogReaches ==
  ASSUME Inv, Order, Alone, ReadBacklog, retires = 0
  PROVE  /\ router' = router /\ page' # << >> /\ Head(page') = Given + 1
  <1>1. OnlyRouter /\ OnlyStream
    BY DEF Alone
  <1>2. yielded < target /\ router.last = yielded
    BY PageRead DEF Order, Yields
  <1>3. Larger(cJ.delivered, yielded) = Given /\ Given < target
    <2>1. CASE router.last = 0
      BY <1>1, <1>2, <2>1, Numbers DEF Larger, Given, OnlyStream
    <2>2. CASE router.last # 0
      BY <1>1, <1>2, <2>2, Numbers DEF Larger, Given, OnlyRouter
    <2> QED BY <2>1, <2>2
  <1> QED BY <1>3, PageRead

LEMMA AloneReadBacklog ==
  ASSUME Inv, Order, Alone, ReadBacklog
  PROVE  Alone'
  <1> SUFFICES ASSUME retires' = 0 PROVE OnlyRouter' /\ OnlyStream'
    BY DEF Alone
  <1>1. retires = 0 /\ UNCHANGED <<cJ, loaded, cursor, target, queue, old>>
    BY PageRead
  <1> QED BY <1>1, BacklogReaches DEF Alone, OnlyRouter, OnlyStream, Given

\* The only router is given the next event.
LEMMA AloneDispatch ==
  ASSUME Inv, OnlyRouter, Dispatch(Given + 1), UNCHANGED <<cJ, old>>
  PROVE  OnlyRouter' /\ router'.last = Given + 1
  <1> DEFINE e == Given + 1
  <1>1. router' = [router EXCEPT !.next = IF @ = 0 THEN e ELSE @,
                                 !.running = @ \cup {e}, !.last = e]
    BY DEF Dispatch
  <1>2. /\ Given \in Nat /\ e \in Nat \ {0} /\ cJ.delivered <= e
        /\ router.last # 0 => e = router.last + 1
        /\ router.last = 0 => e = cJ.delivered + 1
    BY Numbers DEF Given, OnlyRouter
  <1> HIDE DEF e
  <1>3. router \in RoutersUpTo(cJ.last)
    BY DEF Inv, RouterOK
  <1>4. /\ router'.next = IF router.next = 0 THEN e ELSE router.next
        /\ router'.running = router.running \cup {e} /\ router'.settled = router.settled
        /\ router'.last = e /\ router'.broken = router.broken /\ router'.failed = router.failed
    BY <1>1, <1>3 DEF RoutersUpTo
  <1>5. CASE router.next = 0
    <2>1. router.last = 0 /\ router.running = {} /\ router.settled = {}
      BY <1>5 DEF OnlyRouter
    <2>2. router'.next = e /\ router'.running = {e} /\ router'.settled = {} /\ e \in e .. e
      BY <1>2, <1>4, <1>5, <2>1
    <2> QED BY <1>2, <1>4, <2>1, <2>2 DEF OnlyRouter, e
  <1>6. CASE router.next # 0
    <2>1. /\ router.next = cJ.delivered + 1 /\ router.last # 0 /\ cJ.delivered <= router.last
          /\ router.running \cup router.settled \subseteq router.next .. router.last
          /\ router.running \cap router.settled = {}
      BY <1>6 DEF OnlyRouter
    <2>2. /\ router.next .. router.last \subseteq router.next .. e
          /\ e \in router.next .. e /\ e \notin router.next .. router.last
      BY <1>2, <2>1, Numbers
    <2>3. /\ router'.running \cup router'.settled \subseteq router'.next .. router'.last
          /\ router'.running \cap router'.settled = {}
      BY <1>4, <1>6, <2>1, <2>2
    <2> QED BY <1>2, <1>4, <1>6, <2>1, <2>3 DEF OnlyRouter, e
  <1> QED BY <1>5, <1>6

LEMMA AlonePullBacklog ==
  ASSUME Inv, Order, Alone, PullBacklog
  PROVE  Alone'
  <1> SUFFICES ASSUME retires' = 0 PROVE OnlyRouter' /\ OnlyStream'
    BY DEF Alone
  <1>1. retires = 0 /\ UNCHANGED <<cJ, old>> /\ page # << >> /\ page' = Tail(page)
        /\ Dispatch(Head(page))
    BY PulledBacklog DEF PullBacklog
  <1>2. OnlyRouter /\ Head(page) = Given + 1
    BY <1>1 DEF Alone, OnlyStream
  <1>3. OnlyRouter' /\ router'.last = Given + 1
    BY <1>1, <1>2, AloneDispatch
  <1>4. Given \in Nat /\ Given + 1 # 0
    BY Numbers DEF Given
  <1>5. page' # << >> => Head(page') = Head(page) + 1
    <2>1. PICK k \in 0 .. target : Run(page, k)
      BY DEF Order, PageRuns
    <2>2. k \in Nat
      BY <2>1, Numbers
    <2> QED BY <1>1, <2>1, <2>2, Streams, RunTail
  <1>6. OnlyStream'
    BY <1>2, <1>3, <1>4, <1>5 DEF OnlyStream, Given
  <1> QED BY <1>3, <1>6

LEMMA LiveIsNext ==
  ASSUME Inv, Order, Alone, PullLive, retires = 0
  PROVE  Head(queue) = Given + 1
  <1>1. CASE target # 0 \/ router.last # 0
    BY <1>1, PulledLive, Numbers DEF Given
  <1>2. CASE target = 0 /\ router.last = 0
    <2> DEFINE h == Head(queue)
               m == Len(queue)
    <2>1. h \in Nat /\ m \in Nat /\ h + m = cursor + 1 /\ cursor = cJ.delivered + m
      BY <1>2, PulledLive DEF Alone, OnlyStream
    <2> HIDE DEF h, m
    <2>2. h = cJ.delivered + 1
      BY <2>1, Numbers
    <2> QED BY <1>2, <2>2 DEF Given, h
  <1> QED BY <1>1, <1>2

LEMMA AlonePullLive ==
  ASSUME Inv, Order, Alone, PullLive
  PROVE  Alone'
  <1> SUFFICES ASSUME retires' = 0 PROVE OnlyRouter' /\ OnlyStream'
    BY DEF Alone
  <1>1. retires = 0 /\ UNCHANGED <<cJ, old>> /\ page' = << >> /\ Dispatch(Head(queue))
    BY PulledLive DEF PullLive
  <1>2. OnlyRouter /\ Head(queue) = Given + 1
    BY <1>1, LiveIsNext DEF Alone
  <1>3. OnlyRouter' /\ router'.last = Given + 1
    BY <1>1, <1>2, AloneDispatch
  <1>4. Given \in Nat /\ Given + 1 # 0
    BY Numbers DEF Given
  <1>5. OnlyStream'
    BY <1>1, <1>3, <1>4 DEF OnlyStream
  <1> QED BY <1>3, <1>5

LEMMA AloneRoute ==
  ASSUME Inv, Order, Alone, NEW e, Route(e)
  PROVE  Alone'
  <1>1. UNCHANGED <<cJ, loaded, cursor, target, page, queue, old, retires>>
        /\ e \in router.running /\ router' = Settled(router, e)
    BY DEF Route, journals, clientVars, streamVars, bounds
  <1>2. router \in RoutersUpTo(cJ.last)
    BY DEF Inv, RouterOK
  <1>3. /\ router'.next = router.next /\ router'.last = router.last
        /\ router'.running = router.running \ {e} /\ router'.settled = router.settled \cup {e}
        /\ router'.broken = router.broken /\ router'.failed = router.failed
    BY <1>1, <1>2 DEF Settled, RoutersUpTo
  <1>4. OnlyRouter => OnlyRouter'
    <2> SUFFICES ASSUME OnlyRouter PROVE OnlyRouter'
      OBVIOUS
    <2>1. router.next # 0
      BY <1>1 DEF OnlyRouter
    <2>2. /\ router'.running \cup router'.settled = router.running \cup router.settled
          /\ router'.running \cap router'.settled = {}
      BY <1>1, <1>3 DEF OnlyRouter
    <2> QED BY <1>1, <1>3, <2>1, <2>2 DEF OnlyRouter
  <1>5. OnlyStream => OnlyStream'
    BY <1>1, <1>3 DEF OnlyStream, Given
  <1> QED BY <1>1, <1>4, <1>5 DEF Alone

\* The only router acknowledges the event after the delivery cursor.
LEMMA AcknowledgesNext ==
  ASSUME Inv, OnlyRouter, Acknowledge
  PROVE  /\ router.next # 0 /\ router.next \in router.settled
         /\ cJ'.delivered = router.next
         /\ router' = [router EXCEPT !.next = @ + 1, !.settled = @ \ {router.next}]
  <1>1. router.next \in router.settled /\ MarkDelivered(router)
        /\ router' = Flushed(router, AckAccepted(router))
    BY DEF Acknowledge, MayAcknowledge
  <1>2. router.next # 0 /\ router.next = cJ.delivered + 1
    BY <1>1 DEF OnlyRouter
  <1>3. router.next \in 1 .. cJ.last
    BY <1>1 DEF Inv, RouterOK, RoutersUpTo
  <1>4. NextDelivered(cJ, router.next) /\ ~Redelivered(cJ, router.next)
    BY <1>2, <1>3, Numbers DEF NextDelivered, Redelivered
  <1>5. cJ' \in Delivered(cJ, router.next)
    BY <1>1, <1>4 DEF MarkDelivered
  <1>6. cJ'.delivered = router.next
    BY <1>5 DEF Delivered, Inv, JournalsOK, Journals
  <1>7. router' = [router EXCEPT !.next = @ + 1, !.settled = @ \ {router.next}]
    BY <1>1, <1>4 DEF AckAccepted, Flushed
  <1> QED BY <1>1, <1>2, <1>6, <1>7

LEMMA AloneAcknowledge ==
  ASSUME Inv, Order, Alone, Acknowledge
  PROVE  Alone'
  <1> SUFFICES ASSUME retires' = 0 PROVE OnlyRouter' /\ OnlyStream'
    BY DEF Alone
  <1>1. UNCHANGED <<loaded, cursor, target, page, queue, old, retires>>
    BY DEF Acknowledge, clientVars, streamVars, bounds
  <1>2. OnlyRouter /\ OnlyStream
    BY <1>1 DEF Alone
  <1>3. /\ router.next # 0 /\ router.next \in router.settled /\ cJ'.delivered = router.next
        /\ router' = [router EXCEPT !.next = @ + 1, !.settled = @ \ {router.next}]
    BY <1>2, AcknowledgesNext
  <1>4. router \in RoutersUpTo(cJ.last)
    BY DEF Inv, RouterOK
  <1>5. /\ router'.next = router.next + 1 /\ router'.last = router.last
        /\ router'.running = router.running /\ router'.settled = router.settled \ {router.next}
        /\ router'.broken = router.broken /\ router'.failed = router.failed
    BY <1>3, <1>4 DEF RoutersUpTo
  <1>6. router.next \in router.next .. router.last /\ router.last # 0
        /\ router.next \notin router.running
    BY <1>2, <1>3 DEF OnlyRouter
  <1>7. router'.running \cup router'.settled \subseteq router'.next .. router'.last
    <2>1. (router.next .. router.last) \ {router.next} \subseteq router.next + 1 .. router.last
      BY Numbers
    <2>2. router'.running \cup router'.settled
            \subseteq (router.next .. router.last) \ {router.next}
      BY <1>2, <1>5, <1>6 DEF OnlyRouter
    <2> QED BY <1>5, <2>1, <2>2
  <1>8. router'.next # 0 /\ cJ'.delivered <= router'.last
    BY <1>3, <1>5, <1>6, Numbers
  <1>9. OnlyRouter'
    BY <1>1, <1>2, <1>3, <1>5, <1>6, <1>7, <1>8 DEF OnlyRouter
  <1>10. OnlyStream'
    BY <1>1, <1>2, <1>5, <1>6 DEF OnlyStream, Given
  <1> QED BY <1>9, <1>10

\* Before a worker is replaced there is no replaced router.
LEMMA AloneOld ==
  ASSUME Inv, Alone, AcknowledgeOld \/ \E e : RouteOld(e)
  PROVE  Alone'
  <1>1. retires' = retires
    BY DEF AcknowledgeOld, RouteOld, bounds
  <1>2. old.running # {} \/ old.settled # {}
    BY DEF AcknowledgeOld, RouteOld, MayAcknowledge
  <1> QED BY <1>1, <1>2 DEF Alone, OnlyRouter, NewRouter

LEMMA AloneRenew ==
  ASSUME Inv, Alone, Retire \/ Crash
  PROVE  Alone'
  <1>1. CASE Crash
    <2>1. OnlyRouter'
      BY <1>1 DEF Crash, Renew, OnlyRouter, NewRouter
    <2>2. OnlyStream'
      BY <1>1 DEF Crash, Renew, OnlyStream
    <2> QED BY <2>1, <2>2 DEF Alone
  <1>2. CASE Retire
    <2>1. CASE retires = 0
      <3>1. ~router.failed
        BY <2>1 DEF Alone, OnlyRouter
      <3>2. retires' = 1
        BY <1>2, <2>1, <3>1 DEF Retire
      <3> QED BY <3>2 DEF Alone
    <2>2. CASE retires # 0
      BY <1>2, <2>2, Numbers DEF Retire, Alone
    <2> QED BY <2>1, <2>2
  <1> QED BY <1>1, <1>2

LEMMA AloneNext ==
  ASSUME Inv, Order, Alone, [Next]_vars
  PROVE  Alone'
  <1>1. CASE Elsewhere
    BY <1>1, ElsewhereIsElsewhere DEF Alone, OnlyRouter, OnlyStream, Given
  <1>2. CASE Connected \/ ReceiveEvent \/ Appended
    BY <1>2, AloneConnected, AloneReceiveEvent, AloneAppended
  <1>3. CASE ReadBacklog \/ PullBacklog \/ PullLive
    BY <1>3, AloneReadBacklog, AlonePullBacklog, AlonePullLive
  <1>4. CASE (\E e : Route(e)) \/ Acknowledge
    BY <1>4, AloneRoute, AloneAcknowledge
  <1>5. CASE AcknowledgeOld \/ \E e : RouteOld(e)
    BY <1>5, AloneOld
  <1>6. CASE Retire \/ Crash
    BY <1>6, AloneRenew
  <1> QED BY <1>1, <1>2, <1>3, <1>4, <1>5, <1>6, Cases
----------------------------------------------------------------------------
(* The order of what a router is given.                                    *)

Steps ==
    /\ router.last # 0 /\ router'.last \notin {0, router.last}
         => \/ router'.last = router.last + 1
            \/ retires > 0 /\ router'.last \in router.last + 1 .. cJ.delivered + 1
    /\ router'.failed => router.failed \/ retires > 0

LEMMA OInvSteps ==
  ASSUME OInv, [Next]_vars
  PROVE  Steps
  <1>1. Inv /\ Order /\ Alone /\ retires \in Nat /\ router \in RoutersUpTo(cJ.last)
    BY Numbers DEF OInv, Inv, RouterOK
  <1>2. CASE router' = router
    BY <1>2 DEF Steps
  <1>3. CASE ReadBacklog
    <2>1. router'.last = router.last
      BY <1>1, <1>3, PageRead
    <2>2. retires = 0 => router' = router
      BY <1>1, <1>3, BacklogReaches
    <2> QED BY <1>1, <2>1, <2>2 DEF Steps
  <1>4. CASE PullBacklog
    <2>1. router'.failed = router.failed
      BY <1>1, <1>4 DEF PullBacklog, Dispatch, RoutersUpTo
    <2>2. /\ router.last = yielded /\ router'.last = Head(page)
          /\ Head(page) \in yielded + 1 .. target
          /\ Head(page) <= Larger(cJ.delivered, yielded) + 1
      BY <1>1, <1>4, PulledBacklog
    <2>3. retires = 0 /\ router.last # 0 => Head(page) = router.last + 1
      BY <1>4 DEF OInv, Alone, OnlyStream, Given, PullBacklog
    <2>4. \/ Head(page) = router.last + 1
          \/ Head(page) \in router.last + 1 .. cJ.delivered + 1
      <3> DEFINE h == Head(page)
      <3>1. h \in Nat /\ yielded + 1 <= h /\ h <= Larger(cJ.delivered, yielded) + 1
        BY <1>1, <2>2, Numbers
      <3> HIDE DEF h
      <3>2. h = yielded + 1 \/ h \in yielded + 1 .. cJ.delivered + 1
        BY <1>1, <3>1, Numbers DEF Larger
      <3> QED BY <2>2, <3>2 DEF h
    <2> QED BY <1>1, <2>1, <2>2, <2>3, <2>4 DEF Steps
  <1>5. CASE PullLive
    <2>1. router'.failed = router.failed
      BY <1>1, <1>5 DEF PullLive, Dispatch, RoutersUpTo
    <2>2. router.last # 0 => router'.last = router.last + 1
      BY <1>1, <1>5, PulledLive
    <2> QED BY <2>1, <2>2 DEF Steps
  <1>6. CASE \E e : Route(e)
    BY <1>1, <1>6 DEF Route, Settled, RoutersUpTo, Steps
  <1>7. CASE Acknowledge
    <2>1. router'.last = router.last
      BY <1>1, <1>7 DEF Acknowledge, Flushed, RoutersUpTo
    <2>2. retires = 0 => router'.failed = router.failed
      <3> SUFFICES ASSUME retires = 0 PROVE router'.failed = router.failed
        OBVIOUS
      <3>1. router' = [router EXCEPT !.next = @ + 1, !.settled = @ \ {router.next}]
        BY <1>1, <1>7, AcknowledgesNext DEF Alone
      <3> QED BY <1>1, <3>1 DEF RoutersUpTo
    <2> QED BY <1>1, <2>1, <2>2 DEF Steps
  <1>8. CASE Retire \/ Crash
    BY <1>8 DEF Retire, Crash, Renew, NewRouter, Steps
  <1>9. Elsewhere \/ Connected \/ ReceiveEvent \/ Appended \/ AcknowledgeOld
          \/ (\E e : RouteOld(e)) => router' = router
    <2>1. Elsewhere => router' = router
      BY <1>1, ElsewhereIsElsewhere
    <2> QED
      BY <2>1 DEF Connected, ReceiveEvent, Appended, AcknowledgeOld, RouteOld, routerVars
  <1> QED BY <1>2, <1>3, <1>4, <1>5, <1>6, <1>7, <1>8, <1>9, Cases

LEMMA OInvInit == Init => OInv
  <1> SUFFICES ASSUME Init PROVE OInv
    OBVIOUS
  <1>1. cJ.last = 0 /\ cJ.delivered = 0
    BY DEF Init, EmptyJournal
  <1>2. Unloaded /\ Unqueued
    BY <1>1 DEF Init, Unloaded, Unqueued, NoFrame
  <1>3. Yields /\ QueueRuns
    BY RunEmpty DEF Init, Yields, QueueRuns, NewRouter
  <1>4. PageRuns
    BY RunEmpty DEF Init, PageRuns
  <1>5. OnlyRouter
    BY DEF Init, OnlyRouter, NewRouter
  <1>6. OnlyStream
    BY DEF Init, OnlyStream
  <1> QED BY <1>2, <1>3, <1>4, <1>5, <1>6, InitInv DEF OInv, Order, Alone

LEMMA OInvNext == ASSUME OInv, [Next]_vars PROVE OInv'
  BY NextInv, OrderNext, AloneNext DEF OInv

(* A router is given the events one by one in their order, across backlog, *)
(* live queue, reconnects and replays (websocket-app-server-transport.ts,  *)
(* events); it leaves out only what the handlers of a replaced router have *)
(* acknowledged in the meantime, and never fails before a replacement.     *)
THEOREM GivenInOrder == Spec => InOrder
  <1>1. Init => OInv
    BY OInvInit
  <1>2. OInv /\ [Next]_vars => OInv'
    BY OInvNext
  <1>3. OInv /\ [Next]_vars => [Steps]_vars
    BY OInvSteps
  <1> QED BY <1>1, <1>2, <1>3, PTL DEF Spec, InOrder, Steps
----------------------------------------------------------------------------
(***************************************************************************)
(* What the client says on its current socket continues what the gateway   *)
(* has heard.  A resume names the client's cursor; the acknowledgements    *)
(* that follow it on the same socket are the numbers from there on, in     *)
(* order and without a gap; and whatever older sockets still have to say   *)
(* is behind the resume, so that it moves the gateway's cursor nowhere the *)
(* current socket has not been.                                            *)
(***************************************************************************)

\* The gateway is about to reconcile the current socket's resume, or will be.
Looking == resume.conn = sock /\ resume.stage = "validated"
Asking == up[sock] # << >> /\ Head(up[sock]).type = "resume"

\* Where the acknowledgements of the current socket begin.
Base == IF Looking THEN resume.seq
        ELSE IF Asking THEN Head(up[sock]).seq ELSE gJ.delivered

Heard ==
    /\ gJ.delivered <= cursor
    /\ resume.stage = "validated" => resume.conn \in Conns /\ resume.seq <= cursor
    /\ \A i \in 1 .. Len(acks) : acks[i].seq <= cursor
    /\ \A c \in Conns : \A i \in 1 .. Len(up[c]) :
          up[c][i].type \in {"resume", "ack"} /\ up[c][i].seq <= cursor
Anchored == gJ.first = 1 \/ gJ.first <= gJ.delivered
Linked == link = "none" <=> sock = NoConn
Silent ==
    link = "connecting" =>
        /\ up[sock] = << >> /\ resume.conn # sock
        /\ \A i \in 1 .. Len(acks) : acks[i].conn # sock
OthersBehind ==
    link = "open" =>
        /\ gJ.delivered <= Base /\ Base <= cursor
        /\ resume.stage = "validated" => resume.seq <= Base
        /\ \A i \in 1 .. Len(acks) : acks[i].conn # sock => acks[i].seq <= Base
        /\ \A c \in Conns \ {sock} : \A i \in 1 .. Len(up[c]) : up[c][i].seq <= Base
ResumeFirst ==
    link = "open" =>
        /\ Looking => ~Asking
        /\ Looking \/ Asking => \A i \in 1 .. Len(acks) : acks[i].conn # sock
        /\ \A i \in 1 .. Len(up[sock]) : i > 1 => up[sock][i].type = "ack"
InTurn ==
    link = "open" =>
        /\ \A i \in 1 .. Len(up[sock]) :
             /\ Base <= up[sock][i].seq
             /\ \A j \in 1 .. Len(up[sock]) : i < j => up[sock][i].seq <= up[sock][j].seq
        /\ \A i \in 1 .. Len(acks) : acks[i].conn = sock =>
             /\ Base <= acks[i].seq
             /\ \A j \in 1 .. Len(acks) :
                   i < j /\ acks[j].conn = sock => acks[i].seq <= acks[j].seq
             /\ \A j \in 1 .. Len(up[sock]) : acks[i].seq <= up[sock][j].seq
NoGap ==
    link = "open" =>
        \A s \in Nat : Base < s /\ s <= cursor =>
           \/ \E i \in 1 .. Len(acks) : acks[i].conn = sock /\ acks[i].seq = s
           \/ \E i \in 1 .. Len(up[sock]) : up[sock][i].type = "ack" /\ up[sock][i].seq = s

Talk == /\ Heard /\ Anchored /\ Linked /\ Silent
        /\ OthersBehind /\ ResumeFirst /\ InTurn /\ NoGap

AnyFrame == [type : {"none", "resume", "ack", "ready", "event"}, seq : Nat]
AnyAck == [conn : Conns, seq : Nat]

Lines ==
    /\ {gJ.first, gJ.delivered, gJ.last, cJ.last, cursor} \subseteq Nat
    /\ acks \in Seq(AnyAck)
    /\ up \in [Conns -> Seq(AnyFrame)]
    /\ resume \in [conn : Conns \cup {NoConn}, seq : Nat, upto : Nat,
                   stage : {"none", "validated", "ready", "read"}]
    /\ sock \in Conns \cup {NoConn}
    /\ link \in {"none", "connecting", "open", "closing"}
    /\ gJ.first \in Nat \ {0}

LEMMA LinesKnown == ASSUME Inv PROVE Lines
<1>1. gJ \in Journals /\ cJ \in Journals /\ MaxSeq \in Nat
  BY BoundsAssumption DEF Inv, JournalsOK
<1>2. {gJ.first, gJ.delivered, gJ.last, cJ.last, cursor} \subseteq Nat /\ gJ.first \in Nat \ {0}
  BY <1>1 DEF Inv, CursorOK, Journals
<1>3. /\ AcksUpTo(cJ.last) \subseteq AnyAck
      /\ FramesUpTo(cJ.last)
           \subseteq AnyFrame
  BY <1>2 DEF AcksUpTo, FramesUpTo, AnyAck, AnyFrame
<1>4. acks \in Seq(AnyAck)
  BY <1>3, SeqMonotonic DEF Inv, AcksOK
<1>5. up \in [Conns -> Seq(AnyFrame)]
  <2>1. Seq(FramesUpTo(cJ.last))
          \subseteq Seq(AnyFrame)
    BY <1>3, SeqMonotonic
  <2>. QED BY <2>1 DEF Inv, UpOK
<1>6. resume \in [conn : Conns \cup {NoConn}, seq : Nat, upto : Nat,
                  stage : {"none", "validated", "ready", "read"}]
  BY <1>2 DEF Inv, ResumeOK
<1>. QED BY <1>2, <1>4, <1>5, <1>6 DEF Lines, Inv, SockOK, LinkOK

LEMMA Numbered ==
  ASSUME Lines
  PROVE  /\ Len(acks) \in Nat
         /\ \A i \in 1 .. Len(acks) : acks[i] \in AnyAck /\ acks[i].seq \in Nat
         /\ \A c \in Conns :
               /\ up[c] \in Seq(AnyFrame) /\ Len(up[c]) \in Nat
               /\ \A i \in 1 .. Len(up[c]) : up[c][i] \in AnyFrame /\ up[c][i].seq \in Nat
<1>1. acks \in Seq(AnyAck) /\ \A c \in Conns : up[c] \in Seq(AnyFrame)
  BY DEF Lines
<1>2. \A i \in 1 .. Len(acks) : acks[i] \in AnyAck
  BY <1>1, ElementOfSeq
<1>3. \A c \in Conns : \A i \in 1 .. Len(up[c]) : up[c][i] \in AnyFrame
  BY <1>1, ElementOfSeq
<1>. QED BY <1>1, <1>2, <1>3, LenProperties DEF AnyAck, AnyFrame

LEMMA Taken ==
  ASSUME NEW S, NEW s \in Seq(S), s # << >>
  PROVE  /\ Tail(s) \in Seq(S) /\ Len(s) \in Nat \ {0} /\ Len(Tail(s)) = Len(s) - 1
         /\ \A i \in 1 .. Len(Tail(s)) : Tail(s)[i] = s[i + 1]
         /\ Head(s) = s[1] /\ s[1] \in S
  BY HeadTailProperties

LEMMA Added ==
  ASSUME NEW S, NEW s \in Seq(S), NEW e \in S
  PROVE  /\ Append(s, e) \in Seq(S) /\ Len(s) \in Nat /\ Len(Append(s, e)) = Len(s) + 1
         /\ \A i \in 1 .. Len(s) : Append(s, e)[i] = s[i]
         /\ Append(s, e)[Len(s) + 1] = e
  BY AppendProperties

LEMMA BaseIsANumber == ASSUME Lines, sock \in Conns PROVE Base \in Nat
<1>1. Asking => Head(up[sock]) \in AnyFrame
  BY Numbered, Taken DEF Asking
<1>. QED BY <1>1 DEF Base, Lines, AnyFrame

\* Steps elsewhere may close the socket, or go on with a resume that was read.
LEMMA TalkStays ==
  ASSUME Lines, Talk, UNCHANGED <<acks, up, sock, cursor>>,
         gJ'.delivered = gJ.delivered, gJ'.first = gJ.first,
         link' = link \/ (link' = "closing" /\ sock # NoConn),
         \/ resume' = resume
         \/ /\ resume.stage # "validated" /\ resume'.stage # "validated"
            /\ resume'.conn \in {resume.conn, NoConn}
  PROVE  Talk'
<1>1. Heard' /\ Anchored' /\ Linked'
  BY DEF Talk, Heard, Anchored, Linked, Lines
<1>2. Silent'
  BY DEF Talk, Silent, Linked, Lines
<1>3. link' = "open" => link = "open" /\ Base' = Base /\ (Looking' <=> Looking)
                        /\ (Asking' <=> Asking)
  BY DEF Base, Looking, Asking
<1>4. OthersBehind' /\ ResumeFirst' /\ InTurn'
  BY <1>3 DEF Talk, OthersBehind, ResumeFirst, InTurn
<1>5. NoGap'
  BY <1>3 DEF Talk, NoGap
<1>. QED BY <1>1, <1>2, <1>4, <1>5 DEF Talk

\* A socket that is not open has nothing to keep in order.
LEMMA NotOpen ==
  ASSUME Heard', Anchored', Linked', Silent', link' # "open"
  PROVE  Talk'
  BY DEF Talk, OthersBehind, ResumeFirst, InTurn, NoGap

\* An acknowledgement on the open socket is the cursor, again or as it moves on.
LEMMA AckSent ==
  ASSUME Lines, Talk, link = "open", NEW seq \in Nat, seq \in {cursor, cursor + 1}, cursor' = seq,
         up' = [up EXCEPT ![sock] = Append(@, [type |-> "ack", seq |-> seq])],
         UNCHANGED <<acks, resume, sock, link>>,
         gJ'.delivered = gJ.delivered, gJ'.first = gJ.first
  PROVE  Talk'
<1>. DEFINE e == [type |-> "ack", seq |-> seq]
<1>1. sock \in Conns /\ up[sock] \in Seq(AnyFrame) /\ e \in AnyFrame
  BY DEF Talk, Linked, Lines, AnyFrame
<1>2. /\ up'[sock] = Append(up[sock], e) /\ \A c \in Conns \ {sock} : up'[c] = up[c]
      /\ Len(up[sock]) \in Nat /\ Len(up'[sock]) = Len(up[sock]) + 1
      /\ \A i \in 1 .. Len(up[sock]) : up'[sock][i] = up[sock][i]
      /\ up'[sock][Len(up[sock]) + 1] = e
  BY <1>1, Added DEF Lines
<1>3. Asking' <=> Asking
  <2>1. CASE up[sock] = << >>
    <3>1. up'[sock] = << e >>
      BY <1>2, <2>1
    <3>2. ~Asking'
      BY <3>1 DEF Asking
    <3>. QED BY <2>1, <3>2 DEF Asking
  <2>2. CASE up[sock] # << >>
    <3>1. Len(up[sock]) >= 1 /\ Head(up[sock]) = up[sock][1] /\ up'[sock] # << >>
      BY <1>1, <1>2, <2>2
    <3>2. Head(up'[sock]) = up'[sock][1] /\ up'[sock][1] = up[sock][1]
      BY <1>1, <1>2, <3>1
    <3>. QED BY <2>2, <3>1, <3>2 DEF Asking
  <2>. QED BY <2>1, <2>2
<1>4. Asking => Head(up'[sock]) = Head(up[sock])
  BY <1>1, <1>2 DEF Asking
<1>5. Base' = Base
  BY <1>3, <1>4 DEF Base, Looking
<1>6. cursor <= cursor' /\ cursor \in Nat /\ cursor' \in Nat /\ Base \in Nat /\ Base <= cursor
  BY <1>1, BaseIsANumber DEF Lines, Talk, OthersBehind
<1>7. \A i \in 1 .. Len(acks) : acks[i].seq \in Nat /\ acks[i].seq <= cursor
  BY Numbered DEF Talk, Heard
<1>8. \A c \in Conns : \A i \in 1 .. Len(up[c]) :
         up[c][i].seq \in Nat /\ up[c][i].seq <= cursor /\ up[c][i].type \in {"resume", "ack"}
  BY Numbered DEF Talk, Heard
<1>9. Heard'
  <2>1. gJ'.delivered <= cursor' /\ (resume'.stage = "validated" =>
            resume'.conn \in Conns /\ resume'.seq <= cursor')
    BY <1>6 DEF Lines, Talk, Heard
  <2>2. \A i \in 1 .. Len(acks) : acks[i].seq <= cursor'
    BY <1>6, <1>7
  <2>3. ASSUME NEW c \in Conns, NEW i \in 1 .. Len(up'[c])
        PROVE  up'[c][i].type \in {"resume", "ack"} /\ up'[c][i].seq <= cursor'
    BY <1>2, <1>6, <1>8
  <2>. QED BY <2>1, <2>2, <2>3 DEF Heard
<1>10. Anchored' /\ Linked' /\ Silent'
  BY DEF Talk, Anchored, Linked, Silent
<1>11. OthersBehind'
  BY <1>2, <1>5, <1>6 DEF Talk, OthersBehind
<1>12. ResumeFirst'
  BY <1>2, <1>3 DEF Talk, ResumeFirst, Looking
<1>13. InTurn'
  <2>1. ASSUME NEW i \in 1 .. Len(up'[sock])
        PROVE  /\ Base <= up'[sock][i].seq
               /\ \A j \in 1 .. Len(up'[sock]) : i < j => up'[sock][i].seq <= up'[sock][j].seq
    <3>1. \A k \in 1 .. Len(up'[sock]) :
             k \in 1 .. Len(up[sock]) \/ (k = Len(up[sock]) + 1 /\ up'[sock][k].seq = seq)
      BY <1>2
    <3>2. CASE i \in 1 .. Len(up[sock])
      <4>1. up[sock][i].seq <= cursor /\ up[sock][i].seq \in Nat
        BY <1>1, <1>8, <3>2
      <4>. QED BY <1>1, <1>2, <1>6, <3>1, <3>2, <4>1 DEF Talk, InTurn
    <3>3. CASE i = Len(up[sock]) + 1
      BY <1>2, <1>6, <3>3
    <3>. QED BY <3>1, <3>2, <3>3
  <2>2. ASSUME NEW i \in 1 .. Len(acks), acks[i].conn = sock, NEW j \in 1 .. Len(up'[sock])
        PROVE  acks[i].seq <= up'[sock][j].seq
    <3>1. CASE j \in 1 .. Len(up[sock])
      BY <1>2, <2>2, <3>1 DEF Talk, InTurn
    <3>2. CASE j = Len(up[sock]) + 1
      BY <1>2, <1>6, <1>7, <3>2
    <3>. QED BY <1>2, <3>1, <3>2
  <2>3. \A i \in 1 .. Len(acks) : acks[i].conn = sock =>
           /\ Base <= acks[i].seq
           /\ \A j \in 1 .. Len(acks) :
                 i < j /\ acks[j].conn = sock => acks[i].seq <= acks[j].seq
    BY DEF Talk, InTurn
  <2>4. Base' = Base /\ UNCHANGED <<acks, sock, link>>
    BY <1>5
  <2>. QED BY <2>1, <2>2, <2>3, <2>4 DEF InTurn
<1>14. NoGap'
  <2>1. ASSUME NEW s \in Nat, Base < s, s <= seq
        PROVE  \/ \E i \in 1 .. Len(acks) : acks[i].conn = sock /\ acks[i].seq = s
               \/ \E i \in 1 .. Len(up'[sock]) : up'[sock][i].type = "ack" /\ up'[sock][i].seq = s
    <3>1. CASE s = seq
      <4>1. Len(up[sock]) + 1 \in 1 .. Len(up'[sock]) /\ e.type = "ack" /\ e.seq = seq
        BY <1>2
      <4>. QED BY <1>2, <3>1, <4>1
    <3>2. CASE s # seq
      <4>1. s <= cursor
        BY <1>6, <2>1, <3>2
      <4>2. \/ \E i \in 1 .. Len(acks) : acks[i].conn = sock /\ acks[i].seq = s
            \/ \E i \in 1 .. Len(up[sock]) : up[sock][i].type = "ack" /\ up[sock][i].seq = s
        BY <2>1, <4>1 DEF Talk, NoGap
      <4>3. \A i \in 1 .. Len(up[sock]) : i \in 1 .. Len(up'[sock]) /\ up'[sock][i] = up[sock][i]
        BY <1>2
      <4>. QED BY <4>2, <4>3
    <3>. QED BY <3>1, <3>2
  <2>2. Base' = Base /\ UNCHANGED <<acks, sock, link>> /\ cursor' = seq
    BY <1>5
  <2>. QED BY <2>1, <2>2 DEF NoGap
<1>. QED BY <1>9, <1>10, <1>11, <1>12, <1>13, <1>14 DEF Talk

LEMMA AckEventTalk ==
  ASSUME Lines, Talk, NEW seq \in Nat, seq \in {cursor, cursor + 1}, cursor' = seq,
         AckEvent(seq), UNCHANGED <<acks, resume, sock>>,
         gJ'.delivered = gJ.delivered, gJ'.first = gJ.first
  PROVE  Talk'
<1>1. CASE link = "open"
  BY <1>1, AckSent DEF AckEvent, SendUp
<1>2. CASE link # "open"
  <2>1. up' = up /\ link' = IF sock = NoConn THEN link ELSE "closing"
    BY <1>2 DEF AckEvent, ProtocolFailure
  <2>2. cursor <= cursor' /\ cursor' \in Nat
    BY DEF Lines
  <2>3. Heard'
    <3>1. gJ'.delivered <= cursor' /\ (resume'.stage = "validated" =>
            resume'.conn \in Conns /\ resume'.seq <= cursor')
      BY <2>2 DEF Lines, Talk, Heard
    <3>2. \A i \in 1 .. Len(acks) : acks[i].seq <= cursor'
      BY <2>2, Numbered DEF Lines, Talk, Heard
    <3>3. \A c \in Conns : \A i \in 1 .. Len(up[c]) :
             up[c][i].type \in {"resume", "ack"} /\ up[c][i].seq <= cursor'
      BY <2>2, Numbered DEF Lines, Talk, Heard
    <3>. QED BY <2>1, <3>1, <3>2, <3>3 DEF Heard
  <2>. QED BY <1>2, <2>1, <2>3, NotOpen DEF Talk, Anchored, Linked, Silent
<1>. QED BY <1>1, <1>2

\* The gateway takes the first frame of a socket.
FrameTakenFrom(c) ==
    /\ up[c] # << >> /\ up' = [up EXCEPT ![c] = Tail(@)]
    /\ cursor' = cursor /\ sock' = sock
    /\ gJ'.delivered = gJ.delivered /\ gJ'.first = gJ.first
    /\ \/ UNCHANGED <<acks, resume>>
       \/ /\ acks' = Append(acks, [conn |-> c, seq |-> Head(up[c]).seq])
          /\ resume' = resume
       \/ /\ resume = NoResume /\ acks' = acks
          /\ resume' = [conn |-> c, stage |-> "validated", seq |-> Head(up[c]).seq, upto |-> 0]

LEMMA TakenFrame ==
  ASSUME Lines, Talk, NEW c \in Conns, FrameTakenFrom(c)
  PROVE  /\ \A i \in 1 .. Len(up'[c]) : i + 1 \in 1 .. Len(up[c]) /\ up'[c][i] = up[c][i + 1]
         /\ \A d \in Conns \ {c} : up'[d] = up[d]
         /\ 1 \in 1 .. Len(up[c]) /\ Head(up[c]) = up[c][1] /\ Head(up[c]).seq \in Nat
         /\ \A i \in 1 .. Len(up[c]) : i > 1 => i - 1 \in 1 .. Len(up'[c]) /\ up'[c][i - 1] = up[c][i]
         /\ up'[c] # << >> => Head(up'[c]) = up[c][2] /\ 2 \in 1 .. Len(up[c])
         /\ acks' # acks => \E k \in 1 .. Len(acks') : acks'[k] = [conn |-> c, seq |-> Head(up[c]).seq]
         /\ Len(acks) \in Nat /\ Len(acks') \in Nat
         /\ \A i \in 1 .. Len(acks) : i \in 1 .. Len(acks') /\ acks'[i] = acks[i]
         /\ \A i \in 1 .. Len(acks') :
               i \in 1 .. Len(acks) \/ acks'[i] = [conn |-> c, seq |-> Head(up[c]).seq]
         /\ Head(up[c]).seq <= cursor
         /\ Heard'
<1>. DEFINE f == Head(up[c])
<1>1. /\ \A i \in 1 .. Len(up'[c]) : i + 1 \in 1 .. Len(up[c]) /\ up'[c][i] = up[c][i + 1]
      /\ \A d \in Conns \ {c} : up'[d] = up[d]
      /\ 1 \in 1 .. Len(up[c]) /\ f = up[c][1] /\ f.seq \in Nat
  <2>1. up[c] \in Seq(AnyFrame) /\ up'[c] = Tail(up[c])
    BY DEF Lines, FrameTakenFrom
  <2>2. /\ Len(up[c]) \in Nat \ {0} /\ Len(Tail(up[c])) = Len(up[c]) - 1
        /\ \A i \in 1 .. Len(Tail(up[c])) : Tail(up[c])[i] = up[c][i + 1]
        /\ Head(up[c]) = up[c][1] /\ up[c][1] \in AnyFrame
    <3>1. \A s \in Seq(AnyFrame) : s # << >> =>
             /\ Len(s) \in Nat \ {0} /\ Len(Tail(s)) = Len(s) - 1
             /\ \A i \in 1 .. Len(Tail(s)) : Tail(s)[i] = s[i + 1]
             /\ Head(s) = s[1] /\ s[1] \in AnyFrame
      BY Taken
    <3>. QED BY <2>1, <3>1 DEF FrameTakenFrom
  <2>3. \A d \in Conns \ {c} : up'[d] = up[d]
    BY DEF Lines, FrameTakenFrom
  <2>4. f.seq \in Nat
    BY <2>2 DEF AnyFrame
  <2>5. \A i \in 1 .. Len(Tail(up[c])) : i + 1 \in 1 .. Len(up[c])
    BY <2>2
  <2>6. 1 \in 1 .. Len(up[c])
    BY <2>2
  <2>. HIDE DEF f
  <2>. QED BY <2>1, <2>2, <2>3, <2>4, <2>5, <2>6 DEF f
<1>2. /\ Len(acks) \in Nat /\ Len(acks') \in Nat
      /\ \A i \in 1 .. Len(acks) : i \in 1 .. Len(acks') /\ acks'[i] = acks[i]
      /\ \A i \in 1 .. Len(acks') :
            i \in 1 .. Len(acks) \/ acks'[i] = [conn |-> c, seq |-> f.seq]
  <2>1. CASE acks' = acks
    BY <2>1 DEF Lines
  <2>2. CASE acks' = Append(acks, [conn |-> c, seq |-> f.seq])
    <3>1. acks \in Seq(AnyAck) /\ [conn |-> c, seq |-> f.seq] \in AnyAck
      BY <1>1 DEF Lines, AnyAck
    <3>. QED BY <2>2, <3>1, Added
  <2>. QED BY <2>1, <2>2 DEF FrameTakenFrom
<1>3. f.seq <= cursor
  BY <1>1 DEF Talk, Heard
<1>4. Heard'
  <2>1. gJ'.delivered <= cursor' /\ (resume'.stage = "validated" =>
            resume'.conn \in Conns /\ resume'.seq <= cursor')
    BY <1>3 DEF Lines, Talk, Heard, FrameTakenFrom
  <2>2. \A i \in 1 .. Len(acks') : acks'[i].seq <= cursor'
    BY <1>2, <1>3 DEF Talk, Heard, FrameTakenFrom
  <2>3. \A d \in Conns : \A i \in 1 .. Len(up'[d]) :
           up'[d][i].type \in {"resume", "ack"} /\ up'[d][i].seq <= cursor'
    BY <1>1 DEF Talk, Heard, FrameTakenFrom
  <2>. QED BY <2>1, <2>2, <2>3 DEF Heard
<1>5. \A i \in 1 .. Len(up[c]) : i > 1 => i - 1 \in 1 .. Len(up'[c]) /\ up'[c][i - 1] = up[c][i]
  <2>1. up[c] \in Seq(AnyFrame) /\ up'[c] = Tail(up[c]) /\ up[c] # << >>
    BY DEF Lines, FrameTakenFrom
  <2>2. Len(up[c]) \in Nat /\ Len(up'[c]) = Len(up[c]) - 1
    BY <2>1, Taken
  <2>3. ASSUME NEW i \in 1 .. Len(up[c]), i > 1
        PROVE  i - 1 \in 1 .. Len(up'[c]) /\ i - 1 + 1 = i
    BY <2>2, <2>3
  <2>. QED BY <1>1, <2>3
<1>6. up'[c] # << >> => Head(up'[c]) = up[c][2] /\ 2 \in 1 .. Len(up[c])
  <2>1. SUFFICES ASSUME up'[c] # << >> PROVE Head(up'[c]) = up[c][2] /\ 2 \in 1 .. Len(up[c])
    OBVIOUS
  <2>2. up'[c] \in Seq(AnyFrame)
    BY Taken DEF Lines, FrameTakenFrom
  <2>3. Head(up'[c]) = up'[c][1] /\ 1 \in 1 .. Len(up'[c])
    BY <2>1, <2>2, Taken
  <2>. QED BY <1>1, <2>3
<1>7. acks' # acks => \E k \in 1 .. Len(acks') : acks'[k] = [conn |-> c, seq |-> f.seq]
  <2>1. SUFFICES ASSUME acks' # acks
                 PROVE  \E k \in 1 .. Len(acks') : acks'[k] = [conn |-> c, seq |-> f.seq]
    OBVIOUS
  <2>2. acks' = Append(acks, [conn |-> c, seq |-> f.seq])
    BY <2>1 DEF FrameTakenFrom
  <2>3. acks \in Seq(AnyAck) /\ [conn |-> c, seq |-> f.seq] \in AnyAck
    BY <1>1 DEF Lines, AnyAck
  <2>4. Len(acks) + 1 \in 1 .. Len(acks') /\ acks'[Len(acks) + 1] = [conn |-> c, seq |-> f.seq]
    BY <2>2, <2>3, Added
  <2>. QED BY <2>4
<1>. HIDE DEF f
<1>. QED BY <1>1, <1>2, <1>3, <1>4, <1>5, <1>6, <1>7 DEF f

\* A frame of another socket moves on.
LEMMA OtherFrame ==
  ASSUME Lines, Talk, NEW c \in Conns \ {sock}, FrameTakenFrom(c), link' = link
  PROVE  Talk'
<1>. DEFINE f == Head(up[c])
<1>1. /\ \A i \in 1 .. Len(up'[c]) : i + 1 \in 1 .. Len(up[c]) /\ up'[c][i] = up[c][i + 1]
      /\ \A d \in Conns \ {c} : up'[d] = up[d]
      /\ 1 \in 1 .. Len(up[c]) /\ f = up[c][1] /\ f.seq \in Nat
  BY TakenFrame
<1>2. /\ Len(acks) \in Nat /\ Len(acks') \in Nat
      /\ \A i \in 1 .. Len(acks) : i \in 1 .. Len(acks') /\ acks'[i] = acks[i]
      /\ \A i \in 1 .. Len(acks') :
            i \in 1 .. Len(acks) \/ acks'[i] = [conn |-> c, seq |-> f.seq]
  BY TakenFrame
<1>3. f.seq <= cursor /\ (link = "open" => f.seq <= Base)
  BY <1>1, TakenFrame DEF Talk, OthersBehind
<1>4. Heard'
  BY TakenFrame
<1>5. sock # NoConn => sock \in Conns \ {c} /\ up'[sock] = up[sock]
  BY <1>1 DEF Lines
<1>6. Anchored' /\ Linked'
  BY DEF Talk, Anchored, Linked, FrameTakenFrom
<1>7. Silent'
  BY <1>2, <1>5 DEF Talk, Silent, Linked, NoResume, FrameTakenFrom
<1>8. link = "open" => sock \in Conns \ {c} /\ up'[sock] = up[sock] /\ Base' = Base /\ sock' = sock
                       /\ (Looking' <=> Looking) /\ (Asking' <=> Asking)
  BY <1>5 DEF Talk, Linked, Base, Looking, Asking, NoResume, FrameTakenFrom
<1>9. ASSUME link = "open" PROVE OthersBehind'
  <2>1. gJ'.delivered <= Base' /\ Base' <= cursor'
    BY <1>8, <1>9 DEF Talk, OthersBehind, FrameTakenFrom
  <2>2. resume'.stage = "validated" => resume'.seq <= Base'
    BY <1>3, <1>8, <1>9 DEF Talk, OthersBehind, FrameTakenFrom
  <2>3. \A i \in 1 .. Len(acks') : acks'[i].conn # sock' => acks'[i].seq <= Base'
    BY <1>2, <1>3, <1>8, <1>9 DEF Talk, OthersBehind, FrameTakenFrom
  <2>4. \A d \in Conns \ {sock'} : \A i \in 1 .. Len(up'[d]) : up'[d][i].seq <= Base'
    BY <1>1, <1>8, <1>9 DEF Talk, OthersBehind, FrameTakenFrom
  <2>. QED BY <2>1, <2>2, <2>3, <2>4 DEF OthersBehind
<1>10. ResumeFirst'
  BY <1>2, <1>8 DEF Talk, ResumeFirst
<1>11. \A i \in 1 .. Len(acks') :
          acks'[i].conn = sock => i \in 1 .. Len(acks) /\ acks'[i] = acks[i]
  BY <1>2
<1>12. ASSUME link = "open" PROVE InTurn' /\ NoGap'
  <2>1. UNCHANGED <<sock, link, cursor>> /\ Base' = Base /\ up'[sock] = up[sock]
    BY <1>8, <1>12 DEF FrameTakenFrom
  <2>2. InTurn'
    <3>1. \A i \in 1 .. Len(up[sock]) :
             /\ Base <= up[sock][i].seq
             /\ \A k \in 1 .. Len(up[sock]) : i < k => up[sock][i].seq <= up[sock][k].seq
      BY <1>12 DEF Talk, InTurn
    <3>2. \A i \in 1 .. Len(acks') : acks'[i].conn = sock =>
             /\ Base <= acks'[i].seq
             /\ \A k \in 1 .. Len(acks') :
                   i < k /\ acks'[k].conn = sock => acks'[i].seq <= acks'[k].seq
             /\ \A k \in 1 .. Len(up[sock]) : acks'[i].seq <= up[sock][k].seq
      BY <1>12, <1>11 DEF Talk, InTurn
    <3>. QED BY <2>1, <3>1, <3>2 DEF InTurn
  <2>3. NoGap'
    <3>1. ASSUME NEW s \in Nat, Base < s, s <= cursor
          PROVE  \/ \E i \in 1 .. Len(acks') : acks'[i].conn = sock /\ acks'[i].seq = s
                 \/ \E i \in 1 .. Len(up[sock]) : up[sock][i].type = "ack" /\ up[sock][i].seq = s
      BY <1>2, <1>12, <3>1 DEF Talk, NoGap
    <3>. QED BY <2>1, <3>1 DEF NoGap
  <2>. QED BY <2>2, <2>3
<1>13. InTurn' /\ NoGap'
  <2>1. link' = link
    OBVIOUS
  <2>. QED BY <1>12, <2>1 DEF InTurn, NoGap
<1>14. OthersBehind'
  BY <1>9 DEF OthersBehind
<1>. QED BY <1>4, <1>6, <1>7, <1>10, <1>13, <1>14 DEF Talk

\* The next acknowledgement of the current socket changes lanes.
LEMMA OwnAck ==
  ASSUME Lines, Talk, link = "open", link' = link, sock \in Conns, FrameTakenFrom(sock),
         resume = NoResume, resume' = resume, Head(up[sock]).type = "ack",
         acks' = Append(acks, [conn |-> sock, seq |-> Head(up[sock]).seq])
  PROVE  Talk'
<1>. DEFINE f == Head(up[sock])
<1>1. /\ \A i \in 1 .. Len(up'[sock]) : i + 1 \in 1 .. Len(up[sock]) /\ up'[sock][i] = up[sock][i + 1]
      /\ \A d \in Conns \ {sock} : up'[d] = up[d]
      /\ 1 \in 1 .. Len(up[sock]) /\ f = up[sock][1] /\ f.seq \in Nat /\ f.seq <= cursor
      /\ \A i \in 1 .. Len(up[sock]) :
            i > 1 => i - 1 \in 1 .. Len(up'[sock]) /\ up'[sock][i - 1] = up[sock][i]
      /\ up'[sock] # << >> => Head(up'[sock]) = up[sock][2] /\ 2 \in 1 .. Len(up[sock])
  BY TakenFrame
<1>2. /\ Len(acks) \in Nat /\ Len(acks') \in Nat
      /\ \A i \in 1 .. Len(acks) : i \in 1 .. Len(acks') /\ acks'[i] = acks[i]
      /\ \A i \in 1 .. Len(acks') :
            i \in 1 .. Len(acks) \/ acks'[i] = [conn |-> sock, seq |-> f.seq]
  BY TakenFrame
<1>3. \E k \in 1 .. Len(acks') : acks'[k] = [conn |-> sock, seq |-> f.seq]
  <2>1. acks' # acks
    BY Numbered, Added DEF Lines, AnyAck
  <2>. QED BY <2>1, TakenFrame
<1>4. Heard'
  BY TakenFrame
<1>5. UNCHANGED <<sock, link, cursor>> /\ gJ'.delivered = gJ.delivered /\ gJ'.first = gJ.first
  BY DEF FrameTakenFrom
<1>6. ~Looking /\ ~Looking' /\ ~Asking /\ ~Asking'
  <2>1. ~Looking /\ ~Looking' /\ ~Asking
    BY <1>5 DEF Looking, Asking, NoResume
  <2>2. up'[sock] # << >> => Head(up'[sock]).type = "ack"
    BY <1>1 DEF Talk, ResumeFirst
  <2>. QED BY <1>5, <2>1, <2>2 DEF Asking
<1>7. Base = gJ.delivered /\ Base' = Base
  BY <1>5, <1>6 DEF Base
<1>8. Anchored' /\ Linked' /\ Silent'
  BY <1>5 DEF Talk, Anchored, Linked, Silent
<1>9. OthersBehind'
  <2>1. /\ gJ.delivered <= Base /\ Base <= cursor /\ resume.stage = "none"
        /\ \A i \in 1 .. Len(acks) : acks[i].conn # sock => acks[i].seq <= Base
        /\ \A d \in Conns \ {sock} : \A i \in 1 .. Len(up[d]) : up[d][i].seq <= Base
    BY DEF Talk, OthersBehind, NoResume
  <2>2. \A i \in 1 .. Len(acks') : acks'[i].conn # sock => acks'[i].seq <= Base
    BY <1>2, <2>1
  <2>3. \A d \in Conns \ {sock} : \A i \in 1 .. Len(up'[d]) : up'[d][i].seq <= Base
    BY <1>1, <2>1
  <2>4. gJ'.delivered <= Base' /\ Base' <= cursor'
    BY <1>5, <1>7, <2>1
  <2>5. resume'.stage = "validated" => resume'.seq <= Base'
    BY <2>1
  <2>6. \A i \in 1 .. Len(acks') : acks'[i].conn # sock' => acks'[i].seq <= Base'
    BY <1>5, <1>7, <2>2
  <2>7. \A d \in Conns \ {sock'} : \A i \in 1 .. Len(up'[d]) : up'[d][i].seq <= Base'
    BY <1>5, <1>7, <2>3
  <2>. QED BY <2>4, <2>5, <2>6, <2>7 DEF OthersBehind
<1>10. ResumeFirst'
  <2>1. \A i \in 1 .. Len(up[sock]) : i > 1 => up[sock][i].type = "ack"
    BY DEF Talk, ResumeFirst
  <2>2. ASSUME NEW i \in 1 .. Len(up'[sock]) PROVE up'[sock][i].type = "ack"
    <3>1. i + 1 \in 1 .. Len(up[sock]) /\ up'[sock][i] = up[sock][i + 1]
      BY <1>1
    <3>2. i + 1 > 1
      OBVIOUS
    <3>. QED BY <2>1, <3>1, <3>2
  <2>3. \A i \in 1 .. Len(up'[sock']) : up'[sock'][i].type = "ack"
    BY <1>5, <2>2
  <2>. QED BY <1>6, <2>3 DEF ResumeFirst
<1>11. InTurn'
  <2>1. /\ \A i \in 1 .. Len(up[sock]) :
             /\ Base <= up[sock][i].seq
             /\ \A j \in 1 .. Len(up[sock]) : i < j => up[sock][i].seq <= up[sock][j].seq
        /\ \A i \in 1 .. Len(acks) : acks[i].conn = sock =>
             /\ Base <= acks[i].seq
             /\ \A j \in 1 .. Len(acks) :
                   i < j /\ acks[j].conn = sock => acks[i].seq <= acks[j].seq
             /\ \A j \in 1 .. Len(up[sock]) : acks[i].seq <= up[sock][j].seq
    BY DEF Talk, InTurn
  <2>2. ASSUME NEW i \in 1 .. Len(up'[sock])
        PROVE  /\ Base <= up'[sock][i].seq
               /\ f.seq <= up'[sock][i].seq
               /\ \A j \in 1 .. Len(up'[sock]) : i < j => up'[sock][i].seq <= up'[sock][j].seq
    <3>. HIDE DEF f
    <3>1. i + 1 \in 1 .. Len(up[sock]) /\ up'[sock][i] = up[sock][i + 1] /\ 1 < i + 1
      <4>1. \A k \in 1 .. Len(up'[sock]) :
               k + 1 \in 1 .. Len(up[sock]) /\ up'[sock][k] = up[sock][k + 1]
        BY <1>1
      <4>2. i \in Nat /\ i >= 1
        OBVIOUS
      <4>. QED BY <4>1, <4>2
    <3>2. ASSUME NEW j \in 1 .. Len(up'[sock]), i < j
          PROVE  up'[sock][i].seq <= up'[sock][j].seq
      <4>1. j + 1 \in 1 .. Len(up[sock]) /\ up'[sock][j] = up[sock][j + 1]
        BY <1>1
      <4>2. i + 1 < j + 1
        BY <3>2
      <4>. QED BY <2>1, <3>1, <4>1, <4>2
    <3>. QED BY <1>1, <2>1, <3>1, <3>2
  <2>3. ASSUME NEW i \in 1 .. Len(acks'), acks'[i].conn = sock
        PROVE  /\ Base <= acks'[i].seq
               /\ \A j \in 1 .. Len(acks') :
                     i < j /\ acks'[j].conn = sock => acks'[i].seq <= acks'[j].seq
               /\ \A j \in 1 .. Len(up'[sock]) : acks'[i].seq <= up'[sock][j].seq
    <3>. HIDE DEF f
    <3>1. CASE i \in 1 .. Len(acks)
      <4>1. acks'[i] = acks[i] /\ acks[i].seq <= f.seq
        BY <1>1, <1>2, <2>1, <2>3, <3>1
      <4>2. ASSUME NEW j \in 1 .. Len(acks'), i < j, acks'[j].conn = sock
            PROVE  acks'[i].seq <= acks'[j].seq
        <5>1. CASE j \in 1 .. Len(acks)
          BY <1>2, <2>1, <2>3, <3>1, <4>2, <5>1
        <5>2. CASE acks'[j] = [conn |-> sock, seq |-> f.seq]
          BY <4>1, <5>2
        <5>. QED BY <1>2, <5>1, <5>2
      <4>3. \A j \in 1 .. Len(up'[sock]) : acks'[i].seq <= up'[sock][j].seq
        <5>1. ASSUME NEW j \in 1 .. Len(up'[sock]) PROVE acks[i].seq <= up'[sock][j].seq
          <6>1. j + 1 \in 1 .. Len(up[sock]) /\ up'[sock][j] = up[sock][j + 1]
            BY <1>1
          <6>2. acks[i].conn = sock
            BY <2>3, <3>1, <4>1
          <6>. QED BY <2>1, <3>1, <6>1, <6>2
        <5>. QED BY <4>1, <5>1
      <4>. QED BY <2>1, <2>3, <3>1, <4>1, <4>2, <4>3
    <3>2. CASE i \notin 1 .. Len(acks)
      <4>1. acks'[i] = [conn |-> sock, seq |-> f.seq]
        BY <1>2, <3>2
      <4>2. ASSUME NEW j \in 1 .. Len(acks'), i < j PROVE acks'[j].seq = f.seq
        <5>1. j \notin 1 .. Len(acks)
          BY <1>2, <3>2, <4>2
        <5>. QED BY <1>2, <5>1
      <4>. QED BY <1>1, <2>1, <2>2, <4>1, <4>2
    <3>. QED BY <3>1, <3>2
  <2>. QED BY <1>5, <1>7, <2>2, <2>3 DEF InTurn
<1>12. NoGap'
  <2>1. ASSUME NEW s \in Nat, Base < s, s <= cursor
        PROVE  \/ \E i \in 1 .. Len(acks') : acks'[i].conn = sock /\ acks'[i].seq = s
               \/ \E i \in 1 .. Len(up'[sock]) : up'[sock][i].type = "ack" /\ up'[sock][i].seq = s
    <3>1. CASE \E i \in 1 .. Len(acks) : acks[i].conn = sock /\ acks[i].seq = s
      BY <1>2, <3>1
    <3>2. CASE \E i \in 1 .. Len(up[sock]) : up[sock][i].type = "ack" /\ up[sock][i].seq = s
      <4>1. PICK i \in 1 .. Len(up[sock]) : up[sock][i].type = "ack" /\ up[sock][i].seq = s
        BY <3>2
      <4>2. CASE i = 1
        BY <1>1, <1>3, <4>1, <4>2
      <4>3. CASE i > 1
        BY <1>1, <4>1, <4>3
      <4>. QED BY <4>2, <4>3
    <3>. QED BY <2>1, <3>1, <3>2 DEF Talk, NoGap
  <2>. QED BY <1>5, <1>7, <2>1 DEF NoGap
<1>. QED BY <1>4, <1>8, <1>9, <1>10, <1>11, <1>12 DEF Talk

\* The gateway has found the resume of the current socket in its journal.
LEMMA OwnResume ==
  ASSUME Lines, Talk, link = "open", link' = link, sock \in Conns, FrameTakenFrom(sock),
         resume = NoResume, acks' = acks, Head(up[sock]).type = "resume",
         resume' = [conn |-> sock, stage |-> "validated", seq |-> Head(up[sock]).seq, upto |-> 0]
  PROVE  Talk'
<1>. DEFINE f == Head(up[sock])
<1>1. /\ \A i \in 1 .. Len(up'[sock]) : i + 1 \in 1 .. Len(up[sock]) /\ up'[sock][i] = up[sock][i + 1]
      /\ \A d \in Conns \ {sock} : up'[d] = up[d]
      /\ 1 \in 1 .. Len(up[sock]) /\ f = up[sock][1] /\ f.seq \in Nat /\ f.seq <= cursor
      /\ \A i \in 1 .. Len(up[sock]) :
            i > 1 => i - 1 \in 1 .. Len(up'[sock]) /\ up'[sock][i - 1] = up[sock][i]
      /\ up'[sock] # << >> => Head(up'[sock]) = up[sock][2] /\ 2 \in 1 .. Len(up[sock])
  BY TakenFrame
<1>2. Heard'
  BY TakenFrame
<1>3. UNCHANGED <<sock, link, cursor, acks>> /\ gJ'.delivered = gJ.delivered /\ gJ'.first = gJ.first
  BY DEF FrameTakenFrom
<1>4. ~Looking /\ Asking /\ Looking' /\ ~Asking' /\ up[sock] # << >>
  <2>1. ~Looking /\ Looking' /\ Asking
    BY <1>3 DEF Looking, Asking, NoResume, FrameTakenFrom
  <2>2. up'[sock] # << >> => Head(up'[sock]).type = "ack"
    BY <1>1 DEF Talk, ResumeFirst
  <2>. QED BY <1>3, <2>1, <2>2 DEF Asking
<1>5. Base = f.seq /\ Base' = Base
  BY <1>3, <1>4 DEF Base
<1>6. Anchored' /\ Linked' /\ Silent'
  BY <1>3 DEF Talk, Anchored, Linked, Silent
<1>7. OthersBehind'
  <2>1. /\ gJ.delivered <= Base /\ Base <= cursor
        /\ \A i \in 1 .. Len(acks) : acks[i].conn # sock => acks[i].seq <= Base
        /\ \A d \in Conns \ {sock} : \A i \in 1 .. Len(up[d]) : up[d][i].seq <= Base
    BY DEF Talk, OthersBehind
  <2>2. \A d \in Conns \ {sock} : \A i \in 1 .. Len(up'[d]) : up'[d][i].seq <= Base
    BY <1>1, <2>1
  <2>3. resume'.seq = f.seq /\ f.seq <= Base
    BY <1>1, <1>5
  <2>4. gJ'.delivered <= Base' /\ Base' <= cursor'
    BY <1>3, <1>5, <2>1
  <2>5. resume'.stage = "validated" => resume'.seq <= Base'
    BY <1>5, <2>3
  <2>6. \A i \in 1 .. Len(acks') : acks'[i].conn # sock' => acks'[i].seq <= Base'
    BY <1>3, <1>5, <2>1
  <2>7. \A d \in Conns \ {sock'} : \A i \in 1 .. Len(up'[d]) : up'[d][i].seq <= Base'
    BY <1>3, <1>5, <2>2
  <2>. QED BY <2>4, <2>5, <2>6, <2>7 DEF OthersBehind
<1>8. ResumeFirst'
  <2>1. \A i \in 1 .. Len(up[sock]) : i > 1 => up[sock][i].type = "ack"
    BY DEF Talk, ResumeFirst
  <2>2. ASSUME NEW i \in 1 .. Len(up'[sock]) PROVE up'[sock][i].type = "ack"
    <3>1. i + 1 \in 1 .. Len(up[sock]) /\ up'[sock][i] = up[sock][i + 1]
      BY <1>1
    <3>2. i + 1 > 1
      OBVIOUS
    <3>. QED BY <2>1, <3>1, <3>2
  <2>3. \A i \in 1 .. Len(up'[sock']) : up'[sock'][i].type = "ack"
    BY <1>3, <2>2
  <2>4. \A i \in 1 .. Len(acks') : acks'[i].conn # sock'
    BY <1>3, <1>4 DEF Talk, ResumeFirst
  <2>. QED BY <1>4, <2>3, <2>4 DEF ResumeFirst
<1>9. \A i \in 1 .. Len(acks) : acks[i].conn # sock
  BY <1>4 DEF Talk, ResumeFirst
<1>10. InTurn'
  <2>1. \A i \in 1 .. Len(up[sock]) :
             /\ Base <= up[sock][i].seq
             /\ \A j \in 1 .. Len(up[sock]) : i < j => up[sock][i].seq <= up[sock][j].seq
    BY DEF Talk, InTurn
  <2>2. ASSUME NEW i \in 1 .. Len(up'[sock])
        PROVE  /\ Base <= up'[sock][i].seq
               /\ \A j \in 1 .. Len(up'[sock]) : i < j => up'[sock][i].seq <= up'[sock][j].seq
    <3>. HIDE DEF f
    <3>1. i + 1 \in 1 .. Len(up[sock]) /\ up'[sock][i] = up[sock][i + 1] /\ 1 < i + 1
      <4>1. \A k \in 1 .. Len(up'[sock]) :
               k + 1 \in 1 .. Len(up[sock]) /\ up'[sock][k] = up[sock][k + 1]
        BY <1>1
      <4>2. i \in Nat /\ i >= 1
        OBVIOUS
      <4>. QED BY <4>1, <4>2
    <3>2. ASSUME NEW j \in 1 .. Len(up'[sock]), i < j
          PROVE  up'[sock][i].seq <= up'[sock][j].seq
      <4>1. j + 1 \in 1 .. Len(up[sock]) /\ up'[sock][j] = up[sock][j + 1]
        BY <1>1
      <4>2. i + 1 < j + 1
        BY <3>2
      <4>. QED BY <2>1, <3>1, <4>1, <4>2
    <3>. QED BY <1>1, <2>1, <3>1, <3>2
  <2>. QED BY <1>3, <1>5, <1>9, <2>2 DEF InTurn
<1>11. NoGap'
  <2>1. ASSUME NEW s \in Nat, Base < s, s <= cursor
        PROVE  \E i \in 1 .. Len(up'[sock]) : up'[sock][i].type = "ack" /\ up'[sock][i].seq = s
    <3>1. PICK i \in 1 .. Len(up[sock]) : up[sock][i].type = "ack" /\ up[sock][i].seq = s
      BY <1>9, <2>1 DEF Talk, NoGap
    <3>2. i > 1
      BY <1>1, <3>1
    <3>3. i - 1 \in 1 .. Len(up'[sock]) /\ up'[sock][i - 1] = up[sock][i]
      BY <1>1, <3>2
    <3>. QED BY <3>1, <3>3
  <2>. QED BY <1>3, <1>5, <2>1 DEF NoGap
<1>. QED BY <1>2, <1>6, <1>7, <1>8, <1>10, <1>11 DEF Talk
\* What the journals allow the gateway to find.
LEMMA Bounded ==
  ASSUME Inv
  PROVE  /\ Lines /\ cursor <= gJ.last /\ cursor <= cJ.last /\ cJ.last <= gJ.last
         /\ {cursor, gJ.first, gJ.delivered, gJ.last, cJ.last} \subseteq Nat
         /\ gJ.first >= 1 /\ gJ.delivered <= cJ.last
<1>1. Lines
  BY LinesKnown
<1>2. cursor <= cJ.last /\ cJ.last <= gJ.last /\ gJ.delivered <= cJ.last
  BY <1>1 DEF Inv, CursorOK, JournalsOK, NothingForgotten, Lines
<1>. QED BY <1>1, <1>2 DEF Lines

\* The socket is not yet open, or not any more.
LEMMA Unopened ==
  ASSUME Lines, Talk, sock \in Conns, link # "open"
  PROVE  link \in {"connecting", "closing"}
  BY ConnsAssumption DEF Lines, Talk, Linked

LEMMA TakeFrameTalk ==
  ASSUME Inv, Talk, NEW c \in Conns, TakeFrame(c)
  PROVE  Talk' /\ (link' = "closing" => link = "closing")
<1>. DEFINE f == Head(up[c])
<1>1. Lines
  BY Bounded
<1>2. /\ resume = NoResume /\ up[c] # << >> /\ up' = [up EXCEPT ![c] = Tail(@)]
      /\ sock' = sock /\ cursor' = cursor /\ gJ' = gJ
      /\ \/ /\ f.type = "ack" /\ acks' = Append(acks, [conn |-> c, seq |-> f.seq])
            /\ resume' = resume /\ link' = link
         \/ /\ f.type = "resume" /\ f.seq # 0 /\ f.seq \notin gJ.first .. gJ.last
            /\ GatewayCloses(c) /\ resume' = resume /\ acks' = acks
         \/ /\ f.type = "resume" /\ link' = link /\ acks' = acks
            /\ resume' = [NoResume EXCEPT !.conn = c, !.stage = "validated", !.seq = f.seq]
  BY DEF TakeFrame, journals
<1>3. ASSUME resume' = [NoResume EXCEPT !.conn = c, !.stage = "validated", !.seq = f.seq]
      PROVE  resume' = [conn |-> c, stage |-> "validated", seq |-> f.seq, upto |-> 0]
  BY <1>3 DEF NoResume
<1>. HIDE DEF f
<1>4. FrameTakenFrom(c)
  BY <1>2, <1>3 DEF FrameTakenFrom, f
<1>5. f = up[c][1] /\ 1 \in 1 .. Len(up[c]) /\ f.seq \in Nat /\ f.seq <= cursor /\ Heard'
  BY <1>1, <1>4, TakenFrame DEF f
<1>6. CASE c # sock
  <2>1. link' = link
    BY <1>2, <1>6 DEF GatewayCloses
  <2>. QED BY <1>1, <1>4, <1>6, <2>1, OtherFrame
<1>7. CASE c = sock /\ link = "open"
  <2>1. ~(f.type = "resume" /\ f.seq # 0 /\ f.seq \notin gJ.first .. gJ.last)
    <3>1. SUFFICES ASSUME f.type = "resume", f.seq # 0 PROVE f.seq \in gJ.first .. gJ.last
      OBVIOUS
    <3>2. Asking /\ ~Looking
      BY <1>2, <1>5, <1>7, <3>1 DEF Asking, Looking, NoResume, f
    <3>3. Base = f.seq
      BY <1>7, <3>2 DEF Base, f
    <3>4. gJ.delivered <= f.seq
      BY <1>7, <3>3 DEF Talk, OthersBehind
    <3>. QED BY <1>5, <3>1, <3>4, Bounded DEF Talk, Anchored
  <2>2. link' = link
    BY <1>2, <2>1
  <2>3. CASE f.type = "ack" /\ acks' = Append(acks, [conn |-> c, seq |-> f.seq]) /\ resume' = resume
    BY <1>1, <1>2, <1>4, <1>7, <2>2, <2>3, OwnAck DEF f
  <2>4. CASE f.type = "resume" /\ acks' = acks
             /\ resume' = [conn |-> c, stage |-> "validated", seq |-> f.seq, upto |-> 0]
    BY <1>1, <1>2, <1>4, <1>7, <2>2, <2>4, OwnResume DEF f
  <2>. QED BY <1>2, <1>3, <1>7, <2>1, <2>2, <2>3, <2>4
<1>8. CASE c = sock /\ link # "open"
  <2>1. link = "closing"
    BY <1>1, <1>2, <1>8, Unopened DEF Talk, Silent
  <2>2. link' = "closing"
    BY <1>2, <1>8, <2>1 DEF GatewayCloses
  <2>3. Anchored' /\ Linked' /\ Silent'
    BY <1>2, <2>1, <2>2 DEF Talk, Anchored, Linked, Silent
  <2>. QED BY <1>5, <2>1, <2>2, <2>3, NotOpen
<1>. QED BY <1>6, <1>7, <1>8

\* A resume that was looked up is compared with the delivery cursor.
LEMMA ResumeDone ==
  ASSUME Lines, Talk, UNCHANGED <<acks, up, sock, cursor, link>>,
         resume.stage = "validated", resume'.stage # "validated",
         resume'.conn \in {resume.conn, NoConn},
         gJ'.delivered \in {gJ.delivered, resume.seq}, gJ.delivered <= gJ'.delivered, Anchored',
         link = "open" /\ Looking => gJ'.delivered = resume.seq
  PROVE  Talk'
<1>1. Heard' /\ Linked' /\ Silent'
  BY DEF Talk, Heard, Linked, Silent, Lines
<1>2. ~Looking' /\ (Asking' <=> Asking)
  BY DEF Looking, Asking
<1>3. ASSUME link = "open" PROVE Base' = Base /\ gJ'.delivered <= Base
  <2>1. sock \in Conns
    BY <1>3 DEF Lines, Talk, Linked
  <2>2. resume.seq <= Base /\ gJ.delivered <= Base /\ Base \in Nat /\ resume.seq \in Nat
        /\ gJ.delivered \in Nat
    BY <1>3, <2>1, BaseIsANumber DEF Talk, OthersBehind, Lines
  <2>3. CASE Looking
    BY <1>2, <1>3, <2>3, <2>2 DEF Base, Talk, ResumeFirst
  <2>4. CASE ~Looking /\ Asking
    BY <1>2, <2>2, <2>4 DEF Base
  <2>5. CASE ~Looking /\ ~Asking
    <3>1. Base = gJ.delivered /\ Base' = gJ'.delivered
      BY <1>2, <2>5 DEF Base
    <3>. QED BY <2>2, <3>1
  <2>. QED BY <2>3, <2>4, <2>5
<1>4. OthersBehind'
  BY <1>3 DEF Talk, OthersBehind
<1>5. ResumeFirst'
  BY <1>2 DEF Talk, ResumeFirst
<1>6. InTurn' /\ NoGap'
  BY <1>3 DEF Talk, InTurn, NoGap
<1>. QED BY <1>1, <1>4, <1>5, <1>6 DEF Talk

\* The delivery cursor moves, and compaction leaves it in the journal.
LEMMA Compacted ==
  ASSUME Inv, Anchored, NEW seq \in Nat, gJ.delivered <= seq, gJ' \in Delivered(gJ, seq)
  PROVE  gJ'.delivered = seq /\ Anchored'
<1>1. gJ \in Journals
  BY DEF Inv, JournalsOK
<1>2. PICK n \in {gJ.first} \cup {g \in gJ.first .. seq : g + Retained > seq} :
         gJ' = [gJ EXCEPT !.delivered = seq, !.first = n]
  BY DEF Delivered
<1>3. gJ'.delivered = seq /\ gJ'.first = n
  BY <1>1, <1>2 DEF Journals
<1>4. n = gJ.first \/ n <= seq
  BY <1>2
<1>. QED BY <1>3, <1>4, Bounded DEF Anchored

LEMMA ReconcileTalk ==
  ASSUME Inv, Talk, Reconcile
  PROVE  Talk' /\ (link' = "closing" => link = "closing")
<1>1. Lines /\ resume.stage = "validated" /\ resume.seq \in Nat /\ gJ.delivered \in Nat
      /\ resume.conn \in Conns
  BY Bounded DEF Reconcile, Lines, Talk, Heard
<1>2. UNCHANGED <<acks, up, sock, cursor>>
  BY DEF Reconcile
<1>3. CASE resume.seq # 0 /\ resume.seq < gJ.delivered
  <2>1. gJ' = gJ /\ resume' = NoResume /\ GatewayCloses(resume.conn)
    BY <1>3 DEF Reconcile
  <2>2. ~(link = "open" /\ Looking)
    <3>1. SUFFICES ASSUME link = "open", Looking PROVE FALSE
      OBVIOUS
    <3>2. gJ.delivered <= resume.seq
      BY <3>1 DEF Talk, OthersBehind, Base
    <3>. QED BY <1>1, <1>3, <3>2
  <2>3. resume.conn = sock => link = "closing"
    <3>1. resume.conn = sock => link # "open" /\ link # "connecting" /\ sock \in Conns
      BY <1>1, <2>2 DEF Looking, Talk, Silent
    <3>. QED BY <1>1, <3>1, Unopened
  <2>4. link' = link
    BY <2>1, <2>3 DEF GatewayCloses
  <2>. QED BY <1>1, <1>2, <2>1, <2>2, <2>4, ResumeDone DEF NoResume, Talk, Anchored
<1>4. CASE ~(resume.seq # 0 /\ resume.seq < gJ.delivered)
  <2>1. /\ link' = link /\ resume' = [resume EXCEPT !.stage = "ready"]
        /\ \/ resume.seq \in {0, gJ.delivered} /\ gJ' = gJ
           \/ resume.seq \notin {0, gJ.delivered} /\ gJ' \in Delivered(gJ, resume.seq)
    BY <1>4 DEF Reconcile
  <2>2. resume'.stage = "ready" /\ resume'.conn = resume.conn
    BY <1>1, <2>1 DEF Lines
  <2>3. CASE gJ' = gJ /\ resume.seq \in {0, gJ.delivered}
    <3>1. link = "open" /\ Looking => gJ.delivered = resume.seq
      <4>1. link = "open" /\ Looking => gJ.delivered <= resume.seq
        BY DEF Talk, OthersBehind, Base
      <4>. QED BY <1>1, <2>3, <4>1
    <3>. QED BY <1>1, <1>2, <2>1, <2>2, <2>3, <3>1, ResumeDone DEF Talk, Anchored
  <2>4. CASE resume.seq \notin {0, gJ.delivered} /\ gJ' \in Delivered(gJ, resume.seq)
    <3>1. gJ.delivered <= resume.seq
      BY <1>1, <1>4, <2>4
    <3>2. gJ'.delivered = resume.seq /\ Anchored'
      BY <1>1, <2>4, <3>1, Compacted DEF Talk
    <3>. QED BY <1>1, <1>2, <2>1, <2>2, <3>1, <3>2, ResumeDone
  <2>. QED BY <2>1, <2>3, <2>4
<1>. QED BY <1>3, <1>4

\* The gateway takes the acknowledgement that is next in its lane.
LEMMA TakenAck ==
  ASSUME Lines, acks # << >>, acks' = Tail(acks)
  PROVE  /\ Head(acks) = acks[1] /\ 1 \in 1 .. Len(acks) /\ acks[1] \in AnyAck
         /\ \A i \in 1 .. Len(acks') : i + 1 \in 1 .. Len(acks) /\ acks'[i] = acks[i + 1]
         /\ \A i \in 1 .. Len(acks) : i # 1 => i - 1 \in 1 .. Len(acks') /\ acks'[i - 1] = acks[i]
         /\ Len(acks) \in Nat /\ Len(acks') \in Nat
<1>1. acks \in Seq(AnyAck)
  BY DEF Lines
<1>2. /\ Len(acks) \in Nat \ {0} /\ Len(acks') = Len(acks) - 1
      /\ \A i \in 1 .. Len(acks') : acks'[i] = acks[i + 1]
      /\ Head(acks) = acks[1] /\ acks[1] \in AnyAck
  BY <1>1, Taken
<1>3. 1 \in 1 .. Len(acks) /\ Len(acks') \in Nat
      /\ \A i \in 1 .. Len(acks') : i + 1 \in 1 .. Len(acks)
  BY <1>2
<1>4. ASSUME NEW i \in 1 .. Len(acks), i # 1
      PROVE  i - 1 \in 1 .. Len(acks') /\ acks'[i - 1] = acks[i]
  <2>1. i - 1 \in 1 .. Len(acks') /\ i - 1 + 1 = i
    BY <1>2, <1>4
  <2>. QED BY <1>2, <2>1
<1>. QED BY <1>2, <1>3, <1>4

\* Its effect on what the client says, if the gateway's cursor moves with Base.
LEMMA AckTaken ==
  ASSUME Lines, Talk, acks # << >>, acks' = Tail(acks), link = "open",
         UNCHANGED <<resume, up, sock, cursor, link>>, sock \in Conns,
         gJ'.delivered \in {gJ.delivered, Head(acks).seq}, gJ.delivered <= gJ'.delivered, Anchored',
         Head(acks).conn = sock => gJ'.delivered = Head(acks).seq,
         Head(acks).conn # sock /\ ~Looking /\ ~Asking => gJ'.delivered = gJ.delivered
  PROVE  Talk'
<1>. DEFINE a == Head(acks)
<1>1. /\ a = acks[1] /\ 1 \in 1 .. Len(acks) /\ a.conn \in Conns /\ a.seq \in Nat
      /\ \A i \in 1 .. Len(acks') : i + 1 \in 1 .. Len(acks) /\ acks'[i] = acks[i + 1]
      /\ \A i \in 1 .. Len(acks) : i # 1 => i - 1 \in 1 .. Len(acks') /\ acks'[i - 1] = acks[i]
      /\ Len(acks) \in Nat /\ Len(acks') \in Nat
  BY TakenAck DEF AnyAck
<1>. HIDE DEF a
<1>2. a.seq <= cursor /\ gJ.delivered \in Nat /\ gJ'.delivered \in {gJ.delivered, a.seq}
  BY <1>1 DEF Talk, Heard, Lines, a
<1>3. Heard'
  <2>1. gJ'.delivered <= cursor'
    BY <1>2 DEF Talk, Heard
  <2>2. \A i \in 1 .. Len(acks') : acks'[i].seq <= cursor'
    BY <1>1 DEF Talk, Heard
  <2>. QED BY <2>1, <2>2 DEF Talk, Heard
<1>4. Linked' /\ Silent'
  BY DEF Talk, Linked, Silent
<1>5. (Looking' <=> Looking) /\ (Asking' <=> Asking) /\ Base \in Nat
  BY BaseIsANumber DEF Looking, Asking
<1>6. ResumeFirst'
  <2>1. Looking \/ Asking => \A i \in 1 .. Len(acks') : acks'[i].conn # sock
    BY <1>1 DEF Talk, ResumeFirst
  <2>. QED BY <1>5, <2>1 DEF Talk, ResumeFirst
<1>7. a.conn = sock => ~Looking /\ ~Asking /\ Base <= a.seq
  BY <1>1 DEF Talk, ResumeFirst, InTurn
<1>8. Base <= Base' /\ gJ'.delivered <= Base' /\ Base' <= cursor
      /\ (Base' # Base => a.conn = sock /\ Base' = a.seq)
  <2>1. CASE Looking \/ Asking
    <3>1. Base' = Base /\ a.conn # sock
      BY <1>5, <1>7, <2>1 DEF Base, Looking, Asking
    <3>2. a.seq <= Base /\ gJ.delivered <= Base /\ Base <= cursor
      BY <1>1, <3>1 DEF Talk, OthersBehind
    <3>. QED BY <1>2, <1>5, <3>1, <3>2
  <2>2. CASE ~(Looking \/ Asking)
    <3>1. Base = gJ.delivered /\ Base' = gJ'.delivered
      BY <1>5, <2>2 DEF Base
    <3>2. gJ'.delivered <= cursor /\ gJ'.delivered \in Nat
      BY <1>1, <1>2, <1>3 DEF Talk, Heard
    <3>3. a.conn = sock => gJ'.delivered = a.seq
      BY DEF a
    <3>4. a.conn # sock => gJ'.delivered = gJ.delivered
      BY <2>2 DEF a
    <3>. QED BY <3>1, <3>2, <3>3, <3>4
  <2>. QED BY <2>1, <2>2
<1>9. Base' \in Nat
  BY <1>1, <1>5, <1>8
<1>10. OthersBehind'
  <2>1. /\ resume.stage = "validated" => resume.seq <= Base
        /\ \A i \in 1 .. Len(acks) : acks[i].conn # sock => acks[i].seq <= Base
        /\ \A d \in Conns \ {sock} : \A i \in 1 .. Len(up[d]) : up[d][i].seq <= Base
    BY DEF Talk, OthersBehind
  <2>2. resume'.stage = "validated" => resume'.seq <= Base'
    BY <1>5, <1>8, <1>9, <2>1 DEF Lines
  <2>3. ASSUME NEW i \in 1 .. Len(acks'), acks'[i].conn # sock PROVE acks'[i].seq <= Base'
    <3>1. i + 1 \in 1 .. Len(acks) /\ acks'[i] = acks[i + 1]
      BY <1>1
    <3>2. acks'[i].seq \in Nat /\ acks'[i].seq <= Base
      BY <2>1, <2>3, <3>1, Numbered
    <3>. QED BY <1>5, <1>8, <1>9, <3>2
  <2>4. ASSUME NEW d \in Conns \ {sock}, NEW i \in 1 .. Len(up[d]) PROVE up[d][i].seq <= Base'
    <3>1. up[d][i].seq \in Nat /\ up[d][i].seq <= Base
      BY <2>1, Numbered
    <3>. QED BY <1>5, <1>8, <1>9, <3>1
  <2>5. gJ'.delivered <= Base' /\ Base' <= cursor'
    BY <1>8
  <2>6. \A i \in 1 .. Len(acks') : acks'[i].conn # sock' => acks'[i].seq <= Base'
    BY <2>3
  <2>7. \A d \in Conns \ {sock'} : \A i \in 1 .. Len(up'[d]) : up'[d][i].seq <= Base'
    BY <2>4
  <2>. QED BY <2>2, <2>5, <2>6, <2>7 DEF OthersBehind
<1>11. /\ \A i \in 1 .. Len(up[sock]) : Base' <= up[sock][i].seq
       /\ \A i \in 1 .. Len(acks) : acks[i].conn = sock => Base' <= acks[i].seq
  <2>1. CASE Base' = Base
    BY <2>1 DEF Talk, InTurn
  <2>2. CASE a.conn = sock /\ Base' = a.seq
    <3>1. \A i \in 1 .. Len(up[sock]) : a.seq <= up[sock][i].seq
      BY <1>1, <2>2 DEF Talk, InTurn
    <3>2. ASSUME NEW i \in 1 .. Len(acks), acks[i].conn = sock PROVE a.seq <= acks[i].seq
      <4>1. CASE i = 1
        BY <1>1, <4>1
      <4>2. CASE i # 1
        <5>1. 1 < i
          BY <4>2
        <5>. QED BY <1>1, <2>2, <3>2, <5>1 DEF Talk, InTurn
      <4>. QED BY <4>1, <4>2
    <3>. QED BY <2>2, <3>1, <3>2
  <2>. QED BY <1>8, <2>1, <2>2
<1>12. InTurn'
  <2>1. \A i \in 1 .. Len(up[sock]) : \A j \in 1 .. Len(up[sock]) :
           i < j => up[sock][i].seq <= up[sock][j].seq
    BY DEF Talk, InTurn
  <2>2. ASSUME NEW i \in 1 .. Len(acks'), acks'[i].conn = sock
        PROVE  /\ Base' <= acks'[i].seq
               /\ \A j \in 1 .. Len(acks') :
                     i < j /\ acks'[j].conn = sock => acks'[i].seq <= acks'[j].seq
               /\ \A j \in 1 .. Len(up[sock]) : acks'[i].seq <= up[sock][j].seq
    <3>1. i + 1 \in 1 .. Len(acks) /\ acks'[i] = acks[i + 1]
      BY <1>1
    <3>2. Base' <= acks'[i].seq
      BY <1>11, <2>2, <3>1
    <3>3. ASSUME NEW j \in 1 .. Len(acks'), i < j, acks'[j].conn = sock
          PROVE  acks'[i].seq <= acks'[j].seq
      <4>1. j + 1 \in 1 .. Len(acks) /\ acks'[j] = acks[j + 1]
        BY <1>1
      <4>2. i + 1 < j + 1
        BY <3>3
      <4>. QED BY <2>2, <3>1, <3>3, <4>1, <4>2 DEF Talk, InTurn
    <3>4. \A j \in 1 .. Len(up[sock]) : acks'[i].seq <= up[sock][j].seq
      BY <2>2, <3>1 DEF Talk, InTurn
    <3>. QED BY <3>2, <3>3, <3>4
  <2>. QED BY <1>11, <2>1, <2>2 DEF InTurn
<1>13. NoGap'
  <2>1. ASSUME NEW s \in Nat, Base' < s, s <= cursor
        PROVE  \/ \E i \in 1 .. Len(acks') : acks'[i].conn = sock /\ acks'[i].seq = s
               \/ \E i \in 1 .. Len(up[sock]) : up[sock][i].type = "ack" /\ up[sock][i].seq = s
    <3>1. Base < s
      BY <1>5, <1>8, <1>9, <2>1
    <3>2. CASE \E i \in 1 .. Len(acks) : acks[i].conn = sock /\ acks[i].seq = s
      <4>1. PICK i \in 1 .. Len(acks) : acks[i].conn = sock /\ acks[i].seq = s
        BY <3>2
      <4>2. i # 1
        <5>1. SUFFICES ASSUME i = 1 PROVE FALSE
          OBVIOUS
        <5>2. a.conn = sock /\ a.seq = s
          BY <1>1, <4>1, <5>1
        <5>3. Base' = a.seq
          BY <1>5, <1>7, <5>2 DEF Base, a
        <5>. QED BY <1>9, <2>1, <5>2, <5>3
      <4>. QED BY <1>1, <4>1, <4>2
    <3>. QED BY <2>1, <3>1, <3>2 DEF Talk, NoGap
  <2>. QED BY <2>1 DEF NoGap
<1>. QED BY <1>3, <1>4, <1>6, <1>10, <1>12, <1>13 DEF Talk

LEMMA TakeAckTalk ==
  ASSUME Inv, Talk, TakeAck
  PROVE  Talk' /\ (link' = "closing" => link = "closing")
<1>. DEFINE a == Head(acks)
<1>1. Lines /\ acks # << >> /\ acks' = Tail(acks) /\ UNCHANGED <<resume, up, sock, cursor>>
  BY Bounded DEF TakeAck, network
<1>2. /\ a = acks[1] /\ 1 \in 1 .. Len(acks) /\ a.conn \in Conns /\ a.seq \in Nat
      /\ \A i \in 1 .. Len(acks') : i + 1 \in 1 .. Len(acks) /\ acks'[i] = acks[i + 1]
  BY <1>1, TakenAck DEF AnyAck
<1>3. \/ a.seq = gJ.delivered /\ gJ' = gJ /\ link' = link
      \/ NextDelivered(gJ, a.seq) /\ gJ' \in Delivered(gJ, a.seq) /\ link' = link
      \/ /\ a.seq # gJ.delivered /\ ~NextDelivered(gJ, a.seq)
         /\ GatewayCloses(a.conn) /\ gJ' = gJ
  BY DEF TakeAck, Redelivered
<1>. HIDE DEF a
<1>4. a.seq <= cursor
  BY <1>2 DEF Talk, Heard
<1>5. gJ.delivered \in Nat /\ gJ'.delivered \in {gJ.delivered, a.seq}
      /\ gJ.delivered <= gJ'.delivered /\ Anchored'
  <2>1. CASE gJ' = gJ
    BY <2>1, Bounded DEF Talk, Anchored
  <2>2. CASE NextDelivered(gJ, a.seq) /\ gJ' \in Delivered(gJ, a.seq)
    <3>1. gJ.delivered <= a.seq
      BY <1>2, <2>2, Bounded DEF NextDelivered
    <3>2. gJ'.delivered = a.seq /\ Anchored'
      BY <1>2, <2>2, <3>1, Compacted DEF Talk
    <3>. QED BY <3>1, <3>2, Bounded
  <2>. QED BY <1>3, <2>1, <2>2
<1>6. CASE link = "open"
  <2>1. sock \in Conns
    BY <1>1, <1>6 DEF Lines, Talk, Linked
  <2>2. a.conn = sock => a.seq = gJ.delivered \/ NextDelivered(gJ, a.seq)
    <3>1. SUFFICES ASSUME a.conn = sock, a.seq # gJ.delivered PROVE NextDelivered(gJ, a.seq)
      OBVIOUS
    <3>2. ~Looking /\ ~Asking
      BY <1>2, <1>6, <3>1 DEF Talk, ResumeFirst
    <3>3. Base = gJ.delivered
      BY <3>2 DEF Base
    <3>4. gJ.delivered < a.seq
      BY <1>2, <1>5, <1>6, <3>1, <3>3 DEF Talk, InTurn
    <3>. DEFINE s == gJ.delivered + 1
    <3>5. s \in Nat /\ Base < s /\ s <= cursor
      BY <1>2, <1>4, <1>5, <3>3, <3>4, Bounded
    <3>. HIDE DEF s
    <3>6. \/ \E i \in 1 .. Len(acks) : acks[i].conn = sock /\ acks[i].seq = s
          \/ \E i \in 1 .. Len(up[sock]) : up[sock][i].type = "ack" /\ up[sock][i].seq = s
      BY <1>6, <3>5 DEF Talk, NoGap
    <3>7. a.seq <= s
      <4>1. CASE \E i \in 1 .. Len(acks) : acks[i].conn = sock /\ acks[i].seq = s
        <5>1. PICK i \in 1 .. Len(acks) : acks[i].conn = sock /\ acks[i].seq = s
          BY <4>1
        <5>2. CASE i = 1
          BY <1>2, <3>5, <5>1, <5>2
        <5>3. CASE i # 1
          <6>1. 1 < i
            BY <5>3
          <6>. QED BY <1>2, <1>6, <3>1, <5>1, <6>1 DEF Talk, InTurn
        <5>. QED BY <5>2, <5>3
      <4>2. CASE \E i \in 1 .. Len(up[sock]) : up[sock][i].type = "ack" /\ up[sock][i].seq = s
        BY <1>2, <1>6, <3>1, <4>2 DEF Talk, InTurn
      <4>. QED BY <3>6, <4>1, <4>2
    <3>8. a.seq = gJ.delivered + 1
      BY <1>2, <1>5, <3>4, <3>7 DEF s
    <3>9. gJ.first <= a.seq /\ a.seq <= gJ.last
      BY <1>2, <1>4, <3>8, Bounded DEF Talk, Anchored
    <3>. QED BY <1>2, <3>8, <3>9, Bounded DEF NextDelivered
  <2>3. link' = link
    BY <1>3, <2>2 DEF GatewayCloses
  <2>4. a.conn = sock => gJ'.delivered = a.seq
    <3>1. CASE NextDelivered(gJ, a.seq) /\ gJ' \in Delivered(gJ, a.seq)
      BY <1>2, <1>5, <3>1, Compacted, Bounded DEF Talk, NextDelivered
    <3>. QED BY <1>3, <2>2, <3>1
  <2>5. a.conn # sock /\ ~Looking /\ ~Asking => gJ'.delivered = gJ.delivered
    <3>1. SUFFICES ASSUME a.conn # sock, ~Looking, ~Asking PROVE gJ'.delivered = gJ.delivered
      OBVIOUS
    <3>2. a.seq <= gJ.delivered
      BY <1>2, <1>6, <3>1 DEF Talk, OthersBehind, Base
    <3>. QED BY <1>2, <1>5, <3>2
  <2>. QED BY <1>1, <1>5, <1>6, <2>1, <2>3, <2>4, <2>5, AckTaken DEF a
<1>7. CASE link # "open"
  <2>1. a.conn = sock => link = "closing"
    <3>1. a.conn = sock => link # "connecting"
      BY <1>2 DEF Talk, Silent
    <3>. QED BY <1>1, <1>2, <1>7, <3>1, Unopened
  <2>2. link' = link
    BY <1>3, <2>1 DEF GatewayCloses
  <2>3. Heard'
    <3>1. gJ'.delivered <= cursor'
      BY <1>1, <1>4, <1>5 DEF Talk, Heard
    <3>2. \A i \in 1 .. Len(acks') : acks'[i].seq <= cursor'
      BY <1>1, <1>2 DEF Talk, Heard
    <3>. QED BY <1>1, <3>1, <3>2 DEF Talk, Heard
  <2>4. Linked' /\ Silent'
    BY <1>1, <1>2, <2>2 DEF Talk, Linked, Silent
  <2>. QED BY <1>5, <1>7, <2>2, <2>3, <2>4, NotOpen
<1>. QED BY <1>6, <1>7

----------------------------------------------------------------------------
(* Talk: the client's steps, a renewal, and the steps that say nothing.     *)

LEMMA OpenTalk == ASSUME Inv, Talk, NEW c \in Conns, Open(c) PROVE Talk'
<1>1. /\ UNCHANGED <<gJ, acks, resume, up, cursor>> /\ sock' = c /\ link' = "connecting"
      /\ c # resume.conn /\ up[c] = << >> /\ \A i \in DOMAIN acks : acks[i].conn # c
  BY DEF Open, Unused, journals, gatewayVars
<1>2. acks \in Seq(AnyAck)
  BY Bounded DEF Lines
<1>3. \A i \in 1 .. Len(acks) : acks[i].conn # c
  BY <1>1, <1>2
<1>4. Silent'
  BY <1>1, <1>3 DEF Silent
<1>5. Heard' /\ Anchored' /\ Linked'
  BY <1>1, ConnsAssumption DEF Talk, Heard, Anchored, Linked
<1>. QED BY <1>1, <1>4, <1>5, NotOpen

LEMMA OnOpenTalk == ASSUME Inv, Talk, OnOpen PROVE Talk'
<1>. DEFINE r == [type |-> "resume", seq |-> cursor]
<1>1. /\ UNCHANGED <<gJ, acks, resume, cursor, sock>> /\ link = "connecting" /\ link' = "open"
      /\ up' = [up EXCEPT ![sock] = Append(@, r)]
  BY DEF OnOpen, SendUp, journals, gatewayVars
<1>2. Lines /\ sock \in Conns /\ cursor \in Nat
  BY <1>1, Bounded DEF Talk, Linked, Lines
<1>3. up'[sock] = << r >> /\ \A d \in Conns \ {sock} : up'[d] = up[d]
  <2>1. up[sock] = << >>
    BY <1>1 DEF Talk, Silent
  <2>. QED BY <1>1, <1>2, <2>1 DEF Lines
<1>4. Len(up'[sock]) = 1 /\ up'[sock][1] = r /\ Head(up'[sock]) = r /\ up'[sock] # << >>
  BY <1>3
<1>5. r.type = "resume" /\ r.seq = cursor
  OBVIOUS
<1>. HIDE DEF r
<1>6. resume.conn # sock /\ \A i \in 1 .. Len(acks) : acks[i].conn # sock
  BY <1>1 DEF Talk, Silent
<1>7. ~Looking' /\ Asking' /\ Base' = cursor
  BY <1>1, <1>4, <1>5, <1>6 DEF Looking, Asking, Base
<1>8. Heard'
  <2>1. ASSUME NEW d \in Conns, NEW i \in 1 .. Len(up'[d])
        PROVE  up'[d][i].type \in {"resume", "ack"} /\ up'[d][i].seq <= cursor
    <3>1. CASE d = sock
      <4>1. \A k \in 1 .. Len(up'[sock]) : k = 1
        BY <1>4
      <4>. QED BY <1>2, <1>4, <1>5, <3>1, <4>1
    <3>2. CASE d # sock
      BY <1>3, <3>2 DEF Talk, Heard
    <3>. QED BY <3>1, <3>2
  <2>. QED BY <1>1, <2>1 DEF Talk, Heard
<1>9. Anchored' /\ Linked' /\ Silent'
  BY <1>1, <1>2, ConnsAssumption DEF Talk, Anchored, Linked, Silent
<1>10. OthersBehind'
  <2>1. gJ'.delivered <= cursor /\ (resume'.stage = "validated" => resume'.seq <= cursor)
        /\ \A i \in 1 .. Len(acks') : acks'[i].seq <= cursor
    BY <1>1 DEF Talk, Heard
  <2>2. \A d \in Conns : \A i \in 1 .. Len(up'[d]) : up'[d][i].seq <= cursor
    BY <1>1, <1>8 DEF Heard
  <2>3. Base' <= cursor'
    BY <1>1, <1>2, <1>7
  <2>. QED BY <1>7, <2>1, <2>2, <2>3 DEF OthersBehind
<1>11. ResumeFirst'
  <2>1. \A i \in 1 .. Len(up'[sock]) : ~(i > 1)
    BY <1>4
  <2>. QED BY <1>1, <1>6, <1>7, <2>1 DEF ResumeFirst
<1>12. InTurn'
  <2>1. \A i \in 1 .. Len(up'[sock]) : i = 1
    BY <1>4
  <2>2. cursor <= cursor
    BY <1>2
  <2>3. \A i \in 1 .. Len(up'[sock]) :
           /\ cursor <= up'[sock][i].seq
           /\ \A j \in 1 .. Len(up'[sock]) : i < j => up'[sock][i].seq <= up'[sock][j].seq
    BY <1>4, <1>5, <2>1, <2>2
  <2>. QED BY <1>1, <1>6, <1>7, <2>3 DEF InTurn
<1>13. NoGap'
  <2>1. \A s \in Nat : ~(cursor < s /\ s <= cursor)
    BY <1>2
  <2>. QED BY <1>1, <1>7, <2>1 DEF NoGap
<1>. QED BY <1>8, <1>9, <1>10, <1>11, <1>12, <1>13 DEF Talk

\* The socket is gone, and perhaps what was on its way.
LEMMA Disconnected ==
  ASSUME Inv, Talk, UNCHANGED <<gJ, acks, resume, cursor>>, sock' = NoConn, link' = "none",
         up' = up \/ up' = [up EXCEPT ![sock] = << >>]
  PROVE  Talk'
<1>1. \A d \in Conns : up'[d] \in {up[d], << >>}
  BY Bounded DEF Lines
<1>2. \A d \in Conns : \A i \in 1 .. Len(up'[d]) :
         up'[d][i].type \in {"resume", "ack"} /\ up'[d][i].seq <= cursor
  BY <1>1 DEF Talk, Heard
<1>3. Heard' /\ Anchored' /\ Linked' /\ Silent'
  BY <1>2 DEF Talk, Heard, Anchored, Linked, Silent
<1>. QED BY <1>3, NotOpen

LEMMA DropTalk == ASSUME Inv, Talk, Drop PROVE Talk'
<1>1. PICK sent \in {up[sock], << >>} : up' = [up EXCEPT ![sock] = sent]
  BY DEF Drop
<1>2. up' = up \/ up' = [up EXCEPT ![sock] = << >>]
  BY <1>1, Bounded DEF Lines
<1>. QED BY <1>2, Disconnected DEF Drop, journals, gatewayVars

LEMMA RenewTalk == ASSUME Inv, Talk, Renew PROVE Talk'
<1>1. /\ gJ' = gJ /\ resume' = NoResume /\ acks' = << >> /\ up' = [c \in Conns |-> << >>]
      /\ sock' = NoConn /\ link' = "none" /\ cursor' = cJ.last
  BY DEF Renew, journals
<1>2. Heard'
  <2>1. gJ'.delivered <= cursor'
    BY <1>1, Bounded
  <2>2. Len(acks') = 0 /\ \A c \in Conns : Len(up'[c]) = 0
    BY <1>1
  <2>. QED BY <1>1, <2>1, <2>2 DEF Heard, NoResume
<1>3. Anchored' /\ Linked' /\ Silent'
  BY <1>1 DEF Talk, Anchored, Linked, Silent
<1>. QED BY <1>1, <1>2, <1>3, NotOpen

LEMMA ReceiveEventTalk == ASSUME Inv, Talk, ReceiveEvent PROVE Talk'
<1>. DEFINE seq == Head(down[sock]).seq
<1>1. UNCHANGED <<gJ, acks, resume, sock, cursor>> /\ sock # NoConn
  BY DEF ReceiveEvent, Receiving, gatewayVars
<1>2. CASE state = "connected" /\ seq = cursor /\ AckEvent(seq)
  <2>1. AckEvent(cursor) /\ cursor \in Nat /\ cursor' = cursor
    BY <1>1, <1>2, Bounded
  <2>. QED BY <1>1, <2>1, Bounded, AckEventTalk
<1>3. CASE up' = up /\ (link' = link \/ ProtocolFailure)
  BY <1>1, <1>3, Bounded, TalkStays DEF ProtocolFailure
<1>. QED BY <1>2, <1>3 DEF ReceiveEvent

LEMMA AppendedTalk == ASSUME Inv, Order, Talk, Appended PROVE Talk'
<1>1. UNCHANGED <<gJ, acks, resume, sock>> /\ cursor' = handling.seq /\ AckEvent(handling.seq)
  BY DEF Appended, journals, gatewayVars
<1>2. handling.seq = cursor + 1 /\ cursor \in Nat
  BY Bounded DEF Appended, Order, Unqueued
<1>3. handling.seq \in Nat /\ handling.seq \in {cursor, cursor + 1}
  BY <1>2
<1>. QED BY <1>1, <1>3, Bounded, AckEventTalk

\* The steps in which the client says nothing and the gateway takes nothing.
Unsaid ==
    \/ Record \/ SendLive \/ ReadReplay \/ SendReplay \/ Detach \/ (\E c \in Conns : Attach(c))
    \/ OnClose \/ ReceiveReady \/ Connected \/ Router \/ AcknowledgeOld
    \/ (\E e \in 1 .. MaxSeq : RouteOld(e)) \/ UNCHANGED vars

LEMMA UnsaidTalk == ASSUME Inv, Talk, Unsaid PROVE Talk'
<1>1. CASE Record
  <2>1. gJ'.delivered = gJ.delivered /\ gJ'.first = gJ.first
    BY <1>1 DEF Record, Append1, Inv, JournalsOK, Journals
  <2>. QED BY <1>1, <2>1, Bounded, TalkStays DEF Record, network, clientVars
<1>2. CASE SendLive \/ Detach \/ UNCHANGED vars
  BY <1>2, Bounded, TalkStays
  DEF SendLive, Detach, vars, journals, gatewayVars, network, clientVars
<1>3. CASE ReadReplay \/ SendReplay
  <2>1. resume.stage # "validated" /\ resume'.stage # "validated"
        /\ resume'.conn \in {resume.conn, NoConn}
    <3>1. CASE ReadReplay
      <4>1. resume \in [conn : Conns \cup {NoConn}, seq : Nat, upto : Nat,
                        stage : {"none", "validated", "ready", "read"}]
        BY Bounded DEF Lines
      <4>2. resume.stage = "ready" /\ resume' = [resume EXCEPT !.stage = "read", !.upto = gJ.last]
        BY <3>1 DEF ReadReplay
      <4>. QED BY <4>1, <4>2
    <3>2. CASE SendReplay
      BY <3>2 DEF SendReplay, NoResume
    <3>. QED BY <1>3, <3>1, <3>2
  <2>. QED BY <1>3, <2>1, Bounded, TalkStays DEF ReadReplay, SendReplay, journals, network, clientVars
<1>4. CASE \E c \in Conns : Attach(c)
  BY <1>4, Bounded, TalkStays DEF Attach, GatewayCloses, journals
<1>5. CASE OnClose
  BY <1>5, Disconnected DEF OnClose, journals, gatewayVars
<1>6. CASE ReceiveReady \/ Connected
  BY <1>6, Bounded, TalkStays
  DEF ReceiveReady, Receiving, Connected, ProtocolFailure, journals, gatewayVars, network
<1>7. CASE Router \/ AcknowledgeOld \/ \E e \in 1 .. MaxSeq : RouteOld(e)
  <2>1. UNCHANGED <<gJ, gatewayVars, network, clientVars>>
    BY <1>7 DEF Router, ReadBacklog, PullBacklog, PullLive, Acknowledge, Route, AcknowledgeOld,
       RouteOld, journals
  <2>. QED BY <2>1, Bounded, TalkStays DEF gatewayVars, network, clientVars
<1>. QED BY <1>1, <1>2, <1>3, <1>4, <1>5, <1>6, <1>7 DEF Unsaid

LEMMA TalkNext ==
  ASSUME Inv, Order, Talk, [Next]_vars
  PROVE  Talk'
<1>1. CASE Reconcile \/ TakeAck \/ \E c \in Conns : TakeFrame(c)
  BY <1>1, ReconcileTalk, TakeAckTalk, TakeFrameTalk
<1>2. CASE OnOpen \/ \E c \in Conns : Open(c)
  BY <1>2, OnOpenTalk, OpenTalk
<1>3. CASE ReceiveEvent \/ Appended
  BY <1>3, ReceiveEventTalk, AppendedTalk
<1>4. CASE Drop \/ Retire \/ Crash
  BY <1>4, DropTalk, RenewTalk DEF Retire, Crash
<1>5. CASE Unsaid
  BY <1>5, UnsaidTalk
<1>. QED BY <1>1, <1>2, <1>3, <1>4, <1>5 DEF Next, Gateway, Transport, Unsaid

LEMMA TalkInit == Init => Talk
<1>. SUFFICES ASSUME Init PROVE Talk
  OBVIOUS
<1>1. Heard
  <2>1. Len(acks) = 0 /\ \A c \in Conns : Len(up[c]) = 0
    BY DEF Init
  <2>. QED BY <2>1 DEF Init, Heard, EmptyJournal, NoResume
<1>2. Anchored /\ Linked /\ Silent /\ link # "open"
  BY DEF Init, Anchored, Linked, Silent, EmptyJournal
<1>. QED BY <1>1, <1>2 DEF Talk, OthersBehind, ResumeFirst, InTurn, NoGap

Accepts ==
    TakeAck \/ Reconcile \/ (\E c \in Conns : TakeFrame(c))
      => (link' = "closing" => link = "closing")

(* The gateway never closes the socket the client is using over a resume   *)
(* or an acknowledgement (local-gateway-runtime.ts, reconcileDelivery-     *)
(* Cursor and markDeliveredIdentity): whatever was dropped, replayed,      *)
(* crashed or said on an older socket, its cursor is one the gateway has   *)
(* and its acknowledgements go on from there one by one.                   *)
THEOREM GatewayAccepts == Spec => GatewayNeverRejects
<1>1. Init => OInv /\ Talk
  BY OInvInit, TalkInit
<1>2. OInv /\ Talk /\ [Next]_vars => (OInv /\ Talk)'
  BY OInvNext, TalkNext DEF OInv
<1>3. OInv /\ Talk => Accepts
  BY ReconcileTalk, TakeAckTalk, TakeFrameTalk DEF OInv, Accepts
<1>4. OInv /\ Talk /\ [Next]_vars => [Accepts]_vars
  BY <1>3
<1>. QED BY <1>1, <1>2, <1>4, PTL DEF Spec, GatewayNeverRejects, Accepts

=============================================================================
