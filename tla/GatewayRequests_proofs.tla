----------------------- MODULE GatewayRequests_proofs -----------------------
(***************************************************************************)
(* For any sets of requests and any number of connections, restarts and    *)
(* resubmissions: a creation is written to Codex at most once, only the    *)
(* Codex process that made a request gets the answer to it, and what the   *)
(* callers are told of their requests is true.                             *)
(***************************************************************************)
EXTENDS GatewayRequests, SequenceTheorems, TLAPS

Writing(r) == job.step = "write" /\ job.id = r

(* What was written, and what is about to be, has a receipt; what is about *)
(* to be written has not been.  Without the last part the invariant would  *)
(* not survive Write.                                                      *)
Shape ==
    /\ receipts \in [Ids -> {"none", "accepted", "completed"}]
    /\ writes \in [Ids -> Nat]
    /\ job = [id |-> job.id, via |-> job.via, step |-> job.step]
    /\ job.step \in {"none", "write", "complete"}
    /\ job.step = "write" => job.id \in Ids

HasReceipt == \A r \in Turns : writes[r] > 0 \/ Writing(r) => receipts[r] # "none"
WritingIsFirst == \A r \in Turns : Writing(r) => writes[r] = 0
OnceInv == Shape /\ HasReceipt /\ WritingIsFirst /\ AtMostOnce

-----------------------------------------------------------------------------
LEMMA TurnsAreIds == Turns \subseteq Ids /\ Turns \cap (Reads \cup Notes \cup Asks) = {}
  BY KindsAssumption DEF Ids, Calls

(* Completing a receipt keeps those of the creations. *)
LEMMA CompleteKeeps ==
  ASSUME Shape, NEW r, Complete(r)
  PROVE  /\ receipts' \in [Ids -> {"none", "accepted", "completed"}]
         /\ \A t \in Turns : receipts[t] # "none" => receipts'[t] # "none"
  <1> DEFINE completed == [receipts EXCEPT ![r] = "completed"]
  <1>1. PICK gone \in SUBSET Evictable(completed) :
          receipts' = [s \in Ids |-> IF s \in gone THEN "none" ELSE completed[s]]
    BY DEF Complete
  <1>2. completed \in [Ids -> {"none", "accepted", "completed"}]
    BY DEF Shape
  <1>3. \A t \in Turns : t \notin gone
    BY TurnsAreIds DEF Evictable
  <1>4. \A t \in Turns : receipts[t] # "none" => completed[t] # "none"
    BY TurnsAreIds DEF Shape
  <1> QED BY <1>1, <1>2, <1>3, <1>4, TurnsAreIds

(* The job stays, loses its socket, waits for the ledger, or ends. *)
JobKept ==
    \/ job' = job \/ job' = [job EXCEPT !.via = "closed"]
    \/ job' = [job EXCEPT !.step = "complete"] \/ job' = NoJob

(* A step that writes nothing, starts to write nothing and forgets no      *)
(* receipt of a creation.                                                  *)
LEMMA Harmless ==
  ASSUME OnceInv, JobKept, UNCHANGED writes,
         receipts' \in [Ids -> {"none", "accepted", "completed"}],
         \A t \in Turns : receipts[t] # "none" => receipts'[t] # "none"
  PROVE  OnceInv'
  <1>1. Shape'
    BY DEF OnceInv, Shape, JobKept, NoJob
  <1>2. \A r : Writing(r)' => Writing(r)
    BY DEF OnceInv, Shape, JobKept, NoJob, Writing
  <1> QED BY <1>1, <1>2 DEF OnceInv, HasReceipt, WritingIsFirst, AtMostOnce

LEMMA Untouched ==
  ASSUME OnceInv, JobKept, UNCHANGED <<writes, receipts>>
  PROVE  OnceInv'
  BY Harmless DEF OnceInv, Shape

(* A request taken from the lane to be written. *)
LEMMA AcceptOnce == ASSUME OnceInv, NEW f, Accept(f) PROVE OnceInv'
  <1>1. f.id \in Ids /\ receipts[f.id] = "none" /\ receipts' = [receipts EXCEPT ![f.id] = "accepted"]
        /\ job' = [id |-> f.id, via |-> f.via, step |-> "write"] /\ UNCHANGED writes
    BY DEF Accept, Accepting, codexVars
  <1>2. Shape'
    BY <1>1 DEF OnceInv, Shape
  <1>3. \A r \in Turns : writes[r] > 0 => r # f.id
    BY <1>1 DEF OnceInv, HasReceipt
  <1>4. \A r \in Turns : Writing(r)' <=> r = f.id
    BY <1>1 DEF Writing
  <1>5. HasReceipt'
    BY <1>1, <1>4, TurnsAreIds DEF OnceInv, HasReceipt, Shape
  <1>6. WritingIsFirst'
    BY <1>1, <1>3, <1>4, TurnsAreIds DEF OnceInv, WritingIsFirst, Shape
  <1> QED BY <1>1, <1>2, <1>5, <1>6 DEF OnceInv, AtMostOnce

(* Only replies are written again. *)
LEMMA AcceptAgainOnce == ASSUME OnceInv, NEW f, AcceptAgain(f) PROVE OnceInv'
  <1>1. f.id \in Asks /\ job' = [id |-> f.id, via |-> f.via, step |-> "write"]
        /\ UNCHANGED <<writes, receipts>>
    BY DEF AcceptAgain, codexVars, ledgerVars
  <1>2. \A r \in Turns : ~ Writing(r)'
    BY <1>1, TurnsAreIds DEF Writing
  <1>3. f.id \in Ids
    BY <1>1 DEF Ids
  <1>4. Shape'
    BY <1>1, <1>3 DEF OnceInv, Shape
  <1> QED BY <1>1, <1>2, <1>4 DEF OnceInv, HasReceipt, WritingIsFirst, AtMostOnce

(* The first and only write of a creation. *)
LEMMA WriteOnce == ASSUME OnceInv, Write PROVE OnceInv'
  <1>1. job.step = "write" /\ writes' = [writes EXCEPT ![job.id] = @ + 1] /\ UNCHANGED receipts
        /\ (job' = NoJob \/ job' = [job EXCEPT !.step = "complete"])
    BY DEF Write, Written, ledgerVars
  <1>2. \A r : ~ Writing(r)'
    BY <1>1 DEF OnceInv, Shape, NoJob, Writing
  <1>3. Shape'
    <2>1. writes' \in [Ids -> Nat]
      BY <1>1 DEF OnceInv, Shape
    <2>2. job' = [id |-> job'.id, via |-> job'.via, step |-> job'.step]
          /\ job'.step \in {"none", "complete"}
      BY <1>1 DEF OnceInv, Shape, NoJob
    <2> QED BY <1>1, <2>1, <2>2 DEF OnceInv, Shape
  <1>4. \A r \in Turns : writes'[r] = writes[r] \/ (Writing(r) /\ writes'[r] = 1)
    BY <1>1, TurnsAreIds DEF OnceInv, Shape, WritingIsFirst, Writing
  <1> QED BY <1>1, <1>2, <1>3, <1>4 DEF OnceInv, HasReceipt, WritingIsFirst, AtMostOnce

-----------------------------------------------------------------------------
LEMMA OnceInit == Init => OnceInv
  BY TurnsAreIds
  DEF Init, OnceInv, Shape, HasReceipt, WritingIsFirst, AtMostOnce, Writing, NoJob

LEMMA OnceNext == OnceInv /\ [Next]_vars => OnceInv'
  <1> SUFFICES ASSUME OnceInv, [Next]_vars PROVE OnceInv'
    OBVIOUS
  <1> USE DEF ledgerVars, codexVars, laneVars
  <1>1. ASSUME NEW f, HandleResume(f) \/ HandleInFlight(f) \/ Reject(f) \/ HandleCompleted(f)
        PROVE OnceInv'
    BY <1>1, Untouched DEF HandleResume, HandleInFlight, Reject, HandleCompleted, JobKept
  <1>2. ASSUME NEW f, HandleStaleReply(f) PROVE OnceInv'
    <2>1. f.id \in Asks
      BY <1>2 DEF HandleStaleReply, FromEarlierChild
    <2>2. receipts' \in [Ids -> {"none", "accepted", "completed"}]
          /\ \A t \in Turns : receipts[t] # "none" => receipts'[t] # "none"
      BY <1>2, <2>1, TurnsAreIds DEF HandleStaleReply, OnceInv, Shape
    <2> QED BY <1>2, <2>2, Harmless DEF HandleStaleReply, JobKept
  <1>3. ASSUME NEW f, Accept(f) \/ AcceptAgain(f) PROVE OnceInv'
    BY <1>3, AcceptOnce, AcceptAgainOnce
  <1>4. CASE Write
    BY <1>4, WriteOnce
  <1>5. CASE WriteFails
    BY <1>5, Untouched DEF WriteFails, JobKept
  <1>6. CASE CompleteJob
    BY <1>6, Harmless, CompleteKeeps DEF CompleteJob, OnceInv, JobKept
  <1>7. CASE HandleResponse
    BY <1>7, Harmless, CompleteKeeps DEF HandleResponse, OnceInv, JobKept
  <1>8. ASSUME NEW q, Confirm(q) PROVE OnceInv'
    BY <1>8, Harmless, CompleteKeeps DEF Confirm, OnceInv, JobKept
  <1>9. CASE RecordResponse \/ HandleRequest \/ HandleProgress \/ Confirmed
    BY <1>9, Untouched DEF RecordResponse, HandleRequest, HandleProgress, Confirmed, JobKept
  <1>10. ASSUME NEW r, Respond(r) \/ GoOn(r) \/ Ask(r) PROVE OnceInv'
    BY <1>10, Untouched DEF Respond, GoOn, Ask, JobKept
  <1>11. CASE Chatter \/ Exit \/ Start
    BY <1>11, Untouched DEF Chatter, Exit, Start, Break, JobKept
  <1>12. CASE Connect \/ Drop \/ ReceiveReady \/ ReceiveUnexpected
    BY <1>12, Untouched DEF Connect, Drop, ReceiveReady, ReceiveUnexpected, Break, JobKept
  <1>13. ASSUME NEW r, ReceiveAccepted(r) \/ ReceiveRejected(r) \/ Submit(r) PROVE OnceInv'
    BY <1>13, Untouched DEF ReceiveAccepted, ReceiveRejected, Submit, JobKept
  <1>14. ASSUME NEW r, Deliver(r) \/ Recover(r) \/ Reply(r) \/ Acknowledge(r) PROVE OnceInv'
    BY <1>14, Untouched DEF Deliver, Recover, Reply, Acknowledge, JobKept
  <1>15. CASE UNCHANGED vars
    BY <1>15, Untouched DEF vars, JobKept
  <1> QED
    BY <1>1, <1>2, <1>3, <1>4, <1>5, <1>6, <1>7, <1>8, <1>9, <1>10, <1>11, <1>12, <1>13,
       <1>14, <1>15
    DEF Next, ClientLane, OutputLane, Codex, Receive, Router

(* A creation is written to Codex at most once, whatever is resubmitted,   *)
(* resent, compacted or restarted, and however often (acceptRequest).      *)
THEOREM WrittenAtMostOnce == Spec => []AtMostOnce
  <1>1. OnceInv => AtMostOnce
    BY DEF OnceInv
  <1> QED BY OnceInit, OnceNext, <1>1, PTL DEF Spec

-----------------------------------------------------------------------------
(* What may be answered now, what is being answered and what is about to   *)
(* be recorded as a request are requests of the running process.           *)
AskersAreNow ==
    /\ \A q \in current : asker[q] = child
    /\ \A q \in Asks : Writing(q) => asker[q] = child
    /\ \A i \in 1 .. Len(lines) : lines[i].kind = "request" => asker[lines[i].id] = child

AskerShape ==
    /\ child \in Nat \ {0} /\ asker \in [Asks -> Nat]
    /\ written \subseteq Ids \X (Nat \ {0})
    /\ current \subseteq Asks
    /\ lines \in Seq(Lines) /\ (output # "idle" => lines # <<>>)
    /\ \A i \in 1 .. Len(lines) : lines[i].kind = "request" => lines[i].id \in Asks
    /\ job = [id |-> job.id, via |-> job.via, step |-> job.step]
    /\ job.step = "write" => job.id \in Ids

AnswersMatch == \A q \in Asks : \A n \in Nat \ {0} : <<q, n>> \in written => n = asker[q]

AskerInv == AskerShape /\ AskersAreNow /\ AnswersMatch

(* No process is started and nothing is asked or written. *)
LEMMA AskersUntouched ==
  ASSUME AskerInv, JobKept, UNCHANGED <<child, asker, written>>, current' \subseteq current,
         \/ UNCHANGED <<lines, output>>
         \/ lines # <<>> /\ UNCHANGED lines
         \/ lines # <<>> /\ lines' = Tail(lines) /\ output' = "idle"
  PROVE  AskerInv'
  <1>1. lines' \in Seq(Lines)
        /\ \A i \in 1 .. Len(lines') : \E j \in 1 .. Len(lines) : lines'[i] = lines[j]
    <2>1. CASE UNCHANGED lines
      BY <2>1 DEF AskerInv, AskerShape
    <2>2. CASE lines # <<>> /\ lines' = Tail(lines)
      <3>1. lines' \in Seq(Lines) /\ Len(lines') = Len(lines) - 1
            /\ \A i \in 1 .. Len(lines') : lines'[i] = lines[i + 1]
        BY <2>2, HeadTailProperties DEF AskerInv, AskerShape
      <3>2. Len(lines) \in Nat
        BY DEF AskerInv, AskerShape
      <3>3. \A i \in 1 .. Len(lines') : i + 1 \in 1 .. Len(lines)
        BY <3>1, <3>2
      <3> QED BY <3>1, <3>3
    <2> QED BY <2>1, <2>2
  <1>2. \A r : Writing(r)' => Writing(r)
    BY DEF AskerInv, AskerShape, JobKept, NoJob, Writing
  <1>3. AskerShape'
    <2>1. job' = [id |-> job'.id, via |-> job'.via, step |-> job'.step]
          /\ (job'.step = "write" => job'.id \in Ids)
      BY DEF AskerInv, AskerShape, JobKept, NoJob
    <2>2. output' # "idle" => lines' # <<>>
      BY DEF AskerInv, AskerShape
    <2>3. \A i \in 1 .. Len(lines') : lines'[i].kind = "request" => lines'[i].id \in Asks
      BY <1>1 DEF AskerInv, AskerShape
    <2> QED BY <1>1, <2>1, <2>2, <2>3 DEF AskerInv, AskerShape
  <1> QED BY <1>1, <1>2, <1>3 DEF AskerInv, AskerShape, AskersAreNow, AnswersMatch

(* Codex prints something that is not a request. *)
LEMMA AskersPrinted ==
  ASSUME AskerInv, UNCHANGED <<job, child, asker, written, current>>,
         NEW kind \in {"response", "progress"}, NEW r \in Ids \cup {Resume}, Emit(kind, r)
  PROVE  AskerInv'
  <1> DEFINE line == [kind |-> kind, id |-> r]
  <1>1. line \in Lines /\ line.kind # "request" /\ lines' = Append(lines, line)
    BY DEF Lines, Emit
  <1>2. lines' \in Seq(Lines) /\ Len(lines') = Len(lines) + 1
        /\ \A i \in 1 .. Len(lines) : lines'[i] = lines[i]
        /\ lines'[Len(lines) + 1] = line
    BY <1>1, AppendProperties DEF AskerInv, AskerShape
  <1>3. \A i \in 1 .. Len(lines') : lines'[i].kind = "request" =>
          i \in 1 .. Len(lines) /\ lines'[i] = lines[i]
    BY <1>1, <1>2 DEF AskerInv, AskerShape
  <1>4. \A i \in 1 .. Len(lines') : lines'[i].kind = "request" =>
          lines'[i].id \in Asks /\ asker[lines'[i].id] = child
    BY <1>3 DEF AskerInv, AskerShape, AskersAreNow
  <1>5. lines' # <<>>
    BY <1>2 DEF AskerInv, AskerShape
  <1>6. AskerShape'
    BY <1>2, <1>4, <1>5 DEF AskerInv, AskerShape
  <1> QED BY <1>4, <1>6 DEF AskerInv, AskersAreNow, AnswersMatch, Writing

(* Codex asks something new: no process was ever given an answer to it. *)
LEMMA AskersAsked == ASSUME AskerInv, NEW q \in Asks, Ask(q) PROVE AskerInv'
  <1> DEFINE line == [kind |-> "request", id |-> q]
  <1>1. line \in Lines /\ line.kind = "request" /\ line.id = q
        /\ lines' = Append(lines, line) /\ asker[q] = 0
        /\ asker' = [asker EXCEPT ![q] = child] /\ UNCHANGED <<job, child, written, current>>
    BY DEF Ask, Emit, Lines, Ids, memoryVars, laneVars
  <1> HIDE DEF line
  <1>2. lines' \in Seq(Lines) /\ Len(lines') = Len(lines) + 1
        /\ \A i \in 1 .. Len(lines) : lines'[i] = lines[i]
        /\ lines'[Len(lines) + 1] = line
    BY <1>1, AppendProperties DEF AskerInv, AskerShape
  <1>3. \A i \in 1 .. Len(lines') :
          lines'[i].kind = "request" =>
            lines'[i].id = q \/ (i \in 1 .. Len(lines) /\ lines'[i] = lines[i])
    BY <1>1, <1>2 DEF AskerInv, AskerShape
  <1>4. asker' \in [Asks -> Nat] /\ asker'[q] = child /\ \A p \in Asks \ {q} : asker'[p] = asker[p]
    BY <1>1 DEF AskerInv, AskerShape
  <1>5. \A n \in Nat \ {0} : <<q, n>> \notin written
    BY <1>1 DEF AskerInv, AskerShape, AnswersMatch
  <1>6. AskerShape'
    BY <1>1, <1>2, <1>3, <1>4 DEF AskerInv, AskerShape
  <1>7. AskersAreNow'
    BY <1>1, <1>3, <1>4 DEF AskerInv, AskerShape, AskersAreNow, Writing
  <1>8. AnswersMatch'
    BY <1>1, <1>4, <1>5 DEF AskerInv, AnswersMatch
  <1> QED BY <1>6, <1>7, <1>8 DEF AskerInv

(* A request of the running process becomes answerable. *)
LEMMA AskersRegistered == ASSUME AskerInv, HandleRequest PROVE AskerInv'
  <1>1. lines # <<>> /\ Head(lines).kind = "request" /\ current' = current \cup {Head(lines).id}
        /\ UNCHANGED <<lines, job, child, asker, written>>
    BY DEF HandleRequest, Line, laneVars, codexVars
  <1>2. 1 \in 1 .. Len(lines) /\ Head(lines) = lines[1]
    BY <1>1 DEF AskerInv, AskerShape
  <1>3. Head(lines).id \in Asks /\ asker[Head(lines).id] = child
    BY <1>1, <1>2 DEF AskerInv, AskerShape, AskersAreNow
  <1> QED BY <1>1, <1>3 DEF AskerInv, AskerShape, AskersAreNow, AnswersMatch, Writing

(* Only an answerable request gets as far as being answered. *)
LEMMA AskersAccepted == ASSUME AskerInv, NEW f, Accept(f) \/ AcceptAgain(f) PROVE AskerInv'
  <1>1. f.id \in Ids /\ (f.id \in Asks => f.id \in current)
        /\ job' = [id |-> f.id, via |-> f.via, step |-> "write"]
        /\ UNCHANGED <<lines, output, child, asker, written, current>>
    BY DEF Accept, AcceptAgain, Accepting, FromEarlierChild, outputVars, codexVars
  <1>2. \A q \in Asks : Writing(q)' => asker[q] = child
    BY <1>1 DEF AskerInv, AskersAreNow, Writing
  <1>3. AskerShape'
    BY <1>1 DEF AskerInv, AskerShape
  <1> QED BY <1>1, <1>2, <1>3 DEF AskerInv, AskersAreNow, AnswersMatch

LEMMA AskersWritten == ASSUME AskerInv, Write PROVE AskerInv'
  <1>1. Writing(job.id) /\ written' = written \cup {<<job.id, child>>}
        /\ (job' = NoJob \/ job' = [job EXCEPT !.step = "complete"])
        /\ UNCHANGED <<lines, output, child, asker, current>>
    BY DEF Write, Written, Writing, outputVars, memoryVars
  <1>2. \A r : ~ Writing(r)'
    BY <1>1 DEF AskerInv, AskerShape, NoJob, Writing
  <1>3. job' = [id |-> job'.id, via |-> job'.via, step |-> job'.step] /\ job'.step # "write"
    BY <1>1 DEF AskerInv, AskerShape, NoJob
  <1>4. job.id \in Ids
    BY <1>1 DEF AskerInv, AskerShape, Writing
  <1>5. AskerShape'
    BY <1>1, <1>3, <1>4 DEF AskerInv, AskerShape
  <1>6. job.id \in Asks => asker[job.id] = child
    BY <1>1 DEF AskerInv, AskersAreNow
  <1>7. AnswersMatch'
    BY <1>1, <1>6 DEF AskerInv, AnswersMatch
  <1> QED BY <1>1, <1>2, <1>5, <1>7 DEF AskerInv, AskersAreNow

(* A new process starts with nothing answerable and nothing printed. *)
LEMMA AskersRestarted == ASSUME AskerInv, Start PROVE AskerInv'
  <1>1. child' = child + 1 /\ current' = {} /\ lines' = <<>> /\ output' = "idle"
        /\ job' = NoJob /\ UNCHANGED <<asker, written>>
    BY DEF Start
  <1>2. Len(lines') = 0 /\ lines' \in Seq(Lines)
    BY <1>1
  <1> QED BY <1>1, <1>2 DEF AskerInv, AskerShape, AskersAreNow, AnswersMatch, NoJob, Writing

-----------------------------------------------------------------------------
LEMMA AskerInit == Init => AskerInv
  BY DEF Init, AskerInv, AskerShape, AskersAreNow, AnswersMatch, NoJob, Writing

LEMMA AskerNext == AskerInv /\ [Next]_vars => AskerInv'
  <1> SUFFICES ASSUME AskerInv, [Next]_vars PROVE AskerInv'
    OBVIOUS
  <1> USE DEF ledgerVars, memoryVars, outputVars, codexVars, laneVars
  <1>1. ASSUME NEW f, HandleResume(f) \/ HandleInFlight(f) \/ Reject(f) \/ HandleCompleted(f)
                      \/ HandleStaleReply(f)
        PROVE AskerInv'
    BY <1>1, AskersUntouched
    DEF HandleResume, HandleInFlight, Reject, HandleCompleted, HandleStaleReply, JobKept
  <1>2. ASSUME NEW f, Accept(f) \/ AcceptAgain(f) PROVE AskerInv'
    BY <1>2, AskersAccepted
  <1>3. CASE Write
    BY <1>3, AskersWritten
  <1>4. CASE WriteFails \/ CompleteJob
    BY <1>4, AskersUntouched DEF WriteFails, CompleteJob, JobKept
  <1>5. CASE HandleResponse \/ HandleProgress
    BY <1>5, AskersUntouched DEF HandleResponse, HandleProgress, Line, JobKept
  <1>6. CASE RecordResponse \/ Confirmed
    <2>1. output # "idle"
      BY <1>6 DEF RecordResponse, Confirmed
    <2>2. lines # <<>>
      BY <2>1 DEF AskerInv, AskerShape
    <2> QED BY <1>6, <2>2, AskersUntouched DEF RecordResponse, Confirmed, JobKept
  <1>7. CASE HandleRequest
    BY <1>7, AskersRegistered
  <1>8. ASSUME NEW q, Confirm(q) PROVE AskerInv'
    BY <1>8, AskersUntouched DEF Confirm, JobKept
  <1>9. ASSUME NEW r \in Calls, Respond(r) PROVE AskerInv'
    BY <1>9, AskersPrinted DEF Respond, Ids
  <1>10. ASSUME NEW q \in Scoped, GoOn(q) PROVE AskerInv'
    BY <1>10, AskersPrinted DEF GoOn, Ids, Asks
  <1>11. CASE Chatter
    BY <1>11, AskersPrinted DEF Chatter
  <1>12. ASSUME NEW q \in Asks, Ask(q) PROVE AskerInv'
    BY <1>12, AskersAsked
  <1>13. CASE Start
    BY <1>13, AskersRestarted
  <1>14. CASE Exit \/ Connect \/ Drop \/ ReceiveReady \/ ReceiveUnexpected
    BY <1>14, AskersUntouched
    DEF Exit, Connect, Drop, ReceiveReady, ReceiveUnexpected, Break, JobKept
  <1>15. ASSUME NEW r, ReceiveAccepted(r) \/ ReceiveRejected(r) \/ Submit(r) PROVE AskerInv'
    BY <1>15, AskersUntouched DEF ReceiveAccepted, ReceiveRejected, Submit, JobKept
  <1>16. ASSUME NEW r, Deliver(r) \/ Recover(r) \/ Reply(r) \/ Acknowledge(r) PROVE AskerInv'
    BY <1>16, AskersUntouched DEF Deliver, Recover, Reply, Acknowledge, JobKept
  <1>17. CASE UNCHANGED vars
    BY <1>17, AskersUntouched DEF vars, JobKept
  <1> QED
    BY <1>1, <1>2, <1>3, <1>4, <1>5, <1>6, <1>7, <1>8, <1>9, <1>10, <1>11, <1>12, <1>13,
       <1>14, <1>15, <1>16, <1>17
    DEF Next, ClientLane, OutputLane, Codex, Receive, Router

(* Only the process that made a request is ever given the answer to it,    *)
(* through any crashes and replays of the request (acceptRequest).         *)
THEOREM AnswersReachTheirAsker == Spec => []RepliesGoToTheirAsker
  <1>1. AskerInv => RepliesGoToTheirAsker
    BY DEF AskerInv, AskerShape, AnswersMatch, RepliesGoToTheirAsker
  <1> QED BY AskerInit, AskerNext, <1>1, PTL DEF Spec

-----------------------------------------------------------------------------
(* What some Codex process got, and where it is remembered.                *)

Got(r) == writes[r] > 0

GotInv ==
    /\ \A p \in written : Got(p[1]) /\ p[2] <= child
    /\ \A r \in working : r \in Ids /\ Got(r)
    /\ \A l \in Range(lines) : l.kind = "response" => l.id \in Calls /\ Got(l.id)
    /\ output = "record" => lines # <<>> /\ Head(lines).kind = "response"
    /\ inFlight \subseteq Calls \cup Notes
    /\ \A r \in inFlight : <<r, child>> \in written \/ Writing(r)
    /\ job.step = "complete" => job.id \in Ids /\ Got(job.id)
    /\ \A r \in Calls \cup Notes : receipts[r] = "completed" => Got(r)
    /\ \A r \in events : r \in Calls /\ Got(r)

LEMMA Appending ==
  ASSUME NEW S, NEW s \in Seq(S), NEW x \in S
  PROVE  Append(s, x) \in Seq(S) /\ Range(Append(s, x)) = Range(s) \cup {x}
  <1>1. /\ Append(s, x) \in Seq(S) /\ Len(s) \in Nat
        /\ DOMAIN s = 1 .. Len(s) /\ DOMAIN Append(s, x) = 1 .. (Len(s) + 1)
        /\ \A i \in 1 .. Len(s) : Append(s, x)[i] = s[i]
        /\ Append(s, x)[Len(s) + 1] = x
    OBVIOUS
  <1>2. \A y : y \in Range(Append(s, x)) <=> \E i \in 1 .. (Len(s) + 1) : Append(s, x)[i] = y
    BY <1>1 DEF Range
  <1>3. \A y : y \in Range(s) <=> \E i \in 1 .. Len(s) : s[i] = y
    BY <1>1 DEF Range
  <1>4. \A i \in 1 .. (Len(s) + 1) : i \in 1 .. Len(s) \/ i = Len(s) + 1
    BY <1>1
  <1> QED BY <1>1, <1>2, <1>3, <1>4

LEMMA Shortening ==
  ASSUME NEW S, NEW s \in Seq(S), s # <<>>
  PROVE  Tail(s) \in Seq(S) /\ Range(Tail(s)) \subseteq Range(s) /\ Head(s) \in Range(s) /\ Range(s) \subseteq S
  <1>1. /\ Tail(s) \in Seq(S) /\ Len(s) \in Nat /\ Len(s) >= 1
        /\ DOMAIN s = 1 .. Len(s) /\ DOMAIN Tail(s) = 1 .. (Len(s) - 1)
        /\ \A i \in 1 .. (Len(s) - 1) : Tail(s)[i] = s[i + 1]
        /\ Head(s) = s[1] /\ \A i \in 1 .. Len(s) : s[i] \in S
    OBVIOUS
  <1>2. \A y : y \in Range(Tail(s)) <=> \E i \in 1 .. (Len(s) - 1) : Tail(s)[i] = y
    BY <1>1 DEF Range
  <1>3. \A y : y \in Range(s) <=> \E i \in 1 .. Len(s) : s[i] = y
    BY <1>1 DEF Range
  <1>4. \A i \in 1 .. (Len(s) - 1) : i + 1 \in 1 .. Len(s)
    BY <1>1
  <1> QED BY <1>1, <1>2, <1>3, <1>4

(* Completing a receipt completes no other. *)
LEMMA CompleteOne ==
  ASSUME Shape, NEW r, Complete(r)
  PROVE  \A s \in Ids : receipts'[s] = "completed" => s = r \/ receipts[s] = "completed"
  BY DEF Complete, Shape

(* No process is started and nothing is written. *)
LEMMA GotKept ==
  ASSUME GotInv, UNCHANGED <<writes, written, child>>, working' \subseteq working,
         \A l \in Range(lines') : l \in Range(lines) \/ (l.kind = "response" => l.id \in Calls /\ Got(l.id)),
         output' = "record" => lines' # <<>> /\ Head(lines').kind = "response",
         inFlight' \subseteq Calls \cup Notes,
         \A r \in inFlight' : (r \in inFlight /\ (Writing(r) => Writing(r)')) \/ Writing(r)',
         job'.step = "complete" => job'.id \in Ids /\ Got(job'.id),
         \A r \in Calls \cup Notes : receipts'[r] = "completed" => Got(r),
         \A r \in events' : r \in Calls /\ Got(r)
  PROVE  GotInv'
  BY DEF GotInv, Got

LEMMA GotWritten == ASSUME GotInv, OnceInv, AskerInv, Write PROVE GotInv'
  <1>1. /\ Writing(job.id) /\ job.id \in Ids /\ child \in Nat
        /\ written' = written \cup {<<job.id, child>>} /\ working' = working \cup {job.id}
        /\ writes' = [writes EXCEPT ![job.id] = @ + 1]
        /\ (job' = NoJob \/ job' = [job EXCEPT !.step = "complete"])
        /\ UNCHANGED <<lines, output, child, receipts, events, inFlight>>
    BY DEF Write, Written, Writing, outputVars, memoryVars, ledgerVars, OnceInv, Shape, AskerInv, AskerShape
  <1>2. writes'[job.id] > 0 /\ \A r \in Ids : writes[r] > 0 => writes'[r] > 0
    BY <1>1 DEF OnceInv, Shape
  <1>3. Calls \cup Notes \subseteq Ids /\ written \subseteq Ids \X Nat
    BY DEF Ids, AskerInv, AskerShape
  <1>4. \A p \in written' : writes'[p[1]] > 0 /\ p[2] <= child'
    BY <1>1, <1>2, <1>3 DEF GotInv, Got
  <1>5. \A r \in inFlight' : <<r, child'>> \in written'
    BY <1>1 DEF GotInv, Writing
  <1>6. job'.step = "complete" => job'.id = job.id
    BY <1>1 DEF OnceInv, Shape, NoJob
  <1> QED BY <1>1, <1>2, <1>3, <1>4, <1>5, <1>6 DEF GotInv, Got

LEMMA GotRestarted == ASSUME GotInv, AskerInv, Start PROVE GotInv'
  <1>1. child \in Nat /\ written \subseteq Ids \X Nat
    BY DEF AskerInv, AskerShape
  <1>2. child' = child + 1 /\ inFlight' = {} /\ lines' = <<>> /\ output' = "idle" /\ job' = NoJob
        /\ working' = {} /\ UNCHANGED <<written, writes, receipts, events>>
    BY DEF Start, ledgerVars
  <1>3. Range(lines') = {} /\ job'.step # "complete"
    BY <1>2 DEF Range, NoJob
  <1>4. \A p \in written : p[2] <= child'
    BY <1>1, <1>2 DEF GotInv
  <1> QED BY <1>2, <1>3, <1>4 DEF GotInv, Got

LEMMA GotInit == Init => GotInv
  <1> SUFFICES ASSUME Init PROVE GotInv
    OBVIOUS
  <1>1. Range(lines) = {}
    BY DEF Init, Range
  <1>2. job.step = "none" /\ output = "idle"
    BY DEF Init, NoJob
  <1>3. written = {} /\ working = {} /\ inFlight = {} /\ events = {}
    BY DEF Init
  <1>4. \A r \in Calls \cup Notes : receipts[r] = "none"
    BY DEF Init, Ids
  <1> QED BY <1>1, <1>2, <1>3, <1>4 DEF GotInv

LEMMA GotNext == GotInv /\ OnceInv /\ AskerInv /\ [Next]_vars => GotInv'
  <1> SUFFICES ASSUME GotInv, OnceInv, AskerInv, [Next]_vars PROVE GotInv'
    OBVIOUS
  <1> USE DEF ledgerVars, memoryVars, outputVars, codexVars, laneVars
  <1>0. /\ Calls \cup Notes \subseteq Ids /\ Asks \cap (Calls \cup Notes) = {} /\ Scoped \subseteq Asks
        /\ lines \in Seq(Lines)
        /\ job = [id |-> job.id, via |-> job.via, step |-> job.step]
        /\ receipts \in [Ids -> {"none", "accepted", "completed"}]
    BY KindsAssumption DEF Ids, Asks, Calls, AskerInv, AskerShape, OnceInv, Shape
  <1>j. (job' = job \/ job' = [job EXCEPT !.via = "closed"]) =>
          job'.step = job.step /\ job'.id = job.id /\ \A r : Writing(r)' <=> Writing(r)
    BY <1>0 DEF Writing
  <1>n. job' = NoJob => job'.step = "none"
    BY DEF NoJob
  <1>1. ASSUME NEW f, HandleResume(f) \/ HandleInFlight(f) \/ Reject(f) PROVE GotInv'
    BY <1>1, <1>j, GotKept DEF HandleResume, HandleInFlight, Reject, GotInv
  <1>2. ASSUME NEW f, HandleStaleReply(f) PROVE GotInv'
    <2>1. \A r \in Calls \cup Notes : receipts'[r] = receipts[r]
      BY <1>0, <1>2 DEF HandleStaleReply, FromEarlierChild
    <2> QED BY <1>2, <1>j, <2>1, GotKept DEF HandleStaleReply, GotInv
  <1>3. ASSUME NEW f, HandleCompleted(f) PROVE GotInv'
    BY <1>3, <1>j, GotKept DEF HandleCompleted, GotInv, Calls
  <1>4. ASSUME NEW f, Accept(f) PROVE GotInv'
    <2>1. f.id \in Ids /\ receipts' = [receipts EXCEPT ![f.id] = "accepted"]
          /\ inFlight' = inFlight \cup ({f.id} \ Asks) /\ job = NoJob
          /\ job' = [id |-> f.id, via |-> f.via, step |-> "write"]
          /\ UNCHANGED <<events, lines, output, working, written, writes, child>>
      BY <1>4 DEF Accept, Accepting, NextFrame
    <2>2. Writing(f.id)' /\ job'.step = "write" /\ \A r : ~Writing(r)
      BY <2>1 DEF Writing, NoJob
    <2>3. \A r \in Calls \cup Notes : receipts'[r] = "completed" => receipts[r] = "completed"
      BY <1>0, <2>1
    <2>4. {f.id} \ Asks \subseteq Calls \cup Notes
      BY <2>1 DEF Ids
    <2> QED BY <2>1, <2>2, <2>3, <2>4, GotKept DEF GotInv
  <1>5. ASSUME NEW f, AcceptAgain(f) PROVE GotInv'
    <2>1. job = NoJob /\ job' = [id |-> f.id, via |-> f.via, step |-> "write"]
          /\ UNCHANGED <<receipts, inFlight, events, lines, output, working, written, writes, child>>
      BY <1>5 DEF AcceptAgain, Accepting, NextFrame
    <2>2. job'.step = "write" /\ \A r : ~Writing(r)
      BY <2>1 DEF Writing, NoJob
    <2> QED BY <2>1, <2>2, GotKept DEF GotInv
  <1>6. CASE Write
    BY <1>6, GotWritten
  <1>7. CASE WriteFails
    <2>1. \A r \in inFlight' : r \in inFlight /\ ~Writing(r)
      BY <1>7 DEF WriteFails, Writing
    <2> QED BY <1>7, <1>n, <2>1, GotKept DEF WriteFails, GotInv
  <1>8. CASE CompleteJob
    <2>1. \A r \in Calls \cup Notes : receipts'[r] = "completed" => Got(r)
      BY <1>0, <1>8, CompleteOne DEF CompleteJob, GotInv, OnceInv
    <2>2. \A r : ~Writing(r)
      BY <1>8 DEF CompleteJob, Writing
    <2> QED BY <1>8, <1>n, <2>1, <2>2, GotKept DEF CompleteJob, GotInv
  <1>9. CASE HandleResponse
    <2>1. lines # <<>> /\ Head(lines).kind = "response"
      BY <1>9 DEF HandleResponse, Line
    <2>2. Got(Head(lines).id)
      BY <1>0, <2>1, Shortening DEF GotInv
    <2>3. \A r \in Calls \cup Notes : receipts'[r] = "completed" => Got(r)
      BY <1>0, <1>9, <2>2, CompleteOne DEF HandleResponse, GotInv, OnceInv
    <2> QED BY <1>9, <1>j, <2>1, <2>3, GotKept DEF HandleResponse, GotInv
  <1>10. CASE RecordResponse
    <2>1. lines # <<>> /\ Head(lines).kind = "response"
      BY <1>10 DEF RecordResponse, GotInv
    <2>2. /\ Head(lines).id \in Calls /\ Got(Head(lines).id)
          /\ Range(Tail(lines)) \subseteq Range(lines)
      BY <1>0, <2>1, Shortening DEF GotInv
    <2> QED BY <1>10, <1>j, <2>2, GotKept DEF RecordResponse, GotInv
  <1>11. CASE HandleRequest \/ HandleProgress
    BY <1>11, <1>j, GotKept DEF HandleRequest, HandleProgress, GotInv
  <1>12. ASSUME NEW q \in Scoped, Confirm(q) PROVE GotInv'
    <2>1. \A r \in Calls \cup Notes : receipts'[r] = "completed" => Got(r)
      BY <1>0, <1>12, CompleteOne DEF Confirm, GotInv, OnceInv
    <2> QED BY <1>12, <1>j, <2>1, GotKept DEF Confirm, GotInv
  <1>13. CASE Confirmed
    <2>1. lines # <<>>
      BY <1>13 DEF Confirmed, AskerInv, AskerShape
    <2>2. Range(Tail(lines)) \subseteq Range(lines)
      BY <1>0, <2>1, Shortening
    <2> QED BY <1>13, <1>j, <2>2, GotKept DEF Confirmed, GotInv
  <1>14. ASSUME NEW kind \in {"response", "progress", "request"}, NEW r \in Ids \cup {Resume}, Emit(kind, r),
                kind = "response" => r \in Calls /\ Got(r), working' \subseteq working,
                UNCHANGED <<job, inFlight, receipts, events, output, written, writes, child>>, output # "record" \/ lines # <<>>
         PROVE  GotInv'
    <2> DEFINE line == [kind |-> kind, id |-> r]
    <2>1. line \in Lines /\ line.kind = kind /\ line.id = r /\ lines' = Append(lines, line)
      BY <1>14 DEF Lines, Emit
    <2> HIDE DEF line
    <2>2. Range(lines') = Range(lines) \cup {line}
      BY <1>0, <2>1, Appending
    <2>3. output = "record" => lines' # <<>> /\ Head(lines').kind = "response"
      <3>1. lines # <<>> => lines' # <<>> /\ Head(lines') = Head(lines)
        BY <1>0, <2>1
      <3> QED BY <3>1 DEF GotInv
    <2> QED BY <1>14, <1>j, <2>1, <2>2, <2>3, GotKept DEF GotInv
  <1>r. output # "record" \/ lines # <<>>
    BY DEF GotInv
  <1>15. ASSUME NEW r \in Calls, Respond(r) PROVE GotInv'
    BY <1>0, <1>14, <1>15, <1>r DEF Respond, GotInv
  <1>16. ASSUME NEW q \in Scoped, GoOn(q) PROVE GotInv'
    <2>1. q \in Ids
      BY DEF Ids, Asks
    <2> QED BY <1>14, <1>16, <1>r, <2>1 DEF GoOn
  <1>17. ASSUME NEW q \in Asks, Ask(q) PROVE GotInv'
    <2>1. q \in Ids
      BY DEF Ids
    <2> QED BY <1>14, <1>17, <1>r, <2>1 DEF Ask
  <1>18. CASE Chatter
    BY <1>14, <1>18, <1>r DEF Chatter
  <1>19. CASE Start
    BY <1>19, GotRestarted
  <1>20. CASE Exit \/ Connect \/ Drop \/ ReceiveReady \/ ReceiveUnexpected
    BY <1>20, <1>j, GotKept DEF Exit, Connect, Drop, ReceiveReady, ReceiveUnexpected, Break, GotInv
  <1>21. ASSUME NEW r, ReceiveAccepted(r) \/ ReceiveRejected(r) \/ Submit(r) \/ Reply(r) \/ Acknowledge(r) PROVE GotInv'
    BY <1>21, <1>j, GotKept DEF ReceiveAccepted, ReceiveRejected, Submit, Reply, Acknowledge, GotInv
  <1>22. ASSUME NEW r, Deliver(r) \/ Recover(r) PROVE GotInv'
    BY <1>22, <1>j, GotKept DEF Deliver, Recover, GotInv
  <1>23. CASE UNCHANGED vars
    BY <1>23, <1>j, GotKept DEF vars, GotInv
  <1> QED
    BY <1>1, <1>2, <1>3, <1>4, <1>5, <1>6, <1>7, <1>8, <1>9, <1>10, <1>11, <1>12, <1>13,
       <1>15, <1>16, <1>17, <1>18, <1>19, <1>20, <1>21, <1>22, <1>23
    DEF Next, ClientLane, OutputLane, Codex, Receive, Router

-----------------------------------------------------------------------------
(* What callers are told, and what is under way to them.  The last part of *)
(* CallInv is why a rejection is true: a creation that the running process *)
(* got, or is getting, stays in inFlight until its receipt is completed.   *)

Outcomes == {"idle", "sent", "accepted", "answered", "rejected", "failed"}

Foreign(r) == receipts[r] # "none" /\ <<r, child>> \notin written /\ ~Writing(r)

Truthful(m) ==
    /\ m.type = "accepted" /\ m.id \in Calls \cup Notes => Got(m.id)
    /\ m.type = "rejected" /\ m.id \in Turns => Foreign(m.id)

IsHeld(r) == (Writing(r) \/ <<r, child>> \in written) /\ receipts[r] = "accepted"

CallInv ==
    /\ inbox \in Seq(Frames)
    /\ \A m \in Range(inbox) : Truthful(m)
    /\ calls \in [Calls \cup Notes -> Outcomes]
    /\ \A r \in Calls \cup Notes : calls[r] \in {"accepted", "answered"} => Got(r)
    /\ \A r \in Turns : calls[r] = "rejected" => Foreign(r)
    /\ \A r \in Turns : IsHeld(r) => r \in inFlight

(* What was true stays true, and what is new is true. *)
LEMMA CallKept ==
  ASSUME CallInv,
         \A r \in Calls \cup Notes : Got(r) => Got(r)',
         \A r \in Turns : Foreign(r) => Foreign(r)',
         inbox' \in Seq(Frames), \A m \in Range(inbox') : m \in Range(inbox) \/ Truthful(m)',
         calls' \in [Calls \cup Notes -> Outcomes],
         \A r \in Calls \cup Notes :
           calls'[r] \in {"accepted", "answered"} => calls[r] = calls'[r] \/ Got(r)',
         \A r \in Turns : calls'[r] = "rejected" => calls[r] = "rejected" \/ Foreign(r)',
         \A r \in Turns : IsHeld(r)' => r \in inFlight'
  PROVE  CallInv'
  <1>1. \A m \in Range(inbox') : Truthful(m)'
    BY DEF CallInv, Truthful
  <1>2. \A r \in Calls \cup Notes : calls'[r] \in {"accepted", "answered"} => Got(r)'
    BY DEF CallInv
  <1>3. \A r \in Turns : calls'[r] = "rejected" => Foreign(r)'
    BY DEF CallInv
  <1> QED BY <1>1, <1>2, <1>3 DEF CallInv

(* Nothing is written and no process is started. *)
LEMMA CallSteady ==
  ASSUME CallInv, UNCHANGED <<written, writes, child>>,
         \A r \in Turns : Writing(r)' => Writing(r),
         \A r \in Turns : receipts'[r] = receipts[r] \/ receipts'[r] = "completed",
         \A r \in Turns : r \in inFlight /\ IsHeld(r)' => r \in inFlight',
         inbox' \in Seq(Frames), \A m \in Range(inbox') : m \in Range(inbox) \/ Truthful(m)',
         calls' \in [Calls \cup Notes -> Outcomes],
         \A r \in Calls \cup Notes :
           calls'[r] \in {"accepted", "answered"} => calls[r] = calls'[r] \/ Got(r),
         \A r \in Turns : calls'[r] = "rejected" => calls[r] = "rejected" \/ Foreign(r)
  PROVE  CallInv'
  <1>1. \A r : Got(r) => Got(r)'
    BY DEF Got
  <1>2. \A r \in Turns : Foreign(r) => Foreign(r)'
    BY DEF Foreign
  <1>3. \A r \in Turns : IsHeld(r)' => IsHeld(r)
    BY DEF IsHeld
  <1>4. \A r \in Turns : IsHeld(r)' => r \in inFlight'
    BY <1>3 DEF CallInv
  <1> QED BY <1>1, <1>2, <1>4, CallKept, TurnsAreIds DEF Calls

(* A frame for the client arrives behind the others, or not at all. *)
LEMMA Told ==
  ASSUME CallInv, NEW via, NEW type \in {"ready", "accepted", "rejected"}, NEW r \in Ids \cup {Resume},
         Tell(via, type, r)
  PROVE  /\ inbox' \in Seq(Frames)
         /\ \A m \in Range(inbox') : m \in Range(inbox) \/ (m.type = type /\ m.id = r)
  <1> DEFINE frame == [type |-> type, id |-> r]
  <1>1. frame \in Frames /\ frame.type = type /\ frame.id = r
        /\ (inbox' = inbox \/ inbox' = Append(inbox, frame))
    BY DEF Frames, Tell
  <1> HIDE DEF frame
  <1>2. inbox' = Append(inbox, frame) => inbox' \in Seq(Frames) /\ Range(inbox') = Range(inbox) \cup {frame}
    BY <1>1, Appending DEF CallInv
  <1> QED BY <1>1, <1>2 DEF CallInv

(* Compaction spares the receipts of creations. *)
LEMMA CompleteTurns ==
  ASSUME Shape, NEW r, Complete(r)
  PROVE  \A t \in Turns : receipts'[t] = IF t = r THEN "completed" ELSE receipts[t]
  <1> DEFINE completed == [receipts EXCEPT ![r] = "completed"]
  <1>1. PICK gone \in SUBSET Evictable(completed) :
          receipts' = [s \in Ids |-> IF s \in gone THEN "none" ELSE completed[s]]
    BY DEF Complete
  <1>2. \A t \in Turns : t \in Ids /\ t \notin gone
    BY TurnsAreIds DEF Evictable
  <1> QED BY <1>1, <1>2 DEF Shape

LEMMA CallAccepted == ASSUME CallInv, OnceInv, NEW f, Accept(f) PROVE CallInv'
  <1>1. /\ f.id \in Ids /\ receipts[f.id] = "none" /\ job = NoJob
        /\ receipts' = [receipts EXCEPT ![f.id] = "accepted"]
        /\ inFlight' = inFlight \cup ({f.id} \ Asks)
        /\ job' = [id |-> f.id, via |-> f.via, step |-> "write"]
        /\ UNCHANGED <<written, writes, child, inbox, calls>>
    BY DEF Accept, Accepting, NextFrame, codexVars, linkVars, clientVars
  <1>2. \A r : (Writing(r)' <=> r = f.id) /\ ~Writing(r)
    BY <1>1 DEF Writing, NoJob
  <1>3. \A r \in Ids \ {f.id} : receipts'[r] = receipts[r]
    BY <1>1 DEF OnceInv, Shape
  <1>4. \A r \in Turns : Foreign(r) => Foreign(r)'
    BY <1>1, <1>2, <1>3, TurnsAreIds DEF Foreign
  <1>5. \A r \in Turns : IsHeld(r)' => r \in inFlight'
    <2>1. \A r \in Turns \ {f.id} : IsHeld(r)' => IsHeld(r)
      BY <1>1, <1>2, <1>3, TurnsAreIds DEF IsHeld
    <2> QED BY <1>1, <2>1, TurnsAreIds DEF CallInv
  <1> QED BY <1>1, <1>4, <1>5, CallKept DEF CallInv, Got

LEMMA CallWritten == ASSUME CallInv, OnceInv, Write PROVE CallInv'
  <1>1. /\ Writing(job.id) /\ job.id \in Ids
        /\ written' = written \cup {<<job.id, child>>}
        /\ writes' = [writes EXCEPT ![job.id] = @ + 1]
        /\ (job' = NoJob \/ job' = [job EXCEPT !.step = "complete"])
        /\ UNCHANGED <<child, receipts, inFlight, calls>>
    BY DEF Write, Written, Writing, memoryVars, ledgerVars, clientVars, OnceInv, Shape
  <1>2. writes'[job.id] > 0 /\ \A r \in Ids : writes[r] > 0 => writes'[r] > 0
    BY <1>1 DEF OnceInv, Shape
  <1>3. \A r : ~Writing(r)'
    BY <1>1 DEF OnceInv, Shape, NoJob, Writing
  <1>4. \A r \in Calls \cup Notes : Got(r) => Got(r)'
    BY <1>2 DEF Got, Ids
  <1>5. \A r \in Turns : Foreign(r) => Foreign(r)'
    BY <1>1, <1>3 DEF Foreign
  <1>6. \A r \in Turns : IsHeld(r)' => r \in inFlight'
    <2>1. \A r \in Turns : IsHeld(r)' => IsHeld(r)
      BY <1>1, <1>3 DEF IsHeld
    <2> QED BY <1>1, <2>1 DEF CallInv
  <1>7. inbox' \in Seq(Frames) /\ \A m \in Range(inbox') : m \in Range(inbox) \/ (m.type = "accepted" /\ m.id = job.id)
    BY <1>1, Told DEF Write, linkVars, CallInv
  <1>8. \A m : m.type = "accepted" /\ m.id = job.id => Truthful(m)'
    BY <1>2 DEF Truthful, Got
  <1> QED BY <1>1, <1>4, <1>5, <1>6, <1>7, <1>8, CallKept DEF CallInv

(* A new process got nothing yet, so what was foreign stays so. *)
LEMMA CallRestarted == ASSUME CallInv, GotInv, AskerInv, Start PROVE CallInv'
  <1>1. /\ child \in Nat /\ child' = child + 1 /\ inFlight' = {} /\ job' = NoJob /\ inbox' = <<>>
        /\ UNCHANGED <<written, writes, receipts>>
    BY DEF Start, ledgerVars, AskerInv, AskerShape
  <1>2. \A r : <<r, child'>> \notin written'
    BY <1>1 DEF GotInv
  <1>3. \A r : ~Writing(r)'
    BY <1>1 DEF Writing, NoJob
  <1>4. \A r \in Turns : (Foreign(r) => Foreign(r)') /\ ~IsHeld(r)'
    BY <1>1, <1>2, <1>3 DEF Foreign, IsHeld
  <1>5. inbox' \in Seq(Frames) /\ Range(inbox') = {}
    BY <1>1 DEF Range
  <1>6. /\ calls' \in [Calls \cup Notes -> Outcomes]
        /\ \A r \in Calls \cup Notes : calls'[r] = calls[r] \/ calls'[r] = "failed"
    BY DEF Start, CallInv, Outcomes
  <1> QED BY <1>1, <1>4, <1>5, <1>6, CallKept, TurnsAreIds DEF CallInv, Got, Calls

LEMMA CallInit == Init => CallInv
  <1> SUFFICES ASSUME Init PROVE CallInv
    OBVIOUS
  <1>1. inbox \in Seq(Frames) /\ Range(inbox) = {}
    BY DEF Init, Range
  <1>2. calls = [r \in Calls \cup Notes |-> "idle"]
    BY DEF Init
  <1>3. \A r \in Turns : ~IsHeld(r)
    BY TurnsAreIds DEF Init, IsHeld
  <1> QED BY <1>1, <1>2, <1>3 DEF CallInv, Outcomes, Calls


LEMMA CallNext == CallInv /\ GotInv /\ OnceInv /\ AskerInv /\ [Next]_vars => CallInv'
  <1> SUFFICES ASSUME CallInv, GotInv, OnceInv, AskerInv, [Next]_vars PROVE CallInv'
    OBVIOUS
  <1> USE DEF ledgerVars, memoryVars, outputVars, codexVars, laneVars, linkVars, clientVars
  <1>0. /\ Turns \subseteq Calls /\ Turns \subseteq Ids /\ Calls \cup Notes \subseteq Ids
        /\ Asks \cap (Calls \cup Notes) = {} /\ Scoped \subseteq Asks /\ Asks \subseteq Ids
        /\ Resume \notin Ids
        /\ job = [id |-> job.id, via |-> job.via, step |-> job.step]
        /\ receipts \in [Ids -> {"none", "accepted", "completed"}]
        /\ lines \in Seq(Lines) /\ inbox \in Seq(Frames)
        /\ calls \in [Calls \cup Notes -> Outcomes]
    BY KindsAssumption, IdsAssumption
    DEF Ids, Asks, Calls, Resume, AskerInv, AskerShape, OnceInv, Shape, CallInv
  <1>j. (job' = job \/ job' = [job EXCEPT !.via = "closed"]) => \A r : Writing(r)' <=> Writing(r)
    BY <1>0 DEF Writing
  <1>n. job' = NoJob => \A r : ~Writing(r)'
    BY DEF NoJob, Writing
  <1>e. <<>> \in Seq(Frames) /\ Range(<<>>) = {}
    BY DEF Range
  <1>t. inbox # <<>> => /\ Tail(inbox) \in Seq(Frames) /\ Range(Tail(inbox)) \subseteq Range(inbox)
                         /\ Truthful(Head(inbox)) /\ Head(inbox) \in Frames
    BY <1>0, Shortening DEF CallInv
  <1>1. ASSUME NEW f, HandleResume(f) PROVE CallInv'
    <2>1. /\ inbox' \in Seq(Frames)
          /\ \A m \in Range(inbox') : m \in Range(inbox) \/ (m.type = "ready" /\ m.id = Resume)
      BY <1>1, Told DEF HandleResume
    <2>2. \A m : m.type = "ready" => Truthful(m)'
      BY DEF Truthful
    <2> QED BY <1>1, <1>0, <1>j, <2>1, <2>2, CallSteady DEF HandleResume
  <1>2. ASSUME NEW f, HandleStaleReply(f) PROVE CallInv'
    <2>1. f.id \in Asks /\ receipts' = [receipts EXCEPT ![f.id] = IF @ = "none" THEN "accepted" ELSE @]
      BY <1>2 DEF HandleStaleReply, FromEarlierChild
    <2>2. \A r \in Turns : receipts'[r] = receipts[r]
      BY <1>0, <2>1
    <2>3. /\ inbox' \in Seq(Frames)
          /\ \A m \in Range(inbox') : m \in Range(inbox) \/ (m.type = "accepted" /\ m.id = f.id)
      <3>1. Tell(f.via, "accepted", f.id) /\ f.id \in Ids
        BY <1>0, <1>2, <2>1 DEF HandleStaleReply
      <3> QED BY <3>1, Told
    <2>4. \A m : m.type = "accepted" /\ m.id = f.id => Truthful(m)'
      BY <1>0, <2>1 DEF Truthful
    <2> QED BY <1>2, <1>0, <1>j, <2>2, <2>3, <2>4, CallSteady DEF HandleStaleReply
  <1>3. ASSUME NEW f, HandleInFlight(f) PROVE CallInv'
    <2>1. f.id \in inFlight /\ f.id \in Ids /\ job = NoJob /\ UNCHANGED writes
      BY <1>3 DEF HandleInFlight, Accepting, NextFrame
    <2>2. \A r : ~Writing(r)
      BY <2>1 DEF NoJob, Writing
    <2>3. <<f.id, child>> \in written
      BY <2>1, <2>2 DEF GotInv
    <2>4. Got(f.id)
      BY <2>3 DEF GotInv
    <2>5. /\ inbox' \in Seq(Frames)
          /\ \A m \in Range(inbox') : m \in Range(inbox) \/ (m.type = "accepted" /\ m.id = f.id)
      BY <1>3, <2>1, Told DEF HandleInFlight
    <2>6. \A m : m.type = "accepted" /\ m.id = f.id => Truthful(m)'
      BY <2>1, <2>4 DEF Truthful, Got
    <2> QED BY <1>3, <1>0, <1>j, <2>5, <2>6, CallSteady DEF HandleInFlight
  <1>4. ASSUME NEW f, Reject(f) PROVE CallInv'
    <2>1. /\ f.id \in Ids /\ receipts[f.id] = "accepted" /\ f.id \notin inFlight
          /\ job = NoJob /\ UNCHANGED <<job, receipts, written, child>>
      BY <1>4 DEF Reject, Accepting, NextFrame
    <2>2. \A r : ~Writing(r) /\ ~Writing(r)'
      BY <2>1 DEF NoJob, Writing
    <2>3. f.id \in Turns => <<f.id, child>> \notin written
      BY <2>1 DEF CallInv, IsHeld
    <2>4. f.id \in Turns => Foreign(f.id)'
      BY <2>1, <2>2, <2>3 DEF Foreign
    <2>5. /\ inbox' \in Seq(Frames)
          /\ \A m \in Range(inbox') : m \in Range(inbox) \/ (m.type = "rejected" /\ m.id = f.id)
      BY <1>4, <2>1, Told DEF Reject
    <2>6. \A m : m.type = "rejected" /\ m.id = f.id => Truthful(m)'
      BY <2>4 DEF Truthful
    <2> QED BY <1>4, <1>0, <1>j, <2>5, <2>6, CallSteady DEF Reject
  <1>5. ASSUME NEW f, HandleCompleted(f) PROVE CallInv'
    <2>1. f.id \in Ids /\ receipts[f.id] = "completed" /\ UNCHANGED writes
      BY <1>5 DEF HandleCompleted, Accepting
    <2>2. f.id \in Calls \cup Notes => Got(f.id)
      BY <2>1 DEF GotInv
    <2>3. /\ inbox' \in Seq(Frames)
          /\ \A m \in Range(inbox') : m \in Range(inbox) \/ (m.type = "accepted" /\ m.id = f.id)
      BY <1>5, <2>1, Told DEF HandleCompleted
    <2>4. \A m : m.type = "accepted" /\ m.id = f.id => Truthful(m)'
      BY <2>1, <2>2 DEF Truthful, Got
    <2> QED BY <1>5, <1>0, <1>j, <2>3, <2>4, CallSteady DEF HandleCompleted
  <1>6. ASSUME NEW f, Accept(f) PROVE CallInv'
    BY <1>6, CallAccepted
  <1>7. ASSUME NEW f, AcceptAgain(f) PROVE CallInv'
    <2>1. f.id \in Asks /\ job' = [id |-> f.id, via |-> f.via, step |-> "write"]
      BY <1>7 DEF AcceptAgain
    <2>2. \A r \in Turns : ~Writing(r)'
      BY <1>0, <2>1 DEF Writing
    <2> QED BY <1>7, <1>0, <2>2, CallSteady DEF AcceptAgain
  <1>8. CASE Write
    BY <1>8, CallWritten
  <1>9. CASE WriteFails
    <2>1. /\ Writing(job.id) /\ job' = NoJob /\ inFlight' = inFlight \ {job.id}
          /\ UNCHANGED <<written, writes, child, receipts, calls>>
          /\ (inbox' = <<>> \/ inbox' = inbox)
      BY <1>9 DEF WriteFails, Writing
    <2>2. \A r \in Turns : Writing(r) => <<r, child>> \notin written
      BY DEF OnceInv, WritingIsFirst, GotInv, Got
    <2>3. \A r \in Turns : IsHeld(r)' => r \in inFlight'
      <3>1. \A r \in Turns : IsHeld(r)' => IsHeld(r) /\ ~Writing(r)
        BY <1>n, <2>1, <2>2 DEF IsHeld
      <3>2. \A r \in Turns : r # job.id \/ Writing(r)
        BY <2>1 DEF Writing
      <3> QED BY <2>1, <3>1, <3>2 DEF CallInv
    <2>4. \A r \in Turns : Foreign(r) => Foreign(r)'
      BY <1>n, <2>1 DEF Foreign
    <2> QED BY <1>0, <1>e, <2>1, <2>3, <2>4, CallKept DEF CallInv, Got
  <1>10. CASE CompleteJob
    <2>1. /\ job.step = "complete" /\ job.id \in Ids /\ Got(job.id) /\ UNCHANGED writes
          /\ inFlight' = inFlight \ {job.id}
      BY <1>10 DEF CompleteJob, GotInv
    <2>2. \A t \in Turns : receipts'[t] = IF t = job.id THEN "completed" ELSE receipts[t]
      BY <1>10, CompleteTurns DEF CompleteJob, OnceInv
    <2>3. /\ inbox' \in Seq(Frames)
          /\ \A m \in Range(inbox') : m \in Range(inbox) \/ (m.type = "accepted" /\ m.id = job.id)
      BY <1>10, <2>1, Told DEF CompleteJob
    <2>4. \A m : m.type = "accepted" /\ m.id = job.id => Truthful(m)'
      BY <2>1 DEF Truthful, Got
    <2>5. \A r \in Turns : r \in inFlight /\ IsHeld(r)' => r \in inFlight'
      BY <2>1, <2>2 DEF IsHeld
    <2>6. \A r \in Turns : receipts'[r] = receipts[r] \/ receipts'[r] = "completed"
      BY <2>2
    <2> QED BY <1>10, <1>0, <1>n, <2>3, <2>4, <2>5, <2>6, CallSteady DEF CompleteJob
  <1>11. CASE HandleResponse
    <2> DEFINE r0 == Head(lines).id
    <2>1. Complete(r0) /\ inFlight' = inFlight \ {r0} /\ UNCHANGED <<inbox, calls, job, written, writes, child>>
      BY <1>11 DEF HandleResponse
    <2> HIDE DEF r0
    <2>2. \A t \in Turns : receipts'[t] = IF t = r0 THEN "completed" ELSE receipts[t]
      BY <2>1, CompleteTurns DEF OnceInv
    <2>3. \A r \in Turns : r \in inFlight /\ IsHeld(r)' => r \in inFlight'
      BY <2>1, <2>2 DEF IsHeld
    <2>4. \A r \in Turns : receipts'[r] = receipts[r] \/ receipts'[r] = "completed"
      BY <2>2
    <2> QED BY <1>0, <1>j, <2>1, <2>3, <2>4, CallSteady
  <1>12. ASSUME NEW q \in Scoped, Confirm(q) PROVE CallInv'
    <2>1. q \in Asks /\ q \in Ids
      BY <1>0
    <2>2. \A t \in Turns : receipts'[t] = receipts[t]
      BY <1>0, <1>12, <2>1, CompleteTurns DEF Confirm, OnceInv
    <2>3. /\ inbox' \in Seq(Frames)
          /\ \A m \in Range(inbox') : m \in Range(inbox) \/ (m.type = "accepted" /\ m.id = q)
      BY <1>12, <2>1, Told DEF Confirm
    <2>4. \A m : m.type = "accepted" /\ m.id = q => Truthful(m)'
      BY <1>0, <2>1 DEF Truthful
    <2> QED BY <1>12, <1>0, <1>j, <2>2, <2>3, <2>4, CallSteady DEF Confirm
  <1>13. CASE RecordResponse \/ HandleRequest \/ HandleProgress \/ Confirmed
    BY <1>13, <1>0, <1>j, CallSteady DEF RecordResponse, HandleRequest, HandleProgress, Confirmed
  <1>14. ASSUME NEW r, Respond(r) \/ GoOn(r) \/ Ask(r) PROVE CallInv'
    BY <1>14, <1>0, <1>j, CallSteady DEF Respond, GoOn, Ask
  <1>15. CASE Chatter \/ Connect
    BY <1>15, <1>0, <1>j, CallSteady DEF Chatter, Connect
  <1>16. CASE Exit \/ Drop \/ ReceiveUnexpected
    BY <1>16, <1>0, <1>e, <1>j, CallSteady DEF Exit, Drop, ReceiveUnexpected, Break
  <1>17. CASE Start
    BY <1>17, CallRestarted
  <1>18. CASE ReceiveReady
    BY <1>18, <1>0, <1>j, <1>t, CallSteady DEF ReceiveReady, FrameIn
  <1>19. ASSUME NEW r \in Ids, ReceiveAccepted(r) PROVE CallInv'
    <2>1. r \in Calls \cup Notes => Got(r)
      BY <1>19, <1>t DEF ReceiveAccepted, FrameIn, Truthful
    <2>2. /\ calls' \in [Calls \cup Notes -> Outcomes]
          /\ \A s \in Calls \cup Notes : calls'[s] = calls[s] \/ (s = r /\ calls'[s] = "accepted")
      BY <1>0, <1>19 DEF ReceiveAccepted, Resolved, Outcomes
    <2> QED BY <1>19, <1>0, <1>j, <1>t, <2>1, <2>2, CallSteady DEF ReceiveAccepted, FrameIn
  <1>20. ASSUME NEW r \in Ids, ReceiveRejected(r) PROVE CallInv'
    <2>1. r \in Turns => Foreign(r)
      BY <1>20, <1>t DEF ReceiveRejected, FrameIn, Truthful
    <2>2. /\ calls' \in [Calls \cup Notes -> Outcomes]
          /\ \A s \in Calls \cup Notes : calls'[s] = calls[s] \/ (s = r /\ calls'[s] = "rejected")
      BY <1>0, <1>20 DEF ReceiveRejected, Resolved, Outcomes
    <2> QED BY <1>20, <1>0, <1>j, <1>t, <2>1, <2>2, CallSteady DEF ReceiveRejected, FrameIn
  <1>21. ASSUME NEW r \in Calls \cup Notes, Submit(r) PROVE CallInv'
    <2>1. /\ calls' \in [Calls \cup Notes -> Outcomes]
          /\ \A s \in Calls \cup Notes : calls'[s] = calls[s] \/ calls'[s] = "sent"
      BY <1>0, <1>21 DEF Submit, Outcomes
    <2> QED BY <1>21, <1>0, <1>j, <2>1, CallSteady DEF Submit
  <1>22. ASSUME NEW r \in Calls, Deliver(r) \/ Recover(r) PROVE CallInv'
    <2>1. Got(r)
      BY <1>22 DEF Deliver, Recover, GotInv
    <2>2. /\ calls' \in [Calls \cup Notes -> Outcomes]
          /\ \A s \in Calls \cup Notes : calls'[s] = calls[s] \/ (s = r /\ calls'[s] = "answered")
      BY <1>0, <1>22 DEF Deliver, Recover, Outcomes
    <2> QED BY <1>22, <1>0, <1>j, <2>1, <2>2, CallSteady DEF Deliver, Recover
  <1>23. ASSUME NEW q, Reply(q) \/ Acknowledge(q) PROVE CallInv'
    BY <1>23, <1>0, <1>j, CallSteady DEF Reply, Acknowledge
  <1>24. CASE UNCHANGED vars
    BY <1>24, <1>0, <1>j, CallSteady DEF vars
  <1> QED
    BY <1>1, <1>2, <1>3, <1>4, <1>5, <1>6, <1>7, <1>8, <1>9, <1>10, <1>11, <1>12, <1>13,
       <1>14, <1>15, <1>16, <1>17, <1>18, <1>19, <1>20, <1>21, <1>22, <1>23, <1>24
    DEF Next, ClientLane, OutputLane, Codex, Receive, Router

(* Nobody is told that a request was accepted or answered which no Codex   *)
(* process got, and a creation is called uncertain only when the running   *)
(* process never got it, through any drops, restarts and compactions       *)
(* (acceptRequest).                                                        *)
THEOREM CallersHearTheTruth == Spec => []OutcomesAreTrue
  <1> DEFINE Inv == CallInv /\ GotInv /\ OnceInv /\ AskerInv
  <1>1. Init => Inv
    BY CallInit, GotInit, OnceInit, AskerInit
  <1>2. Inv /\ [Next]_vars => Inv'
    BY CallNext, GotNext, OnceNext, AskerNext
  <1>3. Inv => OutcomesAreTrue
    BY DEF CallInv, Foreign, OutcomesAreTrue, Got
  <1> QED BY <1>1, <1>2, <1>3, PTL DEF Spec

=============================================================================
