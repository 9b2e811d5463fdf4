----------------------- MODULE WeeklyTokenBudget_proofs -----------------------
(***************************************************************************)
(* For any budget, weeks, turns and tokens, and for any number of replays, *)
(* restarts, lost notifications and failed writes: a report is not          *)
(* acknowledged - and so never observed again - unless it was charged or    *)
(* the installation's ledger is blocked; and a week is charged for what its *)
(* reports say, once.  The first half needs what the observer leaves behind *)
(* it (Inv), the second what the cursor and the log say of each other       *)
(* (Books) and sums over the reports that were seen.  And while nothing   *)
(* goes wrong, only a completed turn that waited for its report blocks the  *)
(* ledger (QuietInv).                                                       *)
(***************************************************************************)
EXTENDS WeeklyTokenBudget, SequenceTheorems, FiniteSetTheorems, TLAPS

Starts == [kind : {"started"}, turn : Nat, at : Nat]
Ends == [kind : {"completed"}, turn : Nat, at : Nat,
         status : {"completed", "failed", "interrupted"}]
Reports == [kind : {"usage"}, turn : Nat, total : Nat, last : Nat, at : Nat, run : Nat]
Ledgers == [blocked : BOOLEAN, seen : SUBSET Nat, used : [Weeks -> Int], others : [Weeks -> Int],
            cursor : [known : BOOLEAN, total : Nat, at : Nat]]

Codexes == [turn : Nat, begun : Nat, total : Nat, owed : Nat, run : Nat]

Shape ==
    /\ ledger \in Ledgers
    /\ log \in Seq(Starts \union Ends \union Reports)
    /\ observed \in 0 .. Len(log)
    /\ acked \in 0 .. observed
    /\ step \in {"idle", "record", "mark", "dead"}
    /\ codex \in Codexes
    /\ now \in Nat

\* While the ledger is asked about it, the next notification is a report.
AtReport == step # "idle" => observed < Len(log) /\ log[observed + 1].kind = "usage"

\* What was observed may be acknowledged: it was charged, or the ledger blocked.
Settled(i) == log[i].kind = "usage" => i \in ledger.seen \/ ledger.blocked
Observed == \A i \in 1 .. observed : Settled(i)

Inv == Shape /\ AtReport /\ Observed

----------------------------------------------------------------------------
(* What the ledger's operators return.                                     *)

\* A ledger that lost no charge and no block.
Keeps(l, k) == /\ k \in Ledgers /\ l.seen \subseteq k.seen
               /\ l.blocked => k.blocked

LEMMA BlockedKeeps ==
  ASSUME NEW l \in Ledgers
  PROVE  Keeps(l, Blocked(l)) /\ Blocked(l).blocked
  BY DEF Keeps, Blocked, Ledgers

LEMMA DeltaIsInt ==
  ASSUME NEW c \in [known : BOOLEAN, total : Nat, at : Nat], NEW e \in Reports
  PROVE  Delta(c, e) \in Int
  BY DEF Delta, Reports

LEMMA ChargedKeeps ==
  ASSUME NEW l \in Ledgers, NEW i \in Nat, log[i] \in Reports
  PROVE  Keeps(l, Charged(l, i)) /\ i \in Charged(l, i).seen
  <1> DEFINE e == log[i]
             c == l.cursor
             n == l.used[Week(e.at)] + (IF Unlimited(e.at) THEN 0 ELSE Delta(c, e))
             cu == [known |-> TRUE, total |-> e.total, at |-> e.at]
             us == [l.used EXCEPT ![Week(e.at)] = n]
  <1>1. l.seen \union {i} \in SUBSET Nat
    BY DEF Ledgers
  <1>2. CASE i \in l.seen
    BY <1>2 DEF Charged, Keeps
  <1>3. CASE i \notin l.seen /\ ~Ahead(c, e)
    BY <1>1, <1>3 DEF Charged, Keeps, Ledgers
  <1>4. CASE i \notin l.seen /\ Ahead(c, e)
    <2>1. Charged(l, i) = [l EXCEPT !.seen = l.seen \union {i}, !.cursor = cu, !.used = us]
      BY <1>4 DEF Charged
    <2>2. cu \in [known : BOOLEAN, total : Nat, at : Nat]
      BY DEF Reports
    <2>3. us \in [Weeks -> Int]
      <3>1. c \in [known : BOOLEAN, total : Nat, at : Nat] /\ l.used \in [Weeks -> Int]
        BY DEF Ledgers
      <3>2. CASE Week(e.at) \in Weeks
        <4>1. l.used[Week(e.at)] \in Int /\ Delta(c, e) \in Int
          BY <3>1, <3>2, DeltaIsInt
        <4>2. n \in Int
          BY <4>1
        <4> HIDE DEF n
        <4> QED BY <3>1, <4>2
      <3>3. CASE Week(e.at) \notin Weeks
        <4> HIDE DEF n
        <4> QED BY <3>1, <3>3
      <3> QED BY <3>2, <3>3
    <2> HIDE DEF cu, us
    <2> QED BY <1>1, <2>1, <2>2, <2>3 DEF Keeps, Ledgers
  <1> QED BY <1>2, <1>3, <1>4

----------------------------------------------------------------------------
(* The steps that only move the ledger, or the log, keep the invariant.    *)

\* The ledger keeps what it has, and the observer stands still.
LEMMA LedgerMoves ==
  ASSUME Inv, Keeps(ledger, ledger'),
         UNCHANGED <<log, acked, observed, step>>, codex' = codex, now' = now
  PROVE  Inv'
  <1>1. Shape' /\ AtReport'
    BY DEF Inv, Shape, AtReport, Keeps
  <1>2. Observed'
    BY DEF Inv, Shape, Observed, Settled, Keeps
  <1> QED BY <1>1, <1>2 DEF Inv

\* The observer stands still, and something is recorded, or not.
LEMMA LogGrows ==
  ASSUME Inv, NEW e \in Starts \union Ends \union Reports, Record(e),
         codex' \in Codexes,
         UNCHANGED <<ledger, acked, observed, step, now>>
  PROVE  Inv'
  <1>1. /\ log' \in Seq(Starts \union Ends \union Reports)
        /\ Len(log') = Len(log) + 1
        /\ \A i \in 1 .. Len(log) : log'[i] = log[i]
    BY AppendProperties DEF Record, Inv, Shape
  <1>2. observed \in 0 .. Len(log) /\ Len(log) \in Nat
    BY LenProperties DEF Inv, Shape
  <1>3. Shape'
    BY <1>1, <1>2 DEF Inv, Shape
  <1>4. AtReport'
    <2>1. observed < Len(log) => log'[observed + 1] = log[observed + 1]
      BY <1>1, <1>2
    <2> QED BY <1>1, <1>2, <2>1 DEF Inv, AtReport
  <1>5. Observed'
    <2>1. \A i \in 1 .. observed : log'[i] = log[i]
      BY <1>1, <1>2
    <2> QED BY <2>1 DEF Inv, Observed, Settled
  <1> QED BY <1>3, <1>4, <1>5 DEF Inv

\* The observer stays at its notification, and the ledger keeps what it has.
LEMMA ObserverStays ==
  ASSUME Inv, Keeps(ledger, ledger'), UNCHANGED <<log, acked, observed, codex, now>>,
         step' \in {"idle", "record", "mark", "dead"},
         step' # "idle" => observed < Len(log) /\ log[observed + 1].kind = "usage"
  PROVE  Inv'
  BY DEF Inv, Shape, AtReport, Observed, Settled, Keeps

\* The observer goes on to the next one, and leaves this one settled.
LEMMA ObserverGoesOn ==
  ASSUME Inv, Keeps(ledger, ledger'), observed < Len(log), Advance, step' = "idle",
         UNCHANGED <<log, acked, codex, now>>,
         log[observed + 1].kind = "usage" => (observed + 1) \in ledger'.seen \/ ledger'.blocked
  PROVE  Inv'
  <1>1. observed \in 0 .. Len(log) /\ Len(log) \in Nat
    BY LenProperties DEF Inv, Shape
  <1>2. Shape' /\ AtReport'
    BY <1>1 DEF Inv, Shape, AtReport, Keeps, Advance
  <1>3. Observed'
    <2>1. \A i \in 1 .. observed' : i \in 1 .. observed \/ i = observed + 1
      BY <1>1 DEF Advance
    <2> QED BY <2>1 DEF Inv, Shape, Observed, Settled, Keeps
  <1> QED BY <1>2, <1>3 DEF Inv

----------------------------------------------------------------------------
(* The invariant.                                                          *)

LEMMA InitInv == Init => Inv
  <1> SUFFICES ASSUME Init PROVE Inv
    OBVIOUS
  <1>1. [w \in Weeks |-> 0] \in [Weeks -> Int]
    OBVIOUS
  <1>2. NoCursor \in [known : BOOLEAN, total : Nat, at : Nat]
        /\ [known |-> TRUE, total |-> 1, at |-> Activation] \in [known : BOOLEAN, total : Nat, at : Nat]
    BY DEF NoCursor, Activation
  <1>3. ledger \in Ledgers
    BY <1>1, <1>2 DEF Init, Ledgers
  <1>4. Earlier \in Reports
    BY DEF Earlier, Reports, NoTurn, Activation
  <1>5. log \in Seq(Starts \union Ends \union Reports) /\ acked = 0 /\ observed = 0 /\ step = "idle"
    <2>1. log = <<>> \/ log = <<Earlier>>
      BY DEF Init
    <2>2. <<>> \in Seq(Starts \union Ends \union Reports)
      OBVIOUS
    <2>3. <<Earlier>> \in Seq(Starts \union Ends \union Reports)
      BY <1>4
    <2> QED BY <2>1, <2>2, <2>3 DEF Init
  <1>6. codex \in Codexes /\ now \in Nat
    BY DEF Init, NewCodex, NoTurn, Activation, Codexes
  <1>7. observed \in 0 .. Len(log) /\ acked \in 0 .. observed
    BY <1>5, LenProperties
  <1> QED BY <1>3, <1>5, <1>6, <1>7 DEF Inv, Shape, AtReport, Observed

\* The notification the observer is at, if there is one.
LEMMA EventIsRecorded ==
  ASSUME Inv, observed < Len(log)
  PROVE  /\ Event \in Starts \union Ends \union Reports
         /\ Event.kind = "usage" => Event \in Reports
         /\ observed + 1 \in Nat
  <1>1. observed + 1 \in 1 .. Len(log)
    BY LenProperties DEF Inv, Shape
  <1>2. Event \in Starts \union Ends \union Reports
    BY <1>1, ElementOfSeq DEF Event, Inv, Shape
  <1> QED BY <1>1, <1>2 DEF Starts, Ends

\* What happens to the Codex process.
LEMMA CodexChanges ==
  ASSUME codex \in Codexes, NEW t \in Nat, NEW n \in Nat
  PROVE  /\ [codex EXCEPT !.turn = t] \in Codexes
         /\ [codex EXCEPT !.owed = n] \in Codexes
         /\ [codex EXCEPT !.turn = t, !.begun = t] \in Codexes
         /\ [codex EXCEPT !.total = @ + n, !.owed = n] \in Codexes
         /\ [codex EXCEPT !.turn = t, !.total = n, !.owed = n, !.run = @ + 1] \in Codexes
  <1>1. codex.total + n \in Nat /\ codex.run + 1 \in Nat
    BY DEF Codexes
  <1>2. [codex EXCEPT !.turn = t] \in Codexes /\ [codex EXCEPT !.owed = n] \in Codexes
    BY DEF Codexes
  <1>3. [codex EXCEPT !.turn = t, !.begun = t] \in Codexes
    BY DEF Codexes
  <1>4. [codex EXCEPT !.total = @ + n, !.owed = n] \in Codexes
    BY <1>1 DEF Codexes
  <1>5. [codex EXCEPT !.turn = t, !.total = n, !.owed = n, !.run = @ + 1] \in Codexes
    BY <1>1 DEF Codexes
  <1> QED BY <1>2, <1>3, <1>4, <1>5

LEMMA KeepsItself == Inv => Keeps(ledger, ledger)
  BY DEF Inv, Shape, Keeps

LEMMA NextInv == Inv /\ [Next]_vars => Inv'
  <1> SUFFICES ASSUME Inv, [Next]_vars PROVE Inv'
    OBVIOUS
  <1>0. Keeps(ledger, ledger) /\ ledger \in Ledgers
        /\ Keeps(ledger, Blocked(ledger)) /\ Blocked(ledger).blocked /\ Blocked(ledger) \in Ledgers
    BY KeepsItself, BlockedKeeps DEF Inv, Shape, Keeps
  <1>00. codex \in Codexes /\ now \in Nat
    BY DEF Inv, Shape
  <1>1. CASE Observe
    <2>1. observed < Len(log)
      BY <1>1 DEF Observe
    <2>2. CASE Event.kind = "usage"
      BY <1>0, <1>1, <2>1, <2>2, ObserverStays DEF Observe, Event, GoTo, external
    <2>3. CASE Event.kind # "usage"
      <3>1. step' = "idle" /\ Advance
        BY <1>1, <2>3 DEF Observe
      <3> QED BY <1>0, <1>1, <2>1, <2>3, <3>1, ObserverGoesOn DEF Observe, Event, external
    <2> QED BY <2>2, <2>3
  <1>2. CASE Account
    <2>1. observed < Len(log) /\ Event.kind = "usage"
      BY <1>2 DEF Account, Inv, AtReport, Event
    <2>2. log[observed + 1] \in Reports /\ observed + 1 \in Nat
      BY <2>1, EventIsRecorded DEF Event
    <2>3. ledger' = Charged(ledger, observed + 1)
      BY <1>2 DEF Account
    <2>4. Keeps(ledger, ledger') /\ (observed + 1) \in ledger'.seen
      BY <1>0, <2>2, <2>3, ChargedKeeps
    <2> QED BY <1>2, <2>1, <2>4, ObserverGoesOn DEF Account, GoTo, external
  <1>3. CASE AccountFails
    <2>1. observed < Len(log) /\ Event.kind = "usage"
      BY <1>3 DEF AccountFails, Inv, AtReport, Event
    <2>2. log[observed + 1] \in Reports /\ observed + 1 \in Nat
      BY <2>1, EventIsRecorded DEF Event
    <2>3. Keeps(ledger, Charged(ledger, observed + 1))
      BY <1>0, <2>2, ChargedKeeps
    <2>4. Keeps(ledger, Blocked(Charged(ledger, observed + 1)))
      BY <2>3, BlockedKeeps DEF Keeps
    <2>5. Keeps(ledger, Blocked(Blocked(ledger)))
      BY <1>0, BlockedKeeps DEF Keeps
    <2>6. ledger' \in {ledger, Blocked(ledger), Blocked(Blocked(ledger)),
                       Charged(ledger, observed + 1), Blocked(Charged(ledger, observed + 1))}
      BY <1>3 DEF AccountFails
    <2>7. Keeps(ledger, ledger')
      BY <1>0, <2>3, <2>4, <2>5, <2>6
    <2> QED BY <1>3, <2>1, <2>7, ObserverStays DEF AccountFails, Event, GoTo, external
  <1>4. CASE Mark
    <2>1. observed < Len(log) /\ log[observed + 1].kind = "usage"
      BY <1>4 DEF Mark, Inv, AtReport
    <2>2. Keeps(ledger, ledger')
      BY <1>0, <1>4 DEF Mark
    <2>3. CASE GoTo("dead")
      BY <1>4, <2>1, <2>2, <2>3, ObserverStays DEF Mark, GoTo, external
    <2>4. CASE ~GoTo("dead")
      <3>1. ledger' = Blocked(ledger) /\ Advance /\ step' = "idle"
        BY <1>4, <2>4 DEF Mark, GoTo
      <3> QED BY <1>0, <1>4, <2>1, <2>2, <3>1, ObserverGoesOn DEF Mark, external
    <2> QED BY <2>3, <2>4
  <1>5. CASE Acknowledge
    <2>1. acked' = acked + 1 /\ acked < observed
          /\ UNCHANGED <<ledger, observed, step, log, codex, now>>
      BY <1>5 DEF Acknowledge, external
    <2>2. observed \in Nat /\ acked \in Nat
      BY LenProperties DEF Inv, Shape
    <2> QED BY <2>1, <2>2 DEF Inv, Shape, AtReport, Observed, Settled
  <1>6. ASSUME NEW t \in Turns, Expire(t) PROVE Inv'
    <2>1. Keeps(ledger, ledger')
      BY <1>0, <1>6 DEF Expire
    <2> QED BY <1>6, <2>1, LedgerMoves DEF Expire, external
  <1>7. CASE Poll \/ Bind
    BY <1>0, <1>7, LedgerMoves DEF Poll, Bind, external
  <1>8. ASSUME NEW t \in Turns, Interrupted(t) PROVE Inv'
    <2>1. t \in Nat
      BY BudgetAssumption DEF Turns
    <2>2. CASE UNCHANGED external
      BY <1>0, <1>8, <2>2, LedgerMoves DEF Interrupted, external
    <2>3. CASE ~UNCHANGED external
      <3> DEFINE e == [kind |-> "completed", turn |-> t, status |-> "interrupted", at |-> now]
      <3>1. Record(e) /\ codex' = [codex EXCEPT !.turn = NoTurn]
        BY <1>8, <2>3 DEF Interrupted
      <3>2. e \in Ends
        BY <2>1 DEF Ends, Inv, Shape
      <3>3. codex' \in Codexes
        BY <1>00, <3>1, CodexChanges DEF NoTurn
      <3> HIDE DEF e
      <3> QED BY <1>8, <3>1, <3>2, <3>3, LogGrows DEF Interrupted
    <2> QED BY <2>2, <2>3
  <1>9. CASE Start
    <2> DEFINE t == codex.begun + 1
               e == [kind |-> "started", turn |-> t, at |-> now]
    <2>1. Record(e) /\ codex' = [codex EXCEPT !.turn = t, !.begun = t]
      BY <1>9 DEF Start
    <2>2. e \in Starts
      BY <1>00 DEF Starts, Codexes
    <2>3. codex' \in Codexes
      <3>1. t \in Nat
        BY <1>00 DEF Codexes
      <3> HIDE DEF t
      <3> QED BY <1>00, <2>1, <3>1, CodexChanges
    <2> HIDE DEF e
    <2> QED BY <1>9, <2>1, <2>2, <2>3, LogGrows DEF Start
  <1>10. CASE Report
    <2> DEFINE e == [kind |-> "usage", turn |-> codex.begun, total |-> codex.total,
                     last |-> codex.owed, at |-> now, run |-> codex.run]
    <2>1. Record(e) /\ codex' = [codex EXCEPT !.owed = 0]
      BY <1>10 DEF Report
    <2>2. e \in Reports
      BY <1>00 DEF Reports, Codexes
    <2>3. codex' \in Codexes
      BY <1>00, <2>1, CodexChanges
    <2> HIDE DEF e
    <2> QED BY <1>10, <2>1, <2>2, <2>3, LogGrows DEF Report, Idle
  <1>11. CASE End
    <2>1. PICK s \in {"completed", "failed"} :
            Record([kind |-> "completed", turn |-> codex.turn, status |-> s, at |-> now])
      BY <1>11 DEF End
    <2> DEFINE e == [kind |-> "completed", turn |-> codex.turn, status |-> s, at |-> now]
    <2>2. e \in Ends
      BY <1>00 DEF Ends, Codexes
    <2>3. codex' \in Codexes
      BY <1>00, <1>11, CodexChanges DEF End, NoTurn
    <2>4. Record(e)
      BY <2>1
    <2> HIDE DEF e
    <2> QED BY <1>11, <2>2, <2>3, <2>4, LogGrows DEF End, Idle
  <1>12. CASE Respond \/ Omit \/ Tick
    <2>1. codex' \in Codexes /\ now' \in Nat
      <3>1. CASE Respond
        <4>1. PICK n \in 1 .. MaxTokens : codex' = [codex EXCEPT !.total = @ + n, !.owed = n]
          BY <3>1 DEF Respond
        <4>2. n \in Nat
          BY BudgetAssumption
        <4> QED BY <1>00, <3>1, <4>1, <4>2, CodexChanges DEF Respond
      <3>2. CASE Omit
        BY <1>00, <3>2, CodexChanges DEF Omit
      <3>3. CASE Tick
        BY <1>00, <3>3 DEF Tick, external
      <3> QED BY <1>12, <3>1, <3>2, <3>3
    <2>2. UNCHANGED <<ledger, log, acked, observed, step>>
      BY <1>12 DEF Respond, Omit, Tick, Idle, external
    <2> QED BY <2>1, <2>2 DEF Inv, Shape, AtReport, Observed, Settled
  <1>13. CASE Replace \/ Restart
    <2>1. codex' \in Codexes
      <3>1. [codex EXCEPT !.turn = NoTurn, !.total = 0, !.owed = 0, !.run = @ + 1] \in Codexes
        BY <1>00, CodexChanges DEF NoTurn
      <3> QED BY <1>00, <1>13, <3>1 DEF Replace, Restart, external
    <2>2. UNCHANGED <<ledger, log, acked, now>> /\ step' = "idle" /\ observed' = acked
      BY <1>13 DEF Replace, Restart, Renew, GoTo, external
    <2>3. acked \in 0 .. Len(log) /\ acked \in 0 .. acked /\ \A i \in 1 .. acked : i \in 1 .. observed
      BY LenProperties DEF Inv, Shape
    <2>4. Shape' /\ AtReport'
      BY <2>1, <2>2, <2>3 DEF Inv, Shape, AtReport
    <2>5. Observed'
      BY <2>2, <2>3 DEF Inv, Observed, Settled
    <2> QED BY <2>4, <2>5 DEF Inv
  <1>14. CASE Elsewhere
    <2>1. Keeps(ledger, ledger')
      <3>1. CASE ledger' = Blocked(ledger)
        BY <1>0, <3>1
      <3>2. CASE ledger' # Blocked(ledger)
        <4>1. PICK n \in 1 .. MaxTokens :
                ledger' = [ledger EXCEPT !.used[Week(now)] = @ + n, !.others[Week(now)] = @ + n]
          BY <1>14, <3>2 DEF Elsewhere
        <4> DEFINE us == [ledger.used EXCEPT ![Week(now)] = @ + n]
                   os == [ledger.others EXCEPT ![Week(now)] = @ + n]
        <4>2. us \in [Weeks -> Int] /\ os \in [Weeks -> Int]
          <5>1. n \in Int /\ ledger.used \in [Weeks -> Int] /\ ledger.others \in [Weeks -> Int]
            BY <1>0, BudgetAssumption DEF Ledgers
          <5>2. CASE Week(now) \in Weeks
            BY <5>1, <5>2
          <5>3. CASE Week(now) \notin Weeks
            BY <5>1, <5>3
          <5> QED BY <5>2, <5>3
        <4>3. ledger' = [ledger EXCEPT !.used = us, !.others = os]
          BY <4>1
        <4> HIDE DEF us, os
        <4> QED BY <1>0, <4>2, <4>3 DEF Keeps, Ledgers
      <3> QED BY <3>1, <3>2
    <2> QED BY <1>14, <2>1, LedgerMoves DEF Elsewhere
  <1>15. CASE UNCHANGED vars
    BY <1>0, <1>15, LedgerMoves DEF vars
  <1> QED BY <1>1, <1>2, <1>3, <1>4, <1>5, <1>6, <1>7, <1>8, <1>9, <1>10, <1>11, <1>12,
             <1>13, <1>14, <1>15 DEF Next, Observer

\* An acknowledged report was charged, or the ledger is blocked: neither a crash nor
\* a failed write loses what a response cost (weekly-token-budget-runtime.ts:225-227).
THEOREM NoChargeIsLost == Spec => []NoneUncharged
  <1>1. Inv => NoneUncharged
    <2>1. Inv => \A i \in 1 .. acked : i \in 1 .. observed
      BY LenProperties DEF Inv, Shape
    <2> QED BY <2>1 DEF Inv, Observed, Settled, NoneUncharged
  <1> QED BY InitInv, NextInv, <1>1, PTL DEF Spec

----------------------------------------------------------------------------
(* Sums over a finite set.  A set of subsets that holds none whose proper  *)
(* subsets it does not meet is empty - the induction that every fact about *)
(* a sum, and about a largest number, is proved by.                        *)

\* The sets of B are the counterexamples: there is no smallest one.
LEMMA SubsetInduction ==
  ASSUME NEW S, IsFiniteSet(S), NEW B, B \subseteq SUBSET S,
         \A T \in SUBSET S : (\A U \in SUBSET T : U # T => U \notin B) => T \notin B
  PROVE  B = {}
<1>1. IsWellFoundedOn(StrictSubsetOrdering(S), FiniteSubsetsOf(S))
  BY FS_StrictSubsetOrderingWellFounded
<1>2. FiniteSubsetsOf(S) = SUBSET S
  BY FS_FiniteSubsetsOfFinite
<1>. SUFFICES ASSUME B # {} PROVE FALSE
  OBVIOUS
<1>3. PICK T \in B : \A U \in B : <<U, T>> \notin StrictSubsetOrdering(S)
  BY <1>1, <1>2, WFMin
<1>4. \A U \in SUBSET T : U # T => U \notin B
  BY <1>3 DEF StrictSubsetOrdering
<1>. QED BY <1>3, <1>4

\* How MapThenSumSet adds up: one element, and then the rest.
Pick(s) == CHOOSE x \in s : TRUE
IsSum(it, h, S) ==
    it = [s \in SUBSET S |-> IF s = {} THEN 0 ELSE h[Pick(s)] + it[s \ {Pick(s)}]]

LEMMA PickIsIn == ASSUME NEW s, s # {} PROVE Pick(s) \in s
  BY DEF Pick

LEMMA SumUnfolds ==
  ASSUME NEW S, NEW it, NEW h, IsSum(it, h, S), NEW s \in SUBSET S
  PROVE  it[s] = IF s = {} THEN 0 ELSE h[Pick(s)] + it[s \ {Pick(s)}]
  BY DEF IsSum

\* A sum depends on the numbers alone.
LEMMA SumsAgree ==
  ASSUME NEW S, NEW T, IsFiniteSet(S), S \subseteq T, NEW it, NEW jt, NEW h, NEW g,
         IsSum(it, h, S), IsSum(jt, g, T), \A i \in S : h[i] = g[i]
  PROVE  \A s \in SUBSET S : it[s] = jt[s]
<1>. DEFINE B == {s \in SUBSET S : it[s] # jt[s]}
<1>1. ASSUME NEW s \in SUBSET S, \A u \in SUBSET s : u # s => u \notin B
      PROVE  it[s] = jt[s]
  <2>1. CASE s = {}
    BY <2>1, SumUnfolds
  <2>2. CASE s # {}
    <3>1. Pick(s) \in s /\ s \ {Pick(s)} \in SUBSET s /\ s \ {Pick(s)} # s
      BY <2>2, PickIsIn
    <3>2. it[s \ {Pick(s)}] = jt[s \ {Pick(s)}]
      BY <1>1, <3>1
    <3>3. it[s] = h[Pick(s)] + it[s \ {Pick(s)}] /\ jt[s] = g[Pick(s)] + jt[s \ {Pick(s)}]
      BY <2>2, SumUnfolds
    <3>. QED BY <3>1, <3>2, <3>3
  <2>. QED BY <2>1, <2>2
<1>2. B = {}
  <2>1. B \subseteq SUBSET S
    OBVIOUS
  <2>2. \A s \in SUBSET S : (\A u \in SUBSET s : u # s => u \notin B) => s \notin B
    BY <1>1
  <2>. HIDE DEF B
  <2>. QED BY <2>1, <2>2, SubsetInduction
<1>. QED BY <1>2

LEMMA SumExists ==
  ASSUME NEW S, IsFiniteSet(S), NEW h
  PROVE  \E it : IsSum(it, h, S)
<1>. DEFINE B == {s \in SUBSET S : ~\E it : IsSum(it, h, s)}
            J(s) == CHOOSE it : IsSum(it, h, s)
<1>1. ASSUME NEW T \in SUBSET S, \A u \in SUBSET T : u # T => u \notin B
      PROVE  \E it : IsSum(it, h, T)
  <2>1. \A u \in SUBSET T : u # T => IsSum(J(u), h, u)
    BY <1>1
  <2>. HIDE DEF J
  <2>2. ASSUME NEW u \in SUBSET T, u # T, NEW v \in SUBSET u PROVE J(u)[v] = J(v)[v]
    <3>1. IsFiniteSet(v) /\ v \in SUBSET T /\ v # T
      BY <2>2, FS_Subset
    <3>2. IsSum(J(u), h, u) /\ IsSum(J(v), h, v)
      BY <2>1, <2>2, <3>1
    <3>. QED BY <3>1, <3>2, SumsAgree
  <2>. DEFINE rest(s) == s \ {Pick(s)}
              it == [s \in SUBSET T |-> IF s = {} THEN 0 ELSE h[Pick(s)] + J(rest(s))[rest(s)]]
  <2>3. ASSUME NEW s \in SUBSET T, s # {} PROVE it[rest(s)] = J(rest(s))[rest(s)]
    <3>. DEFINE u == rest(s)
    <3>1. u \in SUBSET T /\ u # T /\ u \in SUBSET u
      BY <2>3, PickIsIn
    <3>. HIDE DEF u
    <3>2. it[u] = IF u = {} THEN 0 ELSE h[Pick(u)] + J(rest(u))[rest(u)]
      BY <3>1
    <3>3. J(u)[u] = IF u = {} THEN 0 ELSE h[Pick(u)] + J(u)[rest(u)]
      BY <2>1, <3>1, SumUnfolds
    <3>4. J(u)[rest(u)] = J(rest(u))[rest(u)]
      BY <2>2, <3>1
    <3>5. it[u] = J(u)[u]
      BY <3>2, <3>3, <3>4
    <3>. QED BY <3>5 DEF u
  <2>4. it = [s \in SUBSET T |-> IF s = {} THEN 0 ELSE h[Pick(s)] + it[rest(s)]]
    BY <2>3
  <2>5. IsSum(it, h, T)
    BY <2>4 DEF IsSum
  <2>. QED BY <2>5
<1>2. B = {}
  <2>1. B \subseteq SUBSET S
    OBVIOUS
  <2>2. \A T \in SUBSET S : (\A u \in SUBSET T : u # T => u \notin B) => T \notin B
    BY <1>1
  <2>. HIDE DEF B
  <2>. QED BY <2>1, <2>2, SubsetInduction
<1>. QED BY <1>2

LEMMA SumIsInt ==
  ASSUME NEW S, IsFiniteSet(S), NEW it, NEW h, IsSum(it, h, S), \A i \in S : h[i] \in Int
  PROVE  \A s \in SUBSET S : it[s] \in Int
<1>. DEFINE B == {s \in SUBSET S : it[s] \notin Int}
<1>1. ASSUME NEW s \in SUBSET S, \A u \in SUBSET s : u # s => u \notin B
      PROVE  it[s] \in Int
  <2>1. CASE s = {}
    BY <2>1, SumUnfolds
  <2>2. CASE s # {}
    <3>1. Pick(s) \in s /\ s \ {Pick(s)} \in SUBSET s /\ s \ {Pick(s)} # s
      BY <2>2, PickIsIn
    <3>2. it[s \ {Pick(s)}] \in Int /\ h[Pick(s)] \in Int
      BY <1>1, <3>1
    <3>3. it[s] = h[Pick(s)] + it[s \ {Pick(s)}]
      <4>. DEFINE p == Pick(s)
      <4>1. it[s] = IF s = {} THEN 0 ELSE h[p] + it[s \ {p}]
        BY SumUnfolds
      <4>. HIDE DEF p
      <4>2. it[s] = h[p] + it[s \ {p}]
        BY <2>2, <4>1
      <4>. QED BY <4>2 DEF p
    <3>. QED BY <3>2, <3>3
  <2>. QED BY <2>1, <2>2
<1>2. B = {}
  <2>1. B \subseteq SUBSET S
    OBVIOUS
  <2>2. \A s \in SUBSET S : (\A u \in SUBSET s : u # s => u \notin B) => s \notin B
    BY <1>1
  <2>. HIDE DEF B
  <2>. QED BY <2>1, <2>2, SubsetInduction
<1>. QED BY <1>2

\* Any element may be added last.
LEMMA SumOfRest ==
  ASSUME NEW S, IsFiniteSet(S), NEW it, NEW h, IsSum(it, h, S), \A i \in S : h[i] \in Int
  PROVE  \A s \in SUBSET S : \A x \in s : it[s] = h[x] + it[s \ {x}]
<1>. DEFINE Good(s) == \A x \in s : it[s] = h[x] + it[s \ {x}]
            B == {s \in SUBSET S : ~Good(s)}
<1>0. \A s \in SUBSET S : it[s] \in Int
  BY SumIsInt
<1>1. ASSUME NEW s \in SUBSET S, \A u \in SUBSET s : u # s => u \notin B, NEW x \in s
      PROVE  it[s] = h[x] + it[s \ {x}]
  <2>. DEFINE p == Pick(s)
  <2>1. p \in s /\ it[s] = h[p] + it[s \ {p}]
    BY PickIsIn, SumUnfolds
  <2>. HIDE DEF p
  <2>2. CASE x = p
    BY <2>1, <2>2
  <2>3. CASE x # p
    <3>1. Good(s \ {p}) /\ Good(s \ {x})
      <4>1. s \ {p} \in SUBSET s /\ s \ {p} # s /\ s \ {x} \in SUBSET s /\ s \ {x} # s
        BY <2>1
      <4>2. s \ {p} \notin B /\ s \ {x} \notin B
        BY <1>1, <4>1
      <4>. HIDE DEF Good
      <4>. QED BY <4>1, <4>2
    <3>2. it[s \ {p}] = h[x] + it[(s \ {p}) \ {x}]
      BY <2>3, <3>1
    <3>3. it[s \ {x}] = h[p] + it[(s \ {x}) \ {p}]
      BY <2>1, <2>3, <3>1
    <3>4. (s \ {p}) \ {x} = (s \ {x}) \ {p}
      OBVIOUS
    <3>5. h[x] \in Int /\ h[p] \in Int /\ it[(s \ {x}) \ {p}] \in Int
      <4>1. (s \ {x}) \ {p} \in SUBSET S
        OBVIOUS
      <4>. QED BY <1>0, <2>1, <4>1
    <3>. DEFINE a == h[x]
                b == h[p]
                r == it[(s \ {x}) \ {p}]
    <3>6. it[s] = b + (a + r) /\ it[s \ {x}] = b + r /\ a \in Int /\ b \in Int /\ r \in Int
      BY <2>1, <3>2, <3>3, <3>4, <3>5
    <3>. HIDE DEF b, r
    <3>7. b + (a + r) = a + (b + r)
      <4>. HIDE DEF a
      <4>. QED BY <3>6
    <3>. QED BY <3>6, <3>7
  <2>. QED BY <2>2, <2>3
<1>2. B = {}
  <2>1. B \subseteq SUBSET S
    OBVIOUS
  <2>2. \A s \in SUBSET S : (\A u \in SUBSET s : u # s => u \notin B) => s \notin B
    BY <1>1
  <2>. HIDE DEF B
  <2>. QED BY <2>1, <2>2, SubsetInduction
<1>. QED BY <1>2
\* One more number.
LEMMA SumGrows ==
  ASSUME NEW S, NEW T, IsFiniteSet(T), NEW x \in T, S = T \ {x},
         NEW it, NEW jt, NEW h, NEW g, IsSum(it, h, S), IsSum(jt, g, T),
         \A i \in T : g[i] \in Int, \A i \in S : h[i] = g[i]
  PROVE  jt[T] = it[S] + g[x] /\ it[S] \in Int
<1>1. IsFiniteSet(S) /\ S \subseteq T
  BY FS_Subset
<1>2. \A s \in SUBSET S : it[s] = jt[s]
  BY <1>1, SumsAgree
<1>3. it[S] = jt[S]
  BY <1>2
<1>5. T \in SUBSET T /\ x \in T
  OBVIOUS
<1>6. jt[T] = g[x] + jt[T \ {x}]
  BY <1>5, SumOfRest
<1>7. \A s \in SUBSET T : jt[s] \in Int
  BY SumIsInt
<1>8. jt[S] \in Int /\ g[x] \in Int
  BY <1>1, <1>7
<1>. QED BY <1>3, <1>6, <1>8

\* A finite set of numbers has a largest one.
LEMMA MaxIs ==
  ASSUME NEW S, IsFiniteSet(S), S \subseteq Int, S # {}
  PROVE  Max(S) \in S /\ \A y \in S : y <= Max(S)
<1>. DEFINE Has(s) == s # {} => \E x \in s : \A y \in s : x >= y
            B == {s \in SUBSET S : ~Has(s)}
<1>1. ASSUME NEW s \in SUBSET S, \A u \in SUBSET s : u # s => u \notin B
      PROVE  Has(s)
  <2>1. SUFFICES ASSUME s # {} PROVE \E x \in s : \A y \in s : x >= y
    OBVIOUS
  <2>2. PICK a \in s : TRUE
    BY <2>1
  <2>3. s \ {a} \in SUBSET s /\ s \ {a} # s
    BY <2>2
  <2>4. Has(s \ {a})
    BY <1>1, <2>3
  <2>5. CASE s \ {a} = {}
    BY <2>2, <2>5
  <2>6. CASE s \ {a} # {}
    <3>1. PICK x \in s \ {a} : \A y \in s \ {a} : x >= y
      BY <2>4, <2>6
    <3>2. x \in Int /\ a \in Int /\ s \subseteq Int
      BY <2>2
    <3>3. CASE x >= a
      BY <2>2, <3>1, <3>2, <3>3
    <3>4. CASE a >= x
      <4>1. \A y \in s : y = a \/ (y \in Int /\ x >= y)
        BY <3>1, <3>2
      <4>2. \A y \in s : a >= y
        BY <3>2, <3>4, <4>1
      <4>. QED BY <2>2, <4>2
    <3>. QED BY <3>2, <3>3, <3>4
  <2>. QED BY <2>5, <2>6
<1>2. B = {}
  <2>1. B \subseteq SUBSET S
    OBVIOUS
  <2>2. \A s \in SUBSET S : (\A u \in SUBSET s : u # s => u \notin B) => s \notin B
    BY <1>1
  <2>. HIDE DEF B, Has
  <2>3. IsFiniteSet(S)
    OBVIOUS
  <2>. QED BY ONLY <2>1, <2>2, <2>3, SubsetInduction
<1>3. \E x \in S : \A y \in S : x >= y
  BY <1>2
<1>4. Max(S) \in S /\ \A y \in S : Max(S) >= y
  BY <1>3 DEF Max
<1>. QED BY <1>4

----------------------------------------------------------------------------
(* What the reports say.                                                   *)

LEMMA UsagesAre ==
  ASSUME Inv
  PROVE  /\ Usages \subseteq 1 .. Len(log) /\ Len(log) \in Nat /\ Usages \subseteq Nat
         /\ IsFiniteSet(Usages) /\ \A i \in Usages : log[i] \in Reports
<1>1. log \in Seq(Starts \union Ends \union Reports) /\ Len(log) \in Nat
  BY LenProperties DEF Inv, Shape
<1>2. Usages \subseteq 1 .. Len(log)
  BY DEF Usages
<1>3. IsFiniteSet(Usages)
  <2>1. IsFiniteSet(1 .. Len(log))
    BY <1>1, FS_Interval
  <2>. QED BY <1>2, <2>1, FS_Subset
<1>4. \A i \in Usages : log[i] \in Reports
  <2>1. \A i \in Usages : log[i] \in Starts \union Ends \union Reports
    BY <1>1, <1>2, ElementOfSeq
  <2>. QED BY <2>1 DEF Usages, Starts, Ends, Reports
<1>. QED BY <1>1, <1>2, <1>3, <1>4

LEMMA LastIs ==
  ASSUME Inv, NEW i, Before(i) # {}
  PROVE  /\ Max(Before(i)) \in Usages /\ Max(Before(i)) < i
         /\ \A j \in Usages : j < i => j <= Max(Before(i))
         /\ Last(i) \in Reports
<1>1. Before(i) \subseteq Usages /\ IsFiniteSet(Before(i)) /\ Before(i) \subseteq Int
  BY UsagesAre, FS_Subset DEF Before
<1>2. Max(Before(i)) \in Before(i) /\ \A j \in Before(i) : j <= Max(Before(i))
  BY <1>1, MaxIs
<1>. QED BY <1>2, UsagesAre DEF Before, Last

LEMMA ConsumedIsInt ==
  ASSUME Inv, NEW i \in Usages
  PROVE  Consumed(i) \in Int
<1>1. log[i].total \in Int
  BY UsagesAre DEF Reports
<1>2. Before(i) # {} => Last(i).total \in Int
  BY LastIs DEF Reports
<1>. QED BY <1>1, <1>2 DEF Consumed

\* The events that are to be charged to a week.
Due(i, w) == Week(log[i].at) = w /\ ~Historical(log[i]) /\ ~Unlimited(log[i].at)
ChargedIn(w) == {i \in ledger.seen : Due(i, w)}

LEMMA ReportedIsSum ==
  ASSUME NEW w, NEW S, S = ChargedIn(w), IsFiniteSet(S), NEW h, h = [i \in S |-> Consumed(i)]
  PROVE  \E it : IsSum(it, h, S) /\ Reported(w) = it[S]
<1>. DEFINE F(f) == f = [s \in SUBSET S |-> IF s = {} THEN 0
                           ELSE Consumed(Pick(s)) + f[s \ {Pick(s)}]]
<1>1. Reported(w) = MapThenSumSet(Consumed, S)
  BY DEF Reported, ChargedIn, Due
<1>2. MapThenSumSet(Consumed, S) = (CHOOSE f : F(f))[S]
  BY DEF MapThenSumSet, MapThenFoldSet, Pick
<1>3. ASSUME NEW f PROVE F(f) <=> IsSum(f, h, S)
  <2>1. \A s \in SUBSET S : s # {} => Consumed(Pick(s)) = h[Pick(s)]
    BY PickIsIn
  <2>. QED BY <2>1 DEF IsSum
<1>4. \E f : F(f)
  BY <1>3, SumExists
<1>. HIDE DEF F
<1>5. F(CHOOSE f : F(f))
  BY <1>4
<1>. QED BY <1>1, <1>2, <1>3, <1>5

LEMMA ReportedIsSumNext ==
  ASSUME NEW w, NEW S, S = ChargedIn(w)', IsFiniteSet(S), NEW h, h = [i \in S |-> Consumed(i)']
  PROVE  \E it : IsSum(it, h, S) /\ Reported(w)' = it[S]
<1>. DEFINE F(f) == f = [s \in SUBSET S |-> IF s = {} THEN 0
                           ELSE Consumed(Pick(s))' + f[s \ {Pick(s)}]]
<1>1. Reported(w)' = MapThenSumSet(Consumed, S)'
  BY DEF Reported, ChargedIn, Due
<1>2. MapThenSumSet(Consumed, S)' = (CHOOSE f : F(f))[S]
  BY DEF MapThenSumSet, MapThenFoldSet, Pick
<1>3. ASSUME NEW f PROVE F(f) <=> IsSum(f, h, S)
  <2>1. \A s \in SUBSET S : s # {} => Consumed(Pick(s))' = h[Pick(s)]
    BY PickIsIn
  <2>. QED BY <2>1 DEF IsSum
<1>4. \E f : F(f)
  BY <1>3, SumExists
<1>. HIDE DEF F
<1>5. F(CHOOSE f : F(f))
  BY <1>4
<1>. QED BY <1>1, <1>2, <1>3, <1>5

\* Reported only changes by what is seen for the first time.
LEMMA ReportedStays ==
  ASSUME Inv, ledger.seen \subseteq Usages, NEW w, ChargedIn(w)' = ChargedIn(w),
         \A i \in ledger.seen : Consumed(i)' = Consumed(i)
  PROVE  Reported(w)' = Reported(w)
<1>. DEFINE S == ChargedIn(w)
            h == [i \in S |-> Consumed(i)]
            g == [i \in S |-> Consumed(i)']
<1>1. IsFiniteSet(S) /\ S \subseteq ledger.seen
  BY UsagesAre, FS_Subset DEF ChargedIn
<1>2. g = h
  BY <1>1
<1>. HIDE DEF g, h, S
<1>3. PICK it : IsSum(it, h, S) /\ Reported(w) = it[S]
  BY <1>1, ReportedIsSum DEF h, S
<1>4. PICK jt : IsSum(jt, g, S) /\ Reported(w)' = jt[S]
  BY <1>1, ReportedIsSumNext DEF g, S
<1>5. it[S] = jt[S]
  BY <1>1, <1>2, <1>3, <1>4, SumsAgree
<1>. QED BY <1>3, <1>4, <1>5

LEMMA ReportedGrows ==
  ASSUME Inv, ledger.seen \subseteq Usages, NEW w, NEW i \in Usages, i \notin ledger.seen,
         ChargedIn(w)' = ChargedIn(w) \union {i},
         \A j \in Usages : Consumed(j)' = Consumed(j)
  PROVE  Reported(w)' = Reported(w) + Consumed(i) /\ Reported(w) \in Int
<1>. DEFINE S == ChargedIn(w)
            T == ChargedIn(w) \union {i}
            h == [j \in S |-> Consumed(j)]
            g == [j \in T |-> Consumed(j)']
<1>1. IsFiniteSet(S) /\ IsFiniteSet(T) /\ S \subseteq ledger.seen /\ S \subseteq T
      /\ i \in T /\ T \ {i} = S
  <2>1. IsFiniteSet(S) /\ S \subseteq ledger.seen
    BY UsagesAre, FS_Subset DEF ChargedIn
  <2>. QED BY <2>1, FS_AddElement
<1>2. (\A j \in S : h[j] \in Int /\ h[j] = g[j]) /\ (\A j \in T : g[j] \in Int)
      /\ g[i] = Consumed(i) /\ Consumed(i) \in Int
  BY <1>1, ConsumedIsInt
<1>. HIDE DEF g, h, S, T
<1>3. PICK it : IsSum(it, h, S) /\ Reported(w) = it[S]
  BY <1>1, ReportedIsSum DEF h, S
<1>4. PICK jt : IsSum(jt, g, T) /\ Reported(w)' = jt[T]
  BY <1>1, ReportedIsSumNext DEF g, T
<1>5. jt[T] = it[S] + g[i] /\ it[S] \in Int
  BY <1>1, <1>2, <1>3, <1>4, SumGrows
<1>. QED BY <1>2, <1>3, <1>4, <1>5

----------------------------------------------------------------------------
(* What is charged is what was consumed.                                   *)

\* Reports are recorded in the order of the clock and of the processes, and the
\* counter of a process only grows - by more than a response if one went unreported.
LogInOrder ==
    /\ \A i \in Usages :
          /\ log[i].at <= now /\ log[i].run <= codex.run /\ log[i].total >= 1
          /\ log[i].run = codex.run => log[i].total + codex.owed <= codex.total
          /\ Historical(log[i]) => i = 1
    /\ \A i, j \in Usages : i < j =>
          /\ log[i].at <= log[j].at /\ log[i].run <= log[j].run
          /\ log[i].run = log[j].run => log[i].total + log[j].last <= log[j].total
    /\ codex.owed <= codex.total
    /\ now > Activation

\* The cursor is at the last report the ledger has seen, or at the thread's history.
Cursor(m) ==
    /\ m \in ledger.seen \/ (m = 1 /\ Historical(log[1]))
    /\ \A j \in ledger.seen : j <= m
    /\ ledger.cursor.total = log[m].total /\ ledger.cursor.at = log[m].at

\* Until it is blocked, the ledger sees every report, in their order.
Booked ==
    /\ ledger.seen \subseteq Usages
    /\ ~ledger.blocked =>
         /\ \A i \in ledger.seen : \A j \in Usages : j < i => j \in ledger.seen
         /\ ledger.cursor.known => \E m \in Usages : Cursor(m)
         /\ ~ledger.cursor.known => ledger.seen = {} /\ \A i \in Usages : ~Historical(log[i])

Books == LogInOrder /\ Booked /\ ChargedOnce

\* Arithmetic of a report e after a report p the cursor is at.
LEMMA DeltaAfter ==
  ASSUME NEW c \in [known : BOOLEAN, total : Nat, at : Nat], NEW e \in Reports, NEW p \in Reports,
         c.known, c.total = p.total, c.at = p.at, p.total >= 1, e.at >= p.at, ~Historical(e),
         p.run = e.run => p.total + e.last <= e.total, Consistent(c, e)
  PROVE  /\ Ahead(c, e)
         /\ p.run = e.run => Delta(c, e) = e.total - p.total
         /\ p.run # e.run => /\ Delta(c, e) <= e.total
                             /\ ~(e.total # e.last \/ e.total = p.total) => Delta(c, e) = e.total
<1>1. /\ c.total \in Nat /\ c.at \in Nat /\ p.total \in Nat /\ p.at \in Nat
      /\ e.total \in Nat /\ e.at \in Nat /\ e.last \in Nat
  BY DEF Reports
<1>2. Ahead(c, e)
  BY <1>1 DEF Ahead
<1>3. CASE FreshCounter(c, e)
  <2>1. Delta(c, e) = e.last /\ e.total = e.last
    BY <1>3 DEF Delta, FreshCounter
  <2>. QED BY <1>1, <1>2, <2>1
<1>4. CASE ~FreshCounter(c, e)
  <2>1. Delta(c, e) = e.total - c.total /\ (e.total = c.total \/ e.total - c.total >= e.last)
    BY <1>2, <1>4 DEF Delta, Consistent
  <2>2. e.total = e.last => e.total = c.total
    BY <1>1, <1>4, <2>1
  <2>. QED BY <1>1, <1>2, <2>1, <2>2
<1>. QED BY <1>3, <1>4

LEMMA DeltaIsConsumed ==
  ASSUME Inv, LogInOrder, Booked, ~ledger.blocked, NEW i \in Usages, i \notin ledger.seen,
         \A j \in Usages : j < i => j \in ledger.seen,
         ~Historical(log[i]), Consistent(ledger.cursor, log[i])
  PROVE  /\ Ahead(ledger.cursor, log[i])
         /\ Delta(ledger.cursor, log[i]) \in Int /\ Delta(ledger.cursor, log[i]) <= Consumed(i)
         /\ ~Hidden(i) => Delta(ledger.cursor, log[i]) = Consumed(i)
<1>1. log[i] \in Reports /\ i \in Nat /\ Usages \subseteq Nat
      /\ ledger.cursor \in [known : BOOLEAN, total : Nat, at : Nat]
  BY UsagesAre DEF Inv, Shape, Ledgers
<1>2. Delta(ledger.cursor, log[i]) \in Int /\ Consumed(i) \in Int
  BY <1>1, DeltaIsInt, ConsumedIsInt
<1>3. CASE ~ledger.cursor.known
  <2>1. Before(i) = {}
    BY <1>3 DEF Before, Booked
  <2>2. Ahead(ledger.cursor, log[i]) /\ ~FreshCounter(ledger.cursor, log[i])
    BY <1>3 DEF Ahead, FreshCounter
  <2>3. Delta(ledger.cursor, log[i]) = log[i].last /\ log[i].last = log[i].total
    BY <1>3, <2>2 DEF Delta, Consistent
  <2>4. Consumed(i) = log[i].total
    BY <2>1 DEF Consumed
  <2>. QED BY <1>2, <2>2, <2>3, <2>4
<1>4. CASE ledger.cursor.known
  <2>1. PICK m \in Usages : Cursor(m)
    BY <1>4 DEF Booked
  <2>2. m < i
    <3>1. CASE m \in ledger.seen
      BY <1>1, <3>1 DEF Booked
    <3>2. CASE m = 1 /\ Historical(log[1])
      <4>1. i # 1 /\ i >= 1
        BY <3>2, UsagesAre
      <4>. QED BY <1>1, <3>2, <4>1
    <3>. QED BY <2>1, <3>1, <3>2 DEF Cursor
  <2>3. Before(i) # {} /\ Last(i) = log[m]
    <3>1. m \in Before(i)
      BY <2>1, <2>2 DEF Before
    <3>2. Max(Before(i)) \in Usages /\ Max(Before(i)) < i /\ m <= Max(Before(i))
      BY <2>1, <2>2, <3>1, LastIs
    <3>3. Max(Before(i)) <= m
      BY <2>1, <3>2 DEF Cursor
    <3>4. Max(Before(i)) = m
      <4>. DEFINE x == Max(Before(i))
      <4>1. x \in Nat /\ m \in Nat /\ x <= m /\ m <= x
        BY <1>1, <2>1, <3>2, <3>3
      <4>. HIDE DEF x
      <4>2. x = m
        BY <4>1
      <4>. QED BY <4>2 DEF x
    <3>. QED BY <3>1, <3>4 DEF Last
  <2>. DEFINE e == log[i]
              p == log[m]
              c == ledger.cursor
  <2>4. /\ c.known /\ c.total = p.total /\ c.at = p.at /\ p.total >= 1 /\ p \in Reports
        /\ p.at <= e.at /\ (p.run = e.run => p.total + e.last <= e.total)
    BY <1>4, <2>1, <2>2, UsagesAre DEF Cursor, LogInOrder
  <2>5. e.at >= p.at
    BY <1>1, <2>4 DEF Reports
  <2>6. /\ Consumed(i) = IF p.run = e.run THEN e.total - p.total ELSE e.total
        /\ Hidden(i) <=> p.run # e.run /\ (e.total # e.last \/ e.total = p.total)
    BY <2>3 DEF Consumed, Hidden
  <2>7. ~Historical(e) /\ Consistent(c, e) /\ e \in Reports
    BY <1>1
  <2>8. c \in [known : BOOLEAN, total : Nat, at : Nat]
    BY <1>1
  <2>. HIDE DEF e, p, c
  <2>9. /\ Ahead(c, e)
        /\ p.run = e.run => Delta(c, e) = e.total - p.total
        /\ p.run # e.run => /\ Delta(c, e) <= e.total
                            /\ ~(e.total # e.last \/ e.total = p.total) => Delta(c, e) = e.total
    BY <2>4, <2>5, <2>7, <2>8, DeltaAfter
  <2>10. Delta(c, e) \in Int /\ Consumed(i) \in Int
    BY <1>2 DEF c, e
  <2>11. Delta(c, e) <= Consumed(i) /\ (~Hidden(i) => Delta(c, e) = Consumed(i))
    BY <2>6, <2>9, <2>10
  <2>. QED BY <2>9, <2>10, <2>11 DEF c, e
<1>. QED BY <1>3, <1>4

----------------------------------------------------------------------------
(* The steps keep the books.                                               *)

\* What the ledger charged to the worker.
Charge(w) == ledger.used[w] - ledger.others[w]

\* Recording another notification leaves what was recorded as it is.
LEMMA RecordedStays ==
  ASSUME Inv, NEW e \in Starts \union Ends \union Reports, Record(e)
  PROVE  /\ \A i \in Usages : i \in Usages' /\ log'[i] = log[i] /\ Before(i)' = Before(i)
                              /\ Consumed(i)' = Consumed(i) /\ (Hidden(i)' <=> Hidden(i))
         /\ \A i \in Usages' :
              \/ i \in Usages
              \/ e \in Reports /\ log'[i] = e /\ i = Len(log) + 1 /\ \A j \in Usages : j < i
<1>1. Len(log) \in Nat /\ Usages \subseteq 1 .. Len(log)
  BY UsagesAre
<1>2. Len(log') = Len(log) + 1 /\ log'[Len(log) + 1] = e /\ \A i \in 1 .. Len(log) : log'[i] = log[i]
  BY AppendProperties DEF Record, Inv, Shape
<1>3. \A i \in 1 .. Len(log) : i \in Usages' <=> i \in Usages
  BY <1>1, <1>2 DEF Usages
<1>4. \A i \in Usages' : i \in Usages \/ (i = Len(log) + 1 /\ log'[i] = e /\ e.kind = "usage")
  <2>1. Usages' \subseteq 1 .. Len(log')
    BY DEF Usages
  <2>2. \A i \in Usages' : i \in 1 .. Len(log) \/ i = Len(log) + 1
    BY <1>1, <1>2, <2>1
  <2>3. \A i \in Usages' : log'[i].kind = "usage"
    BY DEF Usages
  <2>. QED BY <1>2, <1>3, <2>2, <2>3
<1>5. e.kind = "usage" => e \in Reports
  BY DEF Starts, Ends
<1>6. \A j \in Usages : j < Len(log) + 1
  BY <1>1
<1>7. ASSUME NEW i \in Usages
      PROVE  i \in Usages' /\ log'[i] = log[i] /\ Before(i)' = Before(i)
             /\ Consumed(i)' = Consumed(i) /\ (Hidden(i)' <=> Hidden(i))
  <2>1. i \in Usages' /\ log'[i] = log[i]
    BY <1>1, <1>2, <1>3
  <2>2. Before(i)' = Before(i)
    <3>1. \A j \in Usages' : j < i => j \in Usages
      BY <1>1, <1>4
    <3>2. Usages \subseteq Usages'
      BY <1>1, <1>3
    <3>. QED BY <3>1, <3>2 DEF Before
  <2>3. Before(i) # {} => Last(i)' = Last(i)
    <3>1. ASSUME Before(i) # {} PROVE Max(Before(i)) \in 1 .. Len(log)
      BY <1>1, <3>1, LastIs
    <3>. QED BY <1>2, <2>2, <3>1 DEF Last
  <2>. QED BY <2>1, <2>2, <2>3 DEF Consumed, Hidden
<1>8. \A i \in Usages' :
        \/ i \in Usages
        \/ e \in Reports /\ log'[i] = e /\ i = Len(log) + 1 /\ \A j \in Usages : j < i
  <2>. TAKE i \in Usages'
  <2>1. CASE i \notin Usages
    <3>1. i = Len(log) + 1 /\ log'[i] = e /\ e \in Reports
      BY <1>4, <1>5, <2>1
    <3>2. \A j \in Usages : j < i
      BY <1>6, <3>1
    <3>. QED BY <3>1, <3>2
  <2>. QED BY <2>1
<1>. QED BY <1>7, <1>8

LEMMA RecordKeepsBooks ==
  ASSUME Inv, Books, NEW e \in Starts \union Ends \union Reports, Record(e), e.at = now, UNCHANGED ledger
  PROVE  Booked' /\ ChargedOnce'
<1>1. ~Historical(e)
  <2>1. e.at \in Nat /\ now > Activation
    BY DEF Starts, Ends, Reports, Books, LogInOrder
  <2>. QED BY <2>1 DEF Historical, Activation
<1>2. Booked'
  <2>1. ledger'.seen \subseteq Usages'
    BY RecordedStays DEF Books, Booked
  <2>2. ASSUME ~ledger.blocked, NEW i \in ledger.seen, NEW j \in Usages', j < i PROVE j \in ledger.seen
    <3>1. i \in Usages /\ i \in Nat
      BY UsagesAre DEF Books, Booked
    <3>2. CASE j \in Usages
      BY <2>2, <3>1, <3>2 DEF Books, Booked
    <3>3. CASE j \notin Usages
      <4>1. j = Len(log) + 1 /\ i < j /\ Len(log) \in Nat
        BY <3>1, <3>3, RecordedStays, UsagesAre
      <4>. QED BY <2>2, <3>1, <4>1
    <3>. QED BY <3>2, <3>3
  <2>3. ASSUME ~ledger.blocked, ledger.cursor.known PROVE \E m \in Usages' : Cursor(m)'
    <3>1. PICK m \in Usages : Cursor(m)
      BY <2>3 DEF Books, Booked
    <3>2. m \in Usages' /\ log'[m] = log[m]
      BY RecordedStays
    <3>3. Cursor(m)'
      BY <3>1, <3>2 DEF Cursor, Historical
    <3>. QED BY <3>2, <3>3
  <2>4. ASSUME ~ledger.blocked, ~ledger.cursor.known, NEW i \in Usages'
        PROVE  ledger.seen = {} /\ ~Historical(log'[i])
    BY <1>1, <2>4, RecordedStays DEF Books, Booked
  <2>. QED BY <2>1, <2>2, <2>3, <2>4 DEF Booked, Historical
<1>3. ChargedOnce'
  <2>1. ledger.seen \subseteq Usages
    BY DEF Books, Booked
  <2>2. \A w \in Weeks : Reported(w)' = Reported(w)
    <3>. TAKE w \in Weeks
    <3>1. ChargedIn(w)' = ChargedIn(w)
      <4>1. \A i \in ledger.seen : log'[i] = log[i]
        BY <2>1, RecordedStays
      <4>. QED BY <4>1 DEF ChargedIn, Due, Historical, Unlimited, Week
    <3>2. \A i \in ledger.seen : Consumed(i)' = Consumed(i)
      BY <2>1, RecordedStays
    <3>. QED BY <2>1, <3>1, <3>2, ReportedStays
  <2>3. \A i \in ledger.seen : Hidden(i)' <=> Hidden(i)
    BY <2>1, RecordedStays
  <2>. QED BY <2>2, <2>3 DEF ChargedOnce, Books
<1>. QED BY <1>2, <1>3

\* A ledger that sees nothing new.
LEMMA MovesKeepBooks ==
  ASSUME Inv, Books, UNCHANGED log, ledger'.seen = ledger.seen, ledger'.cursor = ledger.cursor,
         ledger.blocked => ledger'.blocked, \A w \in Weeks : Charge(w)' = Charge(w)
  PROVE  Booked' /\ ChargedOnce'
<1>1. Usages' = Usages
  BY DEF Usages
<1>2. \A i \in Usages : Consumed(i)' = Consumed(i) /\ (Hidden(i)' <=> Hidden(i))
  BY <1>1 DEF Consumed, Hidden, Before, Last
<1>3. ledger.seen \subseteq Usages
  BY DEF Books, Booked
<1>4. \A w \in Weeks : Reported(w)' = Reported(w)
  <2>. TAKE w \in Weeks
  <2>1. ChargedIn(w)' = ChargedIn(w)
    BY DEF ChargedIn, Due, Historical, Unlimited, Week
  <2>. QED BY <1>2, <1>3, <2>1, ReportedStays
<1>5. ChargedOnce'
  BY <1>2, <1>3, <1>4 DEF ChargedOnce, Books, Charge
<1>6. Booked'
  BY <1>1 DEF Books, Booked, Cursor, Historical
<1>. QED BY <1>5, <1>6

\* recordUsage of an event the ledger has not seen.
LEMMA ChargedIs ==
  ASSUME Inv, NEW i \in Usages, i \notin ledger.seen, NEW k,
         k \in {Charged(ledger, i), Blocked(Charged(ledger, i))}
  PROVE  LET e == log[i]
             c == ledger.cursor
         IN  /\ k.seen = ledger.seen \union {i} /\ k.others = ledger.others
             /\ ~k.blocked => ~ledger.blocked
             /\ k.cursor = IF Ahead(c, e) THEN [known |-> TRUE, total |-> e.total, at |-> e.at] ELSE c
             /\ \A w \in Weeks :
                  k.used[w] = IF Ahead(c, e) /\ w = Week(e.at) /\ ~Unlimited(e.at)
                              THEN ledger.used[w] + Delta(c, e) ELSE ledger.used[w]
<1>. DEFINE e == log[i]
            c == ledger.cursor
            u == Week(e.at)
            x == IF Unlimited(e.at) THEN 0 ELSE Delta(c, e)
            n == [known |-> TRUE, total |-> e.total, at |-> e.at]
<1>1. ledger \in Ledgers
  BY DEF Inv, Shape
<1>2. CASE ~Ahead(c, e)
  <2>1. Charged(ledger, i) = [ledger EXCEPT !.seen = @ \union {i}]
    BY <1>2 DEF Charged
  <2>. QED BY <1>1, <1>2, <2>1 DEF Blocked, Ledgers
<1>3. CASE Ahead(c, e)
  <2>1. Charged(ledger, i) = [ledger EXCEPT !.seen = @ \union {i}, !.cursor = n, !.used[u] = @ + x]
    BY <1>3 DEF Charged
  <2>2. x = IF Unlimited(e.at) THEN 0 ELSE Delta(c, e)
    OBVIOUS
  <2>. HIDE DEF n, x, u
  <2>3. /\ k.seen = ledger.seen \union {i} /\ k.others = ledger.others
        /\ ~k.blocked => ~ledger.blocked
        /\ k.cursor = n /\ k.used = [ledger.used EXCEPT ![u] = @ + x]
    BY <1>1, <2>1 DEF Blocked, Ledgers
  <2>4. ASSUME NEW w \in Weeks
        PROVE k.used[w] = IF w = u /\ ~Unlimited(e.at) THEN ledger.used[w] + Delta(c, e) ELSE ledger.used[w]
    <3>1. ledger.used[w] \in Int /\ ledger.used \in [Weeks -> Int]
      BY <1>1 DEF Ledgers
    <3>2. CASE w # u
      BY <2>3, <3>1, <3>2
    <3>3. CASE w = u /\ Unlimited(e.at)
      <4>1. x = 0 /\ k.used[w] = ledger.used[w] + x
        BY <2>2, <2>3, <3>1, <3>3
      <4>. QED BY <3>1, <3>3, <4>1
    <3>4. CASE w = u /\ ~Unlimited(e.at)
      <4>1. x = Delta(c, e) /\ k.used[w] = ledger.used[w] + x
        BY <2>2, <2>3, <3>1, <3>4
      <4>. QED BY <3>4, <4>1
    <3>. QED BY <3>2, <3>3, <3>4
  <2>. QED BY <1>3, <2>3, <2>4 DEF n, u
<1>. QED BY <1>2, <1>3

LEMMA ChargeKeepsBooks ==
  ASSUME Inv, Books, ~ledger.blocked, UNCHANGED log, NEW i \in Usages, i = observed + 1,
         i \in ledger.seen \/ Consistent(ledger.cursor, log[i]),
         ledger' \in {Charged(ledger, i), Blocked(Charged(ledger, i))}
  PROVE  Booked' /\ ChargedOnce'
<1>. DEFINE e == log[i]
            c == ledger.cursor
<1>0. ledger \in Ledgers /\ i \in Nat /\ i >= 1 /\ Usages \subseteq Nat /\ Usages \subseteq 1 .. Len(log)
  BY UsagesAre DEF Inv, Shape
<1>1. CASE i \in ledger.seen
  <2>1. /\ ledger'.seen = ledger.seen /\ ledger'.cursor = ledger.cursor
        /\ ledger.blocked => ledger'.blocked
        /\ ledger'.used = ledger.used /\ ledger'.others = ledger.others
    BY <1>0, <1>1 DEF Charged, Blocked, Ledgers
  <2>. QED BY <2>1, MovesKeepBooks DEF Charge
<1>2. CASE i \notin ledger.seen
  <2>1. \A j \in Usages : j < i => j \in ledger.seen
    <3>1. \A j \in Usages : j < i => j \in 1 .. observed
      BY <1>0, LenProperties DEF Inv, Shape
    <3>. QED BY <3>1 DEF Inv, Observed, Settled, Usages
  <2>2. /\ ledger'.seen = ledger.seen \union {i} /\ ledger'.others = ledger.others
        /\ ~ledger'.blocked => ~ledger.blocked
        /\ ledger'.cursor = IF Ahead(c, e) THEN [known |-> TRUE, total |-> e.total, at |-> e.at] ELSE c
        /\ \A w \in Weeks :
             ledger'.used[w] = IF Ahead(c, e) /\ w = Week(e.at) /\ ~Unlimited(e.at)
                               THEN ledger.used[w] + Delta(c, e) ELSE ledger.used[w]
    BY <1>2, ChargedIs
  <2>3. /\ ~Historical(e) => /\ Ahead(c, e) /\ Delta(c, e) \in Int /\ Delta(c, e) <= Consumed(i)
                             /\ ~Hidden(i) => Delta(c, e) = Consumed(i)
        /\ Historical(e) => ~Ahead(c, e) /\ i = 1
    <3>1. ~Historical(e) => /\ Ahead(c, e) /\ Delta(c, e) \in Int /\ Delta(c, e) <= Consumed(i)
                            /\ ~Hidden(i) => Delta(c, e) = Consumed(i)
      BY <1>2, <2>1, DeltaIsConsumed DEF Books
    <3>. QED BY <3>1 DEF Ahead, Books, LogInOrder
  <2>4. Usages' = Usages /\ ledger.seen \subseteq Usages
    BY DEF Usages, Books, Booked
  <2>5. \A j \in Usages : Consumed(j)' = Consumed(j) /\ (Hidden(j)' <=> Hidden(j))
    BY <2>4 DEF Consumed, Hidden, Before, Last
  <2>6. Booked'
    <3>1. \A h \in ledger'.seen : \A j \in Usages' : j < h => j \in ledger'.seen
      BY <2>1, <2>2, <2>4 DEF Books, Booked
    <3>2. \A j \in ledger.seen : j <= i
      <4>1. ASSUME NEW j \in ledger.seen, i < j PROVE FALSE
        BY <1>2, <4>1 DEF Books, Booked
      <4>2. ASSUME NEW j \in ledger.seen PROVE j \in Nat /\ i \in Nat /\ ~(i < j)
        BY <1>0, <2>4, <4>1
      <4>. QED BY <4>2
    <3>3. CASE Historical(e)
      <4>1. ledger'.cursor = c /\ i = 1
        BY <2>2, <2>3, <3>3
      <4>2. c.known
        BY <3>3 DEF Books, Booked
      <4>3. PICK m \in Usages : Cursor(m)
        BY <4>2 DEF Books, Booked
      <4>4. 1 <= m
        BY <1>0, <4>3
      <4>5. Cursor(m)'
        BY <2>2, <4>1, <4>3, <4>4 DEF Cursor, Historical
      <4>. QED BY <2>2, <2>4, <3>1, <4>1, <4>2, <4>5 DEF Booked
    <3>4. CASE ~Historical(e)
      <4>1. ledger'.cursor = [known |-> TRUE, total |-> e.total, at |-> e.at]
        BY <2>2, <2>3, <3>4
      <4>2. Cursor(i)'
        BY <1>0, <2>2, <3>2, <4>1 DEF Cursor
      <4>. QED BY <2>2, <2>4, <3>1, <4>1, <4>2 DEF Booked
    <3>. QED BY <3>3, <3>4
  <2>7. ASSUME NEW w \in Weeks
        PROVE  /\ Charge(w)' <= Reported(w)'
               /\ (\A j \in ledger'.seen : ~Hidden(j)') => Charge(w)' = Reported(w)'
    <3>1. Charge(w) \in Int /\ ledger.used[w] \in Int /\ ledger.others[w] \in Int
      BY <1>0 DEF Charge, Ledgers
    <3>2. /\ Charge(w) <= Reported(w)
          /\ (\A j \in ledger.seen : ~Hidden(j)) => Charge(w) = Reported(w)
      BY DEF Books, ChargedOnce, Charge
    <3>3. (\A j \in ledger'.seen : ~Hidden(j)') => (\A j \in ledger.seen : ~Hidden(j)) /\ ~Hidden(i)
      BY <2>2, <2>4, <2>5
    <3>4. \A j \in ledger.seen : Due(j, w)' <=> Due(j, w)
      BY DEF Due, Historical, Unlimited, Week
    <3>5. Due(i, w)' <=> Due(i, w)
      BY DEF Due, Historical, Unlimited, Week
    <3>6. CASE Due(i, w)
      <4>1. ChargedIn(w)' = ChargedIn(w) \union {i}
        BY <2>2, <3>4, <3>5, <3>6 DEF ChargedIn
      <4>2. Reported(w)' = Reported(w) + Consumed(i) /\ Reported(w) \in Int
        BY <1>2, <2>4, <2>5, <4>1, ReportedGrows
      <4>3. ~Historical(e) /\ w = Week(e.at) /\ ~Unlimited(e.at)
        BY <3>6 DEF Due
      <4>. DEFINE d == Delta(c, e)
      <4>4. ledger'.used[w] = ledger.used[w] + d /\ ledger'.others[w] = ledger.others[w]
        BY <2>2, <2>3, <4>3
      <4>5. d \in Int /\ d <= Consumed(i) /\ (~Hidden(i) => d = Consumed(i)) /\ Consumed(i) \in Int
        BY <2>3, <4>3, ConsumedIsInt
      <4>. HIDE DEF d
      <4>6. Charge(w)' = Charge(w) + d
        BY <3>1, <4>4, <4>5 DEF Charge
      <4>. QED BY <3>1, <3>2, <3>3, <4>2, <4>5, <4>6
    <3>7. CASE ~Due(i, w)
      <4>1. ChargedIn(w)' = ChargedIn(w)
        BY <2>2, <3>4, <3>5, <3>7 DEF ChargedIn
      <4>2. Reported(w)' = Reported(w)
        BY <2>4, <2>5, <4>1, ReportedStays
      <4>3. ledger'.used[w] = ledger.used[w] /\ ledger'.others[w] = ledger.others[w]
        BY <2>2, <2>3, <3>7 DEF Due
      <4>4. Charge(w)' = Charge(w)
        BY <4>3 DEF Charge
      <4>. QED BY <3>2, <3>3, <4>2, <4>4
    <3>. QED BY <3>6, <3>7
  <2>8. ChargedOnce'
    BY <2>7 DEF ChargedOnce, Charge
  <2>. QED BY <2>6, <2>8
<1>. QED BY <1>1, <1>2

\* Codex goes on, stops or is replaced, and the clock goes on.
LEMMA CodexKeepsOrder ==
  ASSUME Inv, LogInOrder, UNCHANGED log, now' \in Nat, now' >= now, codex' \in Codexes,
         codex'.run >= codex.run, codex'.owed <= codex'.total,
         codex'.run = codex.run => codex'.total - codex'.owed >= codex.total - codex.owed
  PROVE  LogInOrder'
<1>1. Usages' = Usages /\ codex \in Codexes /\ now \in Nat
  BY DEF Usages, Inv, Shape
<1>2. ASSUME NEW i \in Usages
      PROVE  /\ log[i].at <= now' /\ log[i].run <= codex'.run
             /\ log[i].run = codex'.run => log[i].total + codex'.owed <= codex'.total
  <2>1. /\ log[i].at \in Nat /\ log[i].run \in Nat /\ log[i].total \in Nat
        /\ log[i].at <= now /\ log[i].run <= codex.run
        /\ log[i].run = codex.run => log[i].total + codex.owed <= codex.total
    BY UsagesAre DEF LogInOrder, Reports
  <2>2. /\ codex.run \in Nat /\ codex.total \in Nat /\ codex.owed \in Nat
        /\ codex'.run \in Nat /\ codex'.total \in Nat /\ codex'.owed \in Nat
    BY <1>1 DEF Codexes
  <2>3. log[i].at <= now' /\ log[i].run <= codex'.run
    BY <1>1, <2>1, <2>2
  <2>4. log[i].run = codex'.run => log[i].total + codex'.owed <= codex'.total
    BY <2>1, <2>2
  <2>. QED BY <2>3, <2>4
<1>3. now' > Activation
  BY <1>1 DEF LogInOrder, Activation
<1>. QED BY <1>1, <1>2, <1>3 DEF LogInOrder, Historical

LEMMA RecordKeepsOrder ==
  ASSUME Inv, LogInOrder, NEW e \in Starts \union Ends \union Reports, Record(e), e.at = now,
         UNCHANGED now, codex' \in Codexes, codex'.total = codex.total, codex'.run = codex.run,
         codex'.owed <= codex.owed,
         e \in Reports => /\ e.run = codex.run /\ e.total = codex.total
                          /\ e.last = codex.owed /\ codex.owed > 0 /\ codex'.owed = 0
  PROVE  LogInOrder'
<1>1. codex \in Codexes /\ now \in Nat /\ Len(log) \in Nat /\ now > Activation /\ codex.owed <= codex.total
  BY UsagesAre DEF Inv, Shape, LogInOrder
<1>2. /\ codex.run \in Nat /\ codex.total \in Nat /\ codex.owed \in Nat /\ codex'.owed \in Nat
      /\ codex.owed <= codex.total
  BY <1>1 DEF Codexes
<1>3. \A i \in Usages : log[i] \in Reports /\ log'[i] = log[i]
  BY UsagesAre, RecordedStays
<1>4. \A i \in Usages' : \/ i \in Usages
                         \/ e \in Reports /\ log'[i] = e /\ i = Len(log) + 1 /\ \A j \in Usages : j < i
  BY RecordedStays
<1>5. e \in Reports => /\ e.total >= 1 /\ e.total + codex'.owed <= codex'.total
                       /\ ~Historical(e)
  BY <1>1, <1>2 DEF Historical, Activation
<1>6. ASSUME NEW i \in Usages'
      PROVE  /\ log'[i].at <= now /\ log'[i].run <= codex.run /\ log'[i].total >= 1
             /\ log'[i].run = codex.run => log'[i].total + codex'.owed <= codex.total
             /\ Historical(log'[i]) => i = 1
  <2>1. CASE i \in Usages
    <3>1. /\ log[i].at <= now /\ log[i].run <= codex.run /\ log[i].total >= 1
          /\ log[i].run = codex.run => log[i].total + codex.owed <= codex.total
          /\ Historical(log[i]) => i = 1
      BY <2>1 DEF LogInOrder
    <3>2. log[i].total \in Nat /\ log'[i] = log[i]
      BY <1>3, <2>1 DEF Reports
    <3>. QED BY <1>2, <3>1, <3>2
  <2>2. CASE i \notin Usages
    <3>1. log'[i] = e /\ e \in Reports
      BY <1>4, <2>2
    <3>. QED BY <1>1, <1>2, <1>5, <3>1
  <2>. QED BY <2>1, <2>2
<1>7. ASSUME NEW i \in Usages', NEW j \in Usages', i < j
      PROVE  /\ log'[i].at <= log'[j].at /\ log'[i].run <= log'[j].run
             /\ log'[i].run = log'[j].run => log'[i].total + log'[j].last <= log'[j].total
  <2>1. i \in Usages
    <3>1. CASE j \in Usages
      <4>1. j \in Nat /\ j <= Len(log)
        BY <1>1, <3>1, UsagesAre
      <4>. QED BY <1>1, <1>4, <1>7, <4>1
    <3>2. CASE j \notin Usages
      <4>1. j = Len(log) + 1
        BY <1>4, <3>2
      <4>. QED BY <1>1, <1>4, <1>7, <4>1
    <3>. QED BY <3>1, <3>2
  <2>2. CASE j \in Usages
    BY <1>3, <1>7, <2>1, <2>2 DEF LogInOrder
  <2>3. CASE j \notin Usages
    <3>1. log'[j] = e /\ e \in Reports
      BY <1>4, <2>3
    <3>. QED BY <1>3, <2>1, <3>1 DEF LogInOrder
  <2>. QED BY <2>2, <2>3
<1>. QED BY <1>1, <1>2, <1>6, <1>7 DEF LogInOrder, Historical

LEMMA InitBooks == Init => Books
<1>. SUFFICES ASSUME Init PROVE Books
  OBVIOUS
<1>0. Inv
  BY InitInv
<1>1. PICK old \in BOOLEAN :
        /\ ledger = [blocked |-> FALSE, seen |-> {},
                     used |-> [w \in Weeks |-> 0], others |-> [w \in Weeks |-> 0],
                     cursor |-> IF old THEN [known |-> TRUE, total |-> 1, at |-> Activation]
                                ELSE NoCursor]
        /\ log = IF old THEN <<Earlier>> ELSE <<>>
        /\ codex = IF old THEN [NewCodex EXCEPT !.total = 1] ELSE NewCodex
        /\ now = Activation + 1
  BY DEF Init
<1>2. codex.owed = 0 /\ codex.run = 1 /\ codex.total \in Nat /\ (old => codex.total = 1)
  BY <1>1 DEF NewCodex
<1>3. IF old THEN Usages = {1} /\ log[1] = Earlier ELSE Usages = {}
  <2>1. CASE old
    <3>1. Len(log) = 1 /\ log[1] = Earlier /\ Earlier.kind = "usage"
      BY <1>1, <2>1 DEF Earlier
    <3>. QED BY <2>1, <3>1 DEF Usages
  <2>2. CASE ~old
    <3>1. Len(log) = 0
      BY <1>1, <2>2
    <3>. QED BY <2>2, <3>1 DEF Usages
  <2>. QED BY <2>1, <2>2
<1>4. /\ Earlier.at = 0 /\ Earlier.run = 1 /\ Earlier.total = 1
  BY DEF Earlier, Activation
<1>5. LogInOrder
  <2>1. now = 1 /\ now > Activation /\ codex.owed <= codex.total
    BY <1>1, <1>2 DEF Activation
  <2>2. CASE old
    <3>1. \A i \in Usages : i = 1 /\ log[i] = Earlier
      BY <1>3, <2>2
    <3>2. \A i, j \in Usages : ~(i < j)
      BY <3>1
    <3>3. Earlier.at <= now /\ Earlier.run <= codex.run /\ Earlier.total >= 1
          /\ Earlier.total + codex.owed <= codex.total
      BY <1>2, <1>4, <2>1, <2>2
    <3>. QED BY <2>1, <3>1, <3>2, <3>3 DEF LogInOrder
  <2>3. CASE ~old
    BY <1>3, <2>1, <2>3 DEF LogInOrder
  <2>. QED BY <2>2, <2>3
<1>6. Booked
  <2>1. ledger.seen = {} /\ ledger.cursor.known = old
    BY <1>1 DEF NoCursor
  <2>2. CASE old
    <3>1. Cursor(1)
      BY <1>1, <1>3, <1>4, <2>2 DEF Cursor, Historical, Activation
    <3>. QED BY <1>3, <2>1, <2>2, <3>1 DEF Booked
  <2>3. CASE ~old
    BY <1>3, <2>1, <2>3 DEF Booked
  <2>. QED BY <2>2, <2>3
<1>7. ChargedOnce
  <2>. SUFFICES ASSUME NEW w \in Weeks PROVE Reported(w) = 0 /\ ledger.used[w] = 0 /\ ledger.others[w] = 0
    BY DEF ChargedOnce
  <2>. DEFINE S == ChargedIn(w)
              h == [i \in S |-> Consumed(i)]
  <2>1. S = {}
    BY <1>1 DEF ChargedIn
  <2>. HIDE DEF S, h
  <2>2. PICK it : IsSum(it, h, S) /\ Reported(w) = it[S]
    BY <2>1, FS_EmptySet, ReportedIsSum DEF S, h
  <2>3. it[S] = 0
    BY <2>1, <2>2, SumUnfolds
  <2>. QED BY <1>1, <2>2, <2>3
<1>. QED BY <1>5, <1>6, <1>7 DEF Books

\* Steps that leave the ledger, the log, Codex and the clock alone.
LEMMA BooksStay ==
  ASSUME Inv, Books, UNCHANGED <<log, codex, now>>, ledger'.seen = ledger.seen,
         ledger'.cursor = ledger.cursor, ledger.blocked => ledger'.blocked,
         \A w \in Weeks : Charge(w)' = Charge(w)
  PROVE  Books'
<1>1. Booked' /\ ChargedOnce'
  BY MovesKeepBooks DEF Books
<1>2. LogInOrder'
  BY DEF Books, LogInOrder, Usages, Historical
<1>. QED BY <1>1, <1>2 DEF Books

LEMMA NextBooks == Inv /\ Books /\ [Next]_vars => Books'
<1>. SUFFICES ASSUME Inv, Books, [Next]_vars PROVE Books'
  OBVIOUS
<1>0. /\ ledger \in Ledgers /\ codex \in Codexes /\ now \in Nat
      /\ Blocked(ledger).seen = ledger.seen /\ Blocked(ledger).cursor = ledger.cursor
      /\ Blocked(ledger).used = ledger.used /\ Blocked(ledger).others = ledger.others
      /\ Blocked(ledger).blocked /\ Blocked(Blocked(ledger)) = Blocked(ledger)
  BY DEF Inv, Shape, Blocked, Ledgers
<1>1. ASSUME UNCHANGED <<log, codex, now>>, ledger' \in {ledger, Blocked(ledger)} PROVE Books'
  <2>1. /\ ledger'.seen = ledger.seen /\ ledger'.cursor = ledger.cursor
        /\ ledger.blocked => ledger'.blocked
        /\ ledger'.used = ledger.used /\ ledger'.others = ledger.others
    BY <1>0, <1>1
  <2>. QED BY <1>1, <2>1, BooksStay DEF Charge
<1>2. ASSUME UNCHANGED <<log, codex, now>>, step = "record", ~ledger.blocked,
             (observed + 1) \in ledger.seen \/ Consistent(ledger.cursor, Event),
             ledger' \in {Charged(ledger, observed + 1), Blocked(Charged(ledger, observed + 1))}
      PROVE  Books'
  <2>1. observed + 1 \in Usages
    <3>1. observed < Len(log) /\ log[observed + 1].kind = "usage"
      BY <1>2 DEF Inv, AtReport
    <3>2. observed + 1 \in 1 .. Len(log)
      BY <3>1, LenProperties DEF Inv, Shape
    <3>. QED BY <3>1, <3>2 DEF Usages
  <2>2. Booked' /\ ChargedOnce'
    BY <1>2, <2>1, ChargeKeepsBooks DEF Event
  <2>3. LogInOrder'
    BY <1>2 DEF Books, LogInOrder, Usages, Historical
  <2>. QED BY <2>2, <2>3 DEF Books
<1>3. CASE Account
  <2>1. UNCHANGED <<log, codex, now>> /\ step = "record" /\ ~ledger.blocked
        /\ ((observed + 1) \in ledger.seen \/ Consistent(ledger.cursor, Event))
        /\ ledger' = Charged(ledger, observed + 1)
    BY <1>3 DEF Account, external
  <2>. QED BY <1>2, <2>1
<1>4. CASE AccountFails
  <2>. DEFINE bad == ~((observed + 1) \in ledger.seen \/ Consistent(ledger.cursor, Event))
  <2>1. UNCHANGED <<log, codex, now>> /\ step = "record"
    BY <1>4 DEF AccountFails, external
  <2>2. CASE ledger.blocked \/ bad
    <3>1. ledger' \in {ledger, Blocked(ledger), Blocked(Blocked(ledger))}
      BY <1>4, <2>2 DEF AccountFails
    <3>. QED BY <1>0, <1>1, <2>1, <3>1
  <2>3. CASE ~ledger.blocked /\ ~bad
    <3>1. ledger' \in {ledger, Charged(ledger, observed + 1), Blocked(Charged(ledger, observed + 1))}
      BY <1>4, <2>3 DEF AccountFails
    <3>2. CASE ledger' = ledger
      BY <1>1, <2>1, <3>2
    <3>3. CASE ledger' # ledger
      BY <1>2, <2>1, <2>3, <3>1, <3>3
    <3>. QED BY <3>2, <3>3
  <2>. QED BY <2>2, <2>3
<1>5. CASE Mark \/ Observe \/ Acknowledge \/ Poll \/ Bind
  BY <1>1, <1>5 DEF Mark, Observe, Acknowledge, Poll, Bind, external
<1>6. ASSUME NEW t \in Turns, Expire(t) PROVE Books'
  BY <1>1, <1>6 DEF Expire, external
<1>7. CASE Replace \/ UNCHANGED vars
  BY <1>1, <1>7 DEF Replace, Renew, external, vars
<1>8. ASSUME NEW e \in Starts \union Ends \union Reports, Record(e), e.at = now, UNCHANGED <<ledger, now>>,
             codex' \in Codexes, codex'.total = codex.total, codex'.run = codex.run,
             codex'.owed <= codex.owed,
             e \in Reports => /\ e.run = codex.run /\ e.total = codex.total
                              /\ e.last = codex.owed /\ codex.owed > 0 /\ codex'.owed = 0
      PROVE  Books'
  <2>1. Booked' /\ ChargedOnce'
    BY <1>8, RecordKeepsBooks
  <2>2. LogInOrder'
    BY <1>8, RecordKeepsOrder DEF Books
  <2>. QED BY <2>1, <2>2 DEF Books
<1>9. ASSUME NEW t \in Turns, Interrupted(t) PROVE Books'
  <2>1. t \in Nat
    BY BudgetAssumption DEF Turns
  <2>2. CASE UNCHANGED external
    BY <1>1, <1>9, <2>2 DEF Interrupted, external
  <2>3. CASE ~UNCHANGED external
    <3>. DEFINE e == [kind |-> "completed", turn |-> t, status |-> "interrupted", at |-> now]
    <3>1. Record(e) /\ codex' = [codex EXCEPT !.turn = NoTurn] /\ UNCHANGED <<ledger, now>>
      BY <1>9, <2>3 DEF Interrupted
    <3>2. e \in Ends /\ e.at = now /\ e \notin Reports
      BY <1>0, <2>1 DEF Ends, Reports
    <3>3. codex' \in Codexes /\ codex'.total = codex.total /\ codex'.run = codex.run
          /\ codex'.owed <= codex.owed
      BY <1>0, <3>1 DEF Codexes, NoTurn
    <3>. HIDE DEF e
    <3>. QED BY <1>8, <3>1, <3>2, <3>3
  <2>. QED BY <2>2, <2>3
<1>10. CASE Start
  <2>. DEFINE t == codex.begun + 1
              e == [kind |-> "started", turn |-> t, at |-> now]
  <2>1. Record(e) /\ codex' = [codex EXCEPT !.turn = t, !.begun = t] /\ UNCHANGED <<ledger, now>>
    BY <1>10 DEF Start
  <2>2. e \in Starts /\ e.at = now /\ e \notin Reports /\ t \in Nat
    BY <1>0 DEF Starts, Reports, Codexes
  <2>. HIDE DEF e, t
  <2>3. codex' \in Codexes
    BY <1>0, <2>1, <2>2, CodexChanges
  <2>4. codex'.total = codex.total /\ codex'.run = codex.run /\ codex'.owed = codex.owed
        /\ codex.owed \in Nat
    BY <1>0, <2>1 DEF Codexes
  <2>5. codex'.owed <= codex.owed
    BY <2>4
  <2>. QED BY <1>8, <2>1, <2>2, <2>3, <2>4, <2>5
<1>11. CASE Report
  <2>. DEFINE e == [kind |-> "usage", turn |-> codex.begun, total |-> codex.total,
                    last |-> codex.owed, at |-> now, run |-> codex.run]
  <2>1. Record(e) /\ codex' = [codex EXCEPT !.owed = 0] /\ UNCHANGED <<ledger, now>> /\ codex.owed > 0
    BY <1>11 DEF Report, Idle
  <2>2. e \in Reports /\ e.at = now /\ e.run = codex.run /\ e.total = codex.total /\ e.last = codex.owed
    BY <1>0 DEF Reports, Codexes
  <2>. HIDE DEF e
  <2>3. codex' \in Codexes /\ codex'.total = codex.total /\ codex'.run = codex.run
        /\ codex'.owed <= codex.owed /\ codex'.owed = 0
    BY <1>0, <2>1 DEF Codexes
  <2>. QED BY <1>8, <2>1, <2>2, <2>3
<1>12. CASE End
  <2>1. PICK s \in {"completed", "failed"} :
          Record([kind |-> "completed", turn |-> codex.turn, status |-> s, at |-> now])
    BY <1>12 DEF End
  <2>. DEFINE e == [kind |-> "completed", turn |-> codex.turn, status |-> s, at |-> now]
  <2>2. e \in Ends /\ e.at = now /\ e \notin Reports
    BY <1>0 DEF Ends, Reports, Codexes
  <2>3. Record(e) /\ codex' = [codex EXCEPT !.turn = NoTurn] /\ UNCHANGED <<ledger, now>>
    BY <1>12, <2>1 DEF End, Idle
  <2>4. codex' \in Codexes /\ codex'.total = codex.total /\ codex'.run = codex.run
        /\ codex'.owed <= codex.owed
    BY <1>0, <2>3 DEF Codexes, NoTurn
  <2>. HIDE DEF e
  <2>. QED BY <1>8, <2>2, <2>3, <2>4
<1>13. CASE Respond \/ Omit \/ Tick \/ Restart
  <2>1. /\ UNCHANGED <<ledger, log>> /\ now' \in Nat /\ now' >= now
        /\ codex' \in Codexes /\ codex'.run >= codex.run /\ codex'.owed <= codex'.total
        /\ codex'.run = codex.run => codex'.total - codex'.owed >= codex.total - codex.owed
    <3>0. codex.owed <= codex.total /\ codex.owed \in Nat /\ codex.total \in Nat /\ codex.run \in Nat
      BY <1>0 DEF Books, LogInOrder, Codexes
    <3>1. CASE Respond
      <4>1. PICK n \in 1 .. MaxTokens : codex' = [codex EXCEPT !.total = @ + n, !.owed = n]
        BY <3>1 DEF Respond
      <4>2. n \in Nat /\ codex.owed = 0 /\ UNCHANGED <<ledger, log, now>>
        BY <3>1, BudgetAssumption DEF Respond, Idle
      <4>3. codex' \in Codexes
        BY <1>0, <4>1, <4>2, CodexChanges
      <4>4. codex'.total = codex.total + n /\ codex'.owed = n /\ codex'.run = codex.run
        BY <1>0, <4>1 DEF Codexes
      <4>. QED BY <1>0, <3>0, <4>2, <4>3, <4>4
    <3>2. CASE Omit
      <4>1. codex' = [codex EXCEPT !.owed = 0] /\ UNCHANGED <<ledger, log, now>>
        BY <3>2 DEF Omit, Idle
      <4>2. codex' \in Codexes /\ codex'.total = codex.total /\ codex'.owed = 0 /\ codex'.run = codex.run
        BY <1>0, <4>1 DEF Codexes
      <4>. QED BY <1>0, <3>0, <4>1, <4>2
    <3>3. CASE Tick
      BY <1>0, <3>0, <3>3 DEF Tick, Idle, external
    <3>4. CASE Restart
      <4>1. UNCHANGED <<ledger, log, now>>
        BY <3>4 DEF Restart, Renew
      <4>2. CASE codex' = codex
        BY <1>0, <3>0, <4>1, <4>2
      <4>3. CASE codex' = [codex EXCEPT !.turn = NoTurn, !.total = 0, !.owed = 0, !.run = @ + 1]
        <5>1. codex' \in Codexes
          BY <1>0, <4>3, CodexChanges DEF NoTurn
        <5>2. codex'.total = 0 /\ codex'.owed = 0 /\ codex'.run = codex.run + 1
          BY <1>0, <4>3 DEF Codexes
        <5>. QED BY <1>0, <3>0, <4>1, <5>1, <5>2
      <4>. QED BY <3>4, <4>2, <4>3 DEF Restart
    <3>. QED BY <1>13, <3>1, <3>2, <3>3, <3>4
  <2>2. LogInOrder'
    BY <2>1, CodexKeepsOrder DEF Books
  <2>3. Booked' /\ ChargedOnce'
    BY <2>1, MovesKeepBooks DEF Charge
  <2>. QED BY <2>2, <2>3 DEF Books
<1>14. CASE Elsewhere
  <2>1. CASE ledger' = Blocked(ledger)
    BY <1>1, <1>14, <2>1 DEF Elsewhere
  <2>2. CASE ledger' # Blocked(ledger)
    <3>. DEFINE u == Week(now)
    <3>1. PICK n \in 1 .. MaxTokens :
            ledger' = [ledger EXCEPT !.used[u] = @ + n, !.others[u] = @ + n]
      BY <1>14, <2>2 DEF Elsewhere
    <3>2. n \in Int
      BY BudgetAssumption
    <3>. HIDE DEF u
    <3>3. /\ ledger'.seen = ledger.seen /\ ledger'.cursor = ledger.cursor
          /\ ledger'.blocked = ledger.blocked
          /\ ledger'.used = [ledger.used EXCEPT ![u] = @ + n]
          /\ ledger'.others = [ledger.others EXCEPT ![u] = @ + n]
      BY <1>0, <3>1 DEF Ledgers
    <3>4. ASSUME NEW w \in Weeks PROVE Charge(w)' = Charge(w)
      <4>1. /\ ledger.used \in [Weeks -> Int] /\ ledger.others \in [Weeks -> Int]
            /\ ledger.used[w] \in Int /\ ledger.others[w] \in Int
        BY <1>0 DEF Ledgers
      <4>2. CASE w = u
        <5>1. ledger'.used[w] = ledger.used[w] + n /\ ledger'.others[w] = ledger.others[w] + n
          BY <3>3, <4>1, <4>2
        <5>. QED BY <3>2, <4>1, <5>1 DEF Charge
      <4>3. CASE w # u
        <5>1. ledger'.used[w] = ledger.used[w] /\ ledger'.others[w] = ledger.others[w]
          BY <3>3, <4>1, <4>3
        <5>. QED BY <5>1 DEF Charge
      <4>. QED BY <4>2, <4>3
    <3>5. UNCHANGED <<log, codex, now>>
      BY <1>14 DEF Elsewhere
    <3>. QED BY <3>3, <3>4, <3>5, BooksStay
  <2>. QED BY <2>1, <2>2
<1>. QED BY <1>3, <1>4, <1>5, <1>6, <1>7, <1>9, <1>10, <1>11, <1>12, <1>13, <1>14 DEF Next, Observer

\* Each week is charged for what its reports say, once: replays, restarts of the
\* runtime and of Codex, and writes that are not acknowledged charge nothing twice,
\* and only a new process that hides behind the old counter is charged for less
\* (weekly-token-budget.ts:372-430).
THEOREM ChargedForWhatIsReported == Spec => []ChargedOnce
<1>1. Books => ChargedOnce
  BY DEF Books
<1>. QED BY InitInv, NextInv, InitBooks, NextBooks, <1>1, PTL DEF Spec

----------------------------------------------------------------------------
(* Nothing else blocks the ledger.                                         *)

Memories == [active : SUBSET Nat, observed : SUBSET Nat, completed : SUBSET Nat, missing : SUBSET Nat,
             stopping : SUBSET Nat, stopped : SUBSET Nat, unavailable : BOOLEAN]

\* What the runtime learns about the turns, but not of their usage.
SameUsage(m, k) == m \in Memories /\ m.observed = k.observed /\ m.missing = k.missing

LEMMA RuntimeLearns ==
  ASSUME NEW m \in Memories, NEW t \in Nat
  PROVE  /\ SameUsage(m, m) /\ SameUsage(Failed(m), m) /\ SameUsage(Interrupting(m), m)
         /\ SameUsage(Stopping(m), m) /\ SameUsage(Bound(m, t), m)
         /\ SameUsage([m EXCEPT !.stopping = @ \ {t}], m)
         /\ SameUsage([m EXCEPT !.stopping = @ \ {t}, !.stopped = @ \union {t}], m)
<1>1. \A k \in Memories : SameUsage(Interrupting(k), k)
  BY DEF SameUsage, Interrupting, Memories
<1>2. SameUsage(m, m) /\ SameUsage(Failed(m), m) /\ SameUsage(Stopping(m), m)
  BY <1>1 DEF SameUsage, Failed, Stopping, Memories
<1>3. SameUsage(Bound(m, t), m)
  <2>. DEFINE b == [m EXCEPT !.active = @ \union {t}]
  <2>1. SameUsage(b, m)
    BY DEF SameUsage, Memories
  <2>2. Bound(m, t) \in {m, b, Interrupting(b)}
    BY DEF Bound
  <2>3. b \in Memories
    BY <2>1 DEF SameUsage
  <2>. HIDE DEF b
  <2>4. SameUsage(Interrupting(b), b)
    BY <1>1, <2>3
  <2>. QED BY <1>2, <2>1, <2>2, <2>4 DEF SameUsage
<1>4. /\ SameUsage([m EXCEPT !.stopping = @ \ {t}], m)
      /\ SameUsage([m EXCEPT !.stopping = @ \ {t}, !.stopped = @ \union {t}], m)
  BY DEF SameUsage, Memories
<1>. QED BY <1>1, <1>2, <1>3, <1>4

\* The first process counts from zero, or from what is on record, and every response
\* is reported.
FirstProcess ==
    /\ codex.run = 1 /\ (Usages = {} => codex.total = codex.owed)
    /\ \A i \in Usages : log[i].run = 1 /\ (Before(i) = {} => log[i].total = log[i].last)

\* The runtime knows whose usage it has observed, and awaits that of turns whose end
\* came without one; if the ledger is blocked, one of these ended the grace period.
Explained ==
    /\ step # "dead" /\ (step = "mark" => ledger.blocked)
    /\ ledger.blocked => \E t \in Turns : Unreported(t)
    /\ ~ledger.blocked =>
         /\ \A j \in Usages : j <= observed => log[j].turn \in memory.observed
         /\ \A t \in memory.missing : t \in Turns => Unreported(t)

QuietInv ==
    /\ troubles \in Nat /\ memory \in Memories
    /\ troubles = 0 => FirstProcess /\ Explained

\* What is recorded stays, and so do the reports before it.
LEMMA PastStays ==
  ASSUME Inv, NEW e \in Starts \union Ends \union Reports, Record(e)
  PROVE  /\ Len(log) \in Nat /\ Len(log') = Len(log) + 1 /\ log'[Len(log) + 1] = e
         /\ \A i \in 1 .. Len(log) : log'[i] = log[i] /\ Before(i)' = Before(i)
         /\ Usages \subseteq 1 .. Len(log)
         /\ Usages' = IF e.kind = "usage" THEN Usages \union {Len(log) + 1} ELSE Usages
         /\ \A n : n = Len(log) + 1 => Before(n)' = Usages
<1>1. Len(log) \in Nat /\ Usages \subseteq 1 .. Len(log)
  BY UsagesAre
<1>2. Len(log') = Len(log) + 1 /\ log'[Len(log) + 1] = e /\ \A i \in 1 .. Len(log) : log'[i] = log[i]
  BY AppendProperties DEF Record, Inv, Shape
<1>3. \A i \in 1 .. Len(log) : i \in Usages' <=> i \in Usages
  BY <1>1, <1>2 DEF Usages
<1>4. Usages' \subseteq 1 .. (Len(log) + 1) /\ (Len(log) + 1 \in Usages' <=> e.kind = "usage")
  BY <1>1, <1>2 DEF Usages
<1>5. Usages' = IF e.kind = "usage" THEN Usages \union {Len(log) + 1} ELSE Usages
  <2>1. \A i \in 1 .. (Len(log) + 1) : i \in 1 .. Len(log) \/ i = Len(log) + 1
    BY <1>1
  <2>2. Len(log) + 1 \notin Usages
    BY <1>1
  <2>3. \A i \in Usages' : i \in Usages \/ i = Len(log) + 1
    BY <1>3, <1>4, <2>1
  <2>4. Usages \subseteq Usages'
    BY <1>1, <1>3
  <2>5. CASE e.kind = "usage"
    <3>1. Len(log) + 1 \in Usages'
      BY <1>4, <2>5
    <3>2. Usages' = Usages \union {Len(log) + 1}
      BY <2>3, <2>4, <3>1
    <3>. QED BY <2>5, <3>2
  <2>6. CASE e.kind # "usage"
    <3>1. Len(log) + 1 \notin Usages'
      BY <1>4, <2>6
    <3>2. Usages' = Usages
      BY <2>3, <2>4, <3>1
    <3>. QED BY <2>6, <3>2
  <2>. QED BY <2>5, <2>6
<1>6. \A i \in 1 .. Len(log) : Before(i)' = Before(i)
  <2>. SUFFICES ASSUME NEW i \in 1 .. Len(log) PROVE Before(i)' = Before(i)
    OBVIOUS
  <2>1. ~(Len(log) + 1 < i)
    BY <1>1
  <2>. QED BY <1>5, <2>1 DEF Before
<1>7. ASSUME NEW n, n = Len(log) + 1 PROVE Before(n)' = Usages
  <2>1. (\A j \in Usages : j < n) /\ ~(n < n)
    BY <1>1, <1>7
  <2>2. {j \in Usages' : j < n} = Usages
    BY <1>5, <1>7, <2>1
  <2>. QED BY <2>2 DEF Before
<1>. QED BY <1>1, <1>2, <1>5, <1>6, <1>7

LEMMA UnreportedStays ==
  ASSUME Inv, NEW e \in Starts \union Ends \union Reports, Record(e), NEW t, Unreported(t)
  PROVE  Unreported(t)'
<1>1. PICK i \in 1 .. Len(log) :
        /\ log[i].kind = "completed" /\ log[i].turn = t /\ log[i].status = "completed"
        /\ \A j \in Before(i) : log[j].turn # t
  BY DEF Unreported
<1>2. i \in 1 .. Len(log') /\ log'[i] = log[i] /\ Before(i)' = Before(i)
  BY PastStays
<1>3. \A j \in Before(i) : log'[j] = log[j]
  BY PastStays DEF Before
<1>. QED BY <1>1, <1>2, <1>3 DEF Unreported

LEMMA CursorBefore ==
  ASSUME Inv, LogInOrder, Booked, ~ledger.blocked, NEW i \in Usages, i \notin ledger.seen,
         ~Historical(log[i]), ledger.cursor.known
  PROVE  \E m \in Usages : Cursor(m) /\ m < i
<1>1. PICK m \in Usages : Cursor(m)
  BY DEF Booked
<1>2. i \in Nat /\ m \in Nat
  BY UsagesAre
<1>3. m < i
  <2>1. CASE m \in ledger.seen
    BY <1>2, <2>1 DEF Booked
  <2>2. CASE m = 1 /\ Historical(log[1])
    <3>1. i # 1 /\ i >= 1
      BY <2>2, UsagesAre
    <3>. QED BY <1>2, <2>2, <3>1
  <2>. QED BY <1>1, <2>1, <2>2 DEF Cursor
<1>. QED BY <1>1, <1>3

\* The evidence of a process nobody replaced, and of which nothing was lost, is
\* never refused.
LEMMA EvidenceIsConsistent ==
  ASSUME Inv, LogInOrder, Booked, FirstProcess, ~ledger.blocked,
         NEW i \in Usages, i \notin ledger.seen, \A j \in Usages : j < i => j \in ledger.seen
  PROVE  Consistent(ledger.cursor, log[i])
<1>. DEFINE e == log[i]
            c == ledger.cursor
<1>1. SUFFICES ASSUME ~Historical(e) PROVE Consistent(c, e)
  BY DEF Consistent, Ahead
<1>2. CASE ~c.known
  <2>1. Before(i) = {}
    BY <1>2 DEF Before, Booked
  <2>. QED BY <1>2, <2>1 DEF Consistent, FirstProcess
<1>3. CASE c.known
  <2>1. PICK m \in Usages : Cursor(m) /\ m < i
    BY <1>1, <1>3, CursorBefore
  <2>2. log[m].run = e.run
    BY <2>1 DEF FirstProcess
  <2>3. c.total + e.last <= e.total
    BY <2>1, <2>2 DEF LogInOrder, Cursor
  <2>4. c.total \in Nat /\ e.last \in Nat /\ e.total \in Nat
    BY UsagesAre DEF Inv, Shape, Ledgers, Reports
  <2>. HIDE DEF c, e
  <2>5. e.total - c.total >= e.last
    BY <2>3, <2>4
  <2>. QED BY <1>3, <2>5 DEF Consistent
<1>. QED BY <1>2, <1>3

LEMMA InitQuiet == Init => QuietInv
<1>. SUFFICES ASSUME Init PROVE QuietInv
  OBVIOUS
<1>1. PICK old \in BOOLEAN :
        /\ ledger.blocked = FALSE
        /\ log = IF old THEN <<Earlier>> ELSE <<>>
        /\ codex = IF old THEN [NewCodex EXCEPT !.total = 1] ELSE NewCodex
        /\ observed = 0 /\ step = "idle" /\ memory = Fresh /\ troubles = 0
  BY DEF Init
<1>2. memory \in Memories /\ memory.missing = {}
  BY <1>1 DEF Fresh, Memories
<1>3. codex.run = 1 /\ codex.owed = 0 /\ (~old => codex.total = 0)
  BY <1>1 DEF NewCodex
<1>4. Earlier.kind = "usage" /\ Earlier.run = 1 /\ Earlier.total = Earlier.last
  BY DEF Earlier
<1>5. FirstProcess
  <2>1. CASE old
    <3>1. Len(log) = 1 /\ log[1] = Earlier
      BY <1>1, <2>1
    <3>2. Usages = {1}
      BY <1>4, <3>1 DEF Usages
    <3>. QED BY <1>3, <1>4, <3>1, <3>2 DEF FirstProcess
  <2>2. CASE ~old
    <3>1. Len(log) = 0
      BY <1>1, <2>2
    <3>2. Usages = {}
      BY <3>1 DEF Usages
    <3>. QED BY <1>3, <2>2, <3>2 DEF FirstProcess
  <2>. QED BY <2>1, <2>2
<1>6. Explained
  <2>1. \A j \in Usages : ~(j <= 0)
    BY DEF Usages
  <2>. QED BY <1>1, <1>2, <2>1 DEF Explained
<1>. QED BY <1>1, <1>2, <1>5, <1>6 DEF QuietInv

\* Once something went wrong, nothing is claimed.
LEMMA TroubleIsQuiet ==
  ASSUME QuietInv, memory' \in Memories, Trouble
  PROVE  QuietInv'
<1>1. troubles' \in Nat /\ troubles' # 0
  BY DEF QuietInv, Trouble
<1>. QED BY <1>1 DEF QuietInv

\* The runtime learns about turns, and nothing is recorded.
LEMMA RuntimeMoves ==
  ASSUME QuietInv, SameUsage(memory', memory), UNCHANGED <<log, observed, troubles>>,
         ledger'.blocked = ledger.blocked, step' \in {step, "idle", "record"},
         codex'.run = codex.run, codex.total = codex.owed => codex'.total = codex'.owed
  PROVE  QuietInv'
<1>1. Usages' = Usages /\ \A i : Before(i)' = Before(i)
  BY DEF Usages, Before
<1>2. \A t : Unreported(t)' <=> Unreported(t)
  BY <1>1 DEF Unreported
<1>3. FirstProcess => FirstProcess'
  BY <1>1 DEF FirstProcess
<1>4. Explained => Explained'
  BY <1>1, <1>2 DEF Explained, SameUsage
<1>. QED BY <1>3, <1>4 DEF QuietInv, SameUsage

\* Something is recorded.
LEMMA RecordingMoves ==
  ASSUME Inv, QuietInv, SameUsage(memory', memory), NEW e \in Starts \union Ends \union Reports, Record(e),
         UNCHANGED <<observed, step, troubles, ledger>>, codex'.run = codex.run,
         codex.total = codex.owed => codex'.total = codex'.owed \/ e.kind = "usage",
         e.kind = "usage" => e.run = codex.run /\ e.total = codex.total /\ e.last = codex.owed
  PROVE  QuietInv'
<1>. DEFINE n == Len(log) + 1
<1>1. /\ Len(log) \in Nat /\ Usages \subseteq 1 .. Len(log) /\ log'[n] = e
      /\ \A i \in Usages : log'[i] = log[i] /\ Before(i)' = Before(i)
      /\ Usages' = IF e.kind = "usage" THEN Usages \union {n} ELSE Usages
  BY PastStays
<1>2. \A k : k = n => Before(k)' = Usages
  BY PastStays
<1>3. ASSUME FirstProcess PROVE FirstProcess'
  <2>1. \A i \in Usages : log'[i].run = 1 /\ (Before(i)' = {} => log'[i].total = log'[i].last)
    BY <1>1, <1>3 DEF FirstProcess
  <2>2. CASE e.kind = "usage"
    <3>1. ASSUME NEW k, k = n
          PROVE  log'[k].run = 1 /\ (Before(k)' = {} => log'[k].total = log'[k].last)
      BY <1>1, <1>2, <1>3, <2>2, <3>1 DEF FirstProcess
    <3>2. Usages' = Usages \union {n}
      BY <1>1, <2>2
    <3>. HIDE DEF n
    <3>3. \A i \in Usages' : log'[i].run = 1 /\ (Before(i)' = {} => log'[i].total = log'[i].last)
      BY <2>1, <3>1, <3>2
    <3>. QED BY <1>3, <3>2, <3>3 DEF FirstProcess
  <2>3. CASE e.kind # "usage"
    BY <1>1, <1>3, <2>1, <2>3 DEF FirstProcess
  <2>. QED BY <2>2, <2>3
<1>4. ASSUME Explained PROVE Explained'
  <2>1. \A t : Unreported(t) => Unreported(t)'
    BY UnreportedStays
  <2>2. observed <= Len(log) /\ observed \in Nat
    BY <1>1 DEF Inv, Shape
  <2>3. \A j \in Usages' : j <= observed => j \in Usages
    <3>1. ~(n <= observed)
      BY <1>1, <2>2
    <3>. QED BY <1>1, <3>1
  <2>4. ~ledger.blocked => \A j \in Usages' : j <= observed => log'[j].turn \in memory.observed
    BY <1>1, <1>4, <2>3 DEF Explained
  <2>. QED BY <1>4, <2>1, <2>4 DEF Explained, SameUsage
<1>. QED BY <1>3, <1>4 DEF QuietInv, SameUsage

\* The next notification is observed.
LEMMA ObservingMoves ==
  ASSUME Inv, QuietInv, Observe
  PROVE  QuietInv'
<1>. DEFINE m == memory
            e == Event
            n == observed + 1
<1>1. /\ observed < Len(log) /\ step = "idle"
      /\ UNCHANGED <<log, codex, ledger, troubles>>
  BY DEF Observe, external, bounds
<1>2. e \in Starts \union Ends \union Reports /\ n \in Nat /\ observed \in Nat /\ n \in 1 .. Len(log)
  BY <1>1, EventIsRecorded, LenProperties DEF Inv, Shape
<1>3. e.turn \in Nat /\ e.kind \in {"started", "completed", "usage"} /\ m \in Memories
  BY <1>2 DEF Starts, Ends, Reports, QuietInv
<1>4. SameUsage(m, m) /\ SameUsage(Bound(m, e.turn), m)
  BY <1>3, RuntimeLearns
<1>5. n \in Usages <=> e.kind = "usage"
  BY <1>2 DEF Usages, Event
<1>6. Usages' = Usages /\ \A i : Before(i)' = Before(i)
  BY <1>1 DEF Usages, Before
<1>7. \A t : Unreported(t)' <=> Unreported(t)
  BY <1>1, <1>6 DEF Unreported
<1>8. FirstProcess => FirstProcess'
  BY <1>1, <1>6 DEF FirstProcess
<1>9. CASE e.kind = "usage"
  <2>1. SameUsage(memory', memory) /\ step' = "record" /\ UNCHANGED observed
    BY <1>4, <1>9 DEF Observe, Remember, GoTo
  <2>. QED BY <1>1, <2>1, RuntimeMoves
<1>10. ASSUME e.kind # "usage", observed' = n, step' = "idle", memory' \in Memories,
              memory'.observed = m.observed,
              Explained => \A t \in memory'.missing : t \in m.missing \/ Unreported(t) \/ ledger.blocked
       PROVE  QuietInv'
  <2>1. \A j \in Usages : j <= n => j <= observed
    <3>. SUFFICES ASSUME NEW j \in Usages, j <= n PROVE j <= observed
      OBVIOUS
    <3>1. j \in Nat /\ j # n
      BY <1>5, <1>10, UsagesAre
    <3>. QED BY <1>2, <3>1
  <2>2. Explained => Explained'
    BY <1>1, <1>6, <1>7, <1>10, <2>1 DEF Explained
  <2>. QED BY <1>1, <1>8, <1>10, <2>2 DEF QuietInv
<1>11. CASE e.kind = "started"
  <2>1. SameUsage(memory', memory) /\ step' = "idle" /\ observed' = n
    BY <1>4, <1>11 DEF Observe, Remember, Advance
  <2>. QED BY <1>10, <1>11, <2>1 DEF SameUsage
<1>12. CASE e.kind = "completed"
  <2>. DEFINE a == Awaited(m, e)
  <2>1. /\ memory' = [m EXCEPT !.active = @ \ {e.turn}, !.stopping = @ \ {e.turn}, !.stopped = @ \ {e.turn},
                               !.completed = @ \union {e.turn}, !.missing = @ \union a]
        /\ step' = "idle" /\ observed' = n
    BY <1>12 DEF Observe, Remember, Advance
  <2>2. a \subseteq Nat
    BY <1>3 DEF Awaited, Memories
  <2>. HIDE DEF a
  <2>3. memory' \in Memories /\ memory'.observed = m.observed /\ memory'.missing = m.missing \union a
    BY <1>3, <2>1, <2>2 DEF Memories
  <2>4. ASSUME Explained, NEW t \in a, ~ledger.blocked PROVE Unreported(t)
    <3>1. e.status = "completed" /\ t = e.turn /\ t \notin m.observed
      BY <2>4 DEF Awaited, a
    <3>2. \A j \in Before(n) : log[j].turn # t
      <4>. SUFFICES ASSUME NEW j \in Usages, j < n PROVE log[j].turn # t
        BY DEF Before
      <4>1. j <= observed
        BY <1>2, UsagesAre
      <4>. QED BY <2>4, <3>1, <4>1 DEF Explained
    <3>. QED BY <1>2, <1>12, <3>1, <3>2 DEF Unreported, Event
  <2>. QED BY <1>10, <1>12, <2>1, <2>3, <2>4
<1>. QED BY <1>3, <1>9, <1>11, <1>12

LEMMA NextQuiet == Inv /\ Books /\ QuietInv /\ [Next]_vars => QuietInv'
<1>. SUFFICES ASSUME Inv, Books, QuietInv, [Next]_vars PROVE QuietInv'
  OBVIOUS
<1>0. /\ memory \in Memories /\ troubles \in Nat /\ Fresh \in Memories
      /\ SameUsage(memory, memory) /\ SameUsage(Failed(memory), memory)
      /\ SameUsage(Interrupting(memory), memory) /\ SameUsage(Stopping(memory), memory)
  <2>1. Fresh \in Memories
    BY DEF Fresh, Memories
  <2>. QED BY <2>1, RuntimeLearns DEF QuietInv
<1>1. /\ ledger \in Ledgers /\ codex \in Codexes /\ now \in Nat /\ Blocked(ledger).blocked
  BY BlockedKeeps DEF Inv, Shape
<1>2. CASE Observe
  BY <1>2, ObservingMoves
<1>3. CASE Account
  <2>. DEFINE i == observed + 1
              m == [memory EXCEPT !.observed = @ \union {Event.turn}, !.missing = @ \ {Event.turn}]
  <2>1. /\ step = "record" /\ ~ledger.blocked /\ ledger' = Charged(ledger, i) /\ memory' \in {m, Interrupting(m)}
        /\ observed' = i /\ step' = "idle" /\ UNCHANGED <<log, codex, troubles>>
    BY <1>3 DEF Account, Remember, Advance, GoTo, external, bounds
  <2>2. observed < Len(log) /\ Event \in Reports /\ observed \in Nat
    BY <2>1, EventIsRecorded, LenProperties DEF Inv, Shape, AtReport, Event
  <2>3. m \in Memories /\ m.observed = memory.observed \union {Event.turn} /\ m.missing \subseteq memory.missing
    BY <1>0, <2>2 DEF Memories, Reports
  <2>. HIDE DEF m
  <2>4. SameUsage(m, m) /\ SameUsage(Interrupting(m), m)
    BY <2>3, RuntimeLearns
  <2>5. memory' \in Memories /\ memory'.observed = memory.observed \union {Event.turn}
        /\ memory'.missing \subseteq memory.missing
    BY <2>1, <2>3, <2>4 DEF SameUsage
  <2>6. ~ledger'.blocked
    BY <1>1, <2>1 DEF Charged, Ledgers
  <2>7. Usages' = Usages /\ \A k : Before(k)' = Before(k)
    BY <2>1 DEF Usages, Before
  <2>8. \A t : Unreported(t)' <=> Unreported(t)
    BY <2>1, <2>7 DEF Unreported
  <2>9. FirstProcess => FirstProcess'
    BY <2>1, <2>7 DEF FirstProcess
  <2>10. \A j \in Usages : j <= i => j <= observed \/ log[j] = Event
    <3>. SUFFICES ASSUME NEW j \in Usages, j <= i, j # i PROVE j <= observed
      BY DEF Event
    <3>. QED BY <2>2, UsagesAre
  <2>11. Explained => Explained'
    BY <2>1, <2>5, <2>6, <2>7, <2>8, <2>10 DEF Explained
  <2>. QED BY <1>0, <2>1, <2>5, <2>9, <2>11 DEF QuietInv
<1>4. CASE Fault \/ Trouble
  <2>1. CASE memory' \in Memories
    BY <1>4, <2>1, TroubleIsQuiet DEF Fault
  <2>2. CASE memory' \notin Memories
    <3>1. CASE \E t \in Turns : Expire(t) \/ Interrupted(t)
      <4>1. PICK t \in Turns : Expire(t) \/ Interrupted(t)
        BY <3>1
      <4>2. t \in Nat
        BY BudgetAssumption DEF Turns
      <4>3. memory' \in {Interrupting(Failed([memory EXCEPT !.missing = @ \ {t}])),
                         Stopping(Failed([memory EXCEPT !.missing = @ \ {t}])),
                         [memory EXCEPT !.stopping = @ \ {t}],
                         [memory EXCEPT !.stopping = @ \ {t}, !.stopped = @ \union {t}]}
        BY <4>1 DEF Expire, Interrupted, Remember
      <4>4. [memory EXCEPT !.missing = @ \ {t}] \in Memories
        BY <1>0 DEF Memories
      <4>5. Failed([memory EXCEPT !.missing = @ \ {t}]) \in Memories
        BY <4>2, <4>4, RuntimeLearns DEF SameUsage
      <4>6. memory' \in Memories
        BY <1>0, <4>2, <4>3, <4>5, RuntimeLearns DEF SameUsage
      <4>. QED BY <2>2, <4>6
    <3>2. CASE ~\E t \in Turns : Expire(t) \/ Interrupted(t)
      <4>1. memory' \in {memory, Failed(memory), Interrupting(memory), Stopping(memory), Fresh}
        <5>1. CASE AccountFails
          BY <5>1 DEF AccountFails, Remember
        <5>2. CASE Mark
          BY <5>2 DEF Mark, Remember
        <5>3. CASE Restart \/ Replace
          BY <5>3 DEF Restart, Replace, Renew, Remember
        <5>4. CASE Omit \/ Elsewhere \/ UNCHANGED vars
          BY <5>4 DEF Omit, Elsewhere, Idle, vars
        <5>5. CASE Account \/ Observe \/ Acknowledge \/ Poll \/ Bind \/ Start \/ Respond \/ Report \/ End \/ Tick
          <6>1. UNCHANGED troubles
            BY <5>5 DEF Account, Observe, Acknowledge, Poll, Bind, Start, Respond, Report, End, Tick, bounds
          <6>. QED BY <1>0, <1>4, <6>1 DEF Fault, Trouble
        <5>. QED BY <3>2, <5>1, <5>2, <5>3, <5>4, <5>5 DEF Next, Observer
      <4>. QED BY <1>0, <2>2, <4>1 DEF SameUsage
    <3>. QED BY <3>1, <3>2
  <2>. QED BY <2>1, <2>2
<1>5. CASE AccountFails /\ ~Fault
  <2>1. /\ UNCHANGED <<log, codex, troubles, observed>> /\ step = "record" /\ step' = "mark"
        /\ memory' = Failed(memory)
    BY <1>5 DEF AccountFails, Remember, GoTo, external, bounds
  <2>2. CASE ledger.blocked
    <3>1. ledger'.blocked
      BY <1>5, <2>2 DEF AccountFails
    <3>2. Usages' = Usages /\ \A k : Before(k)' = Before(k)
      BY <2>1 DEF Usages, Before
    <3>3. \A t : Unreported(t)' <=> Unreported(t)
      BY <2>1, <3>2 DEF Unreported
    <3>4. FirstProcess => FirstProcess'
      BY <2>1, <3>2 DEF FirstProcess
    <3>5. Explained => Explained'
      BY <2>1, <2>2, <3>1, <3>3 DEF Explained
    <3>. QED BY <1>0, <2>1, <3>4, <3>5 DEF QuietInv, SameUsage
  <2>3. CASE ~ledger.blocked
    <3>. DEFINE i == observed + 1
    <3>1. i \notin ledger.seen /\ ~Consistent(ledger.cursor, log[i])
      BY <1>5, <2>3 DEF AccountFails, Event
    <3>2. observed < Len(log) /\ log[i].kind = "usage"
      BY <2>1 DEF Inv, AtReport
    <3>3. i \in Usages /\ observed \in Nat
      BY <3>2, LenProperties DEF Inv, Shape, Usages
    <3>4. \A j \in Usages : j < i => j \in ledger.seen
      <4>. SUFFICES ASSUME NEW j \in Usages, j < i PROVE j \in ledger.seen
        OBVIOUS
      <4>1. j \in 1 .. observed
        BY <3>3, UsagesAre
      <4>. QED BY <2>3, <4>1 DEF Inv, Observed, Settled, Usages
    <3>5. ~FirstProcess
      BY <2>3, <3>1, <3>3, <3>4, EvidenceIsConsistent DEF Books
    <3>. QED BY <1>0, <2>1, <3>5 DEF QuietInv, SameUsage
  <2>. QED BY <2>2, <2>3
<1>6. CASE Mark /\ ~Fault
  <2>1. /\ UNCHANGED <<log, codex, troubles>> /\ step = "mark" /\ step' = "idle"
        /\ ledger' = Blocked(ledger) /\ memory' = Stopping(memory)
    BY <1>6 DEF Mark, Remember, GoTo, external, bounds
  <2>2. Usages' = Usages /\ \A k : Before(k)' = Before(k)
    BY <2>1 DEF Usages, Before
  <2>3. \A t : Unreported(t)' <=> Unreported(t)
    BY <2>1, <2>2 DEF Unreported
  <2>4. FirstProcess => FirstProcess'
    BY <2>1, <2>2 DEF FirstProcess
  <2>5. Explained => Explained'
    BY <1>1, <2>1, <2>3 DEF Explained
  <2>. QED BY <1>0, <2>1, <2>4, <2>5 DEF QuietInv, SameUsage
<1>7. ASSUME NEW t \in Turns, Expire(t), ~Fault PROVE QuietInv'
  <2>. DEFINE m == [memory EXCEPT !.missing = @ \ {t}]
  <2>1. /\ UNCHANGED <<log, codex, troubles, observed, step>> /\ t \in memory.missing
        /\ ledger' = Blocked(ledger) /\ memory' = Stopping(Failed(m))
    BY <1>7 DEF Expire, Remember, external, bounds
  <2>2. t \in Nat
    BY BudgetAssumption DEF Turns
  <2>3. m \in Memories
    BY <1>0 DEF Memories
  <2>. HIDE DEF m
  <2>4. Failed(m) \in Memories
    BY <2>2, <2>3, RuntimeLearns DEF SameUsage
  <2>5. memory' \in Memories
    BY <2>1, <2>2, <2>4, RuntimeLearns DEF SameUsage
  <2>6. Usages' = Usages /\ \A k : Before(k)' = Before(k)
    BY <2>1 DEF Usages, Before
  <2>7. \A s : Unreported(s)' <=> Unreported(s)
    BY <2>1, <2>6 DEF Unreported
  <2>8. FirstProcess => FirstProcess'
    BY <2>1, <2>6 DEF FirstProcess
  <2>9. Explained => \E s \in Turns : Unreported(s)
    BY <2>1 DEF Explained
  <2>10. Explained => Explained'
    BY <1>1, <2>1, <2>7, <2>9 DEF Explained
  <2>. QED BY <1>0, <2>1, <2>5, <2>8, <2>10 DEF QuietInv
<1>8. ASSUME NEW t \in Turns, Interrupted(t), ~Fault PROVE QuietInv'
  <2>1. t \in Nat
    BY BudgetAssumption DEF Turns
  <2>2. SameUsage(memory', memory) /\ UNCHANGED <<ledger, observed, step, troubles, now>>
    <3>1. memory' \in {[memory EXCEPT !.stopping = @ \ {t}],
                       [memory EXCEPT !.stopping = @ \ {t}, !.stopped = @ \union {t}]}
      BY <1>8 DEF Interrupted, Remember
    <3>2. SameUsage(memory', memory)
      BY <1>0, <2>1, <3>1, RuntimeLearns
    <3>. QED BY <1>8, <3>2 DEF Interrupted, bounds
  <2>3. CASE UNCHANGED external
    BY <2>2, <2>3, RuntimeMoves DEF external
  <2>4. CASE ~UNCHANGED external
    <3>. DEFINE e == [kind |-> "completed", turn |-> t, status |-> "interrupted", at |-> now]
    <3>1. Record(e) /\ codex' = [codex EXCEPT !.turn = NoTurn]
      BY <1>8, <2>4 DEF Interrupted
    <3>2. e \in Ends /\ e.kind # "usage"
      BY <1>1, <2>1 DEF Ends
    <3>3. codex'.total = codex.total /\ codex'.run = codex.run /\ codex'.owed = codex.owed
      BY <1>1, <3>1 DEF Codexes
    <3>. HIDE DEF e
    <3>. QED BY <2>2, <3>1, <3>2, <3>3, RecordingMoves
  <2>. QED BY <2>3, <2>4
<1>9. CASE Start
  <2>. DEFINE t == codex.begun + 1
              e == [kind |-> "started", turn |-> t, at |-> now]
  <2>1. Record(e) /\ codex' = [codex EXCEPT !.turn = t, !.begun = t]
        /\ UNCHANGED <<ledger, observed, step, memory, troubles>>
    BY <1>9 DEF Start, bounds
  <2>2. e \in Starts /\ e.kind # "usage"
    BY <1>1 DEF Starts, Codexes
  <2>3. codex'.total = codex.total /\ codex'.run = codex.run /\ codex'.owed = codex.owed
    BY <1>1, <2>1 DEF Codexes
  <2>. HIDE DEF e, t
  <2>. QED BY <1>0, <2>1, <2>2, <2>3, RecordingMoves
<1>10. CASE Report
  <2>. DEFINE e == [kind |-> "usage", turn |-> codex.begun, total |-> codex.total,
                    last |-> codex.owed, at |-> now, run |-> codex.run]
  <2>1. Record(e) /\ codex' = [codex EXCEPT !.owed = 0]
        /\ UNCHANGED <<ledger, observed, step, memory, troubles>>
    BY <1>10 DEF Report, Idle, bounds
  <2>2. e \in Reports /\ e.kind = "usage" /\ e.run = codex.run /\ e.total = codex.total /\ e.last = codex.owed
    BY <1>1 DEF Reports, Codexes
  <2>3. codex'.run = codex.run
    BY <1>1, <2>1 DEF Codexes
  <2>. HIDE DEF e
  <2>. QED BY <1>0, <2>1, <2>2, <2>3, RecordingMoves
<1>11. CASE End
  <2>1. PICK s \in {"completed", "failed"} :
          Record([kind |-> "completed", turn |-> codex.turn, status |-> s, at |-> now])
    BY <1>11 DEF End
  <2>. DEFINE e == [kind |-> "completed", turn |-> codex.turn, status |-> s, at |-> now]
  <2>2. e \in Ends /\ e.kind # "usage"
    BY <1>1 DEF Ends, Codexes
  <2>3. Record(e) /\ codex' = [codex EXCEPT !.turn = NoTurn]
        /\ UNCHANGED <<ledger, observed, step, memory, troubles>>
    BY <1>11, <2>1 DEF End, Idle, bounds
  <2>4. codex'.total = codex.total /\ codex'.run = codex.run /\ codex'.owed = codex.owed
    BY <1>1, <2>3 DEF Codexes
  <2>. HIDE DEF e
  <2>. QED BY <1>0, <2>2, <2>3, <2>4, RecordingMoves
<1>12. CASE Respond
  <2>1. PICK n \in 1 .. MaxTokens : codex' = [codex EXCEPT !.total = @ + n, !.owed = n]
    BY <1>12 DEF Respond
  <2>2. codex.owed = 0 /\ n \in Nat /\ UNCHANGED <<ledger, log, observed, step, memory, troubles>>
    BY <1>12, BudgetAssumption DEF Respond, Idle
  <2>3. codex'.total = codex.total + n /\ codex'.owed = n /\ codex'.run = codex.run
    BY <1>1, <2>1 DEF Codexes
  <2>4. codex.total = codex.owed => codex'.total = codex'.owed
    BY <2>2, <2>3
  <2>. QED BY <1>0, <2>2, <2>3, <2>4, RuntimeMoves
<1>13. CASE Tick \/ Acknowledge \/ Poll \/ UNCHANGED vars
  <2>1. /\ UNCHANGED <<ledger, log, observed, step, codex, troubles>>
        /\ memory' \in {memory, Interrupting(memory)}
    BY <1>13 DEF Tick, Acknowledge, Poll, Idle, Remember, external, bounds, vars
  <2>. QED BY <1>0, <2>1, RuntimeMoves
<1>14. CASE Bind
  <2>1. UNCHANGED <<ledger, log, observed, step, codex, troubles>> /\ memory' = Bound(memory, codex.turn)
    BY <1>14 DEF Bind, Remember, external, bounds
  <2>2. codex.turn \in Nat
    BY <1>1 DEF Codexes
  <2>. QED BY <1>0, <2>1, <2>2, RuntimeLearns, RuntimeMoves
<1>15. CASE Replace
  <2>1. step = "dead" /\ UNCHANGED troubles /\ memory' = Fresh
    BY <1>15 DEF Replace, Alive, Renew, Remember, bounds
  <2>. QED BY <1>0, <2>1 DEF QuietInv, Explained
<1>16. CASE Elsewhere /\ ~Trouble
  <2>1. PICK n \in 1 .. MaxTokens :
          ledger' = [ledger EXCEPT !.used[Week(now)] = @ + n, !.others[Week(now)] = @ + n]
    BY <1>16 DEF Elsewhere
  <2>2. UNCHANGED <<log, observed, step, memory, codex, troubles>>
    BY <1>16 DEF Elsewhere
  <2>3. ledger'.blocked = ledger.blocked
    BY <1>1, <2>1 DEF Ledgers
  <2>. QED BY <1>0, <2>2, <2>3, RuntimeMoves
<1>17. CASE Restart \/ Omit
  BY <1>4, <1>17 DEF Restart, Omit
<1>. QED BY <1>2, <1>3, <1>4, <1>5, <1>6, <1>7, <1>8, <1>9, <1>10, <1>11, <1>12, <1>13, <1>14,
            <1>15, <1>16, <1>17 DEF Next, Observer

\* While nothing is lost and nothing fails, only a completed turn that waited for its
\* report blocks the ledger: no failed or interrupted turn disables the installation,
\* and no report of the process's own counter is taken for inconsistent evidence.
THEOREM NoFalseAlarm == Spec => []OnlySilenceBlocks
<1>1. QuietInv => OnlySilenceBlocks
  BY DEF QuietInv, Explained, OnlySilenceBlocks
<1>. QED BY InitInv, NextInv, InitBooks, NextBooks, InitQuiet, NextQuiet, <1>1, PTL DEF Spec

=============================================================================
