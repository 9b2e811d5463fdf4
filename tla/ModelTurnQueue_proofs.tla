------------------------ MODULE ModelTurnQueue_proofs ------------------------
(***************************************************************************)
(* For any turns, slots, waiting room, restarts and mishaps: the queue     *)
(* file stays valid, work that may go on holds a slot, slots are only      *)
(* exceeded by turns older than the queue, and nobody is overtaken.        *)
(*                                                                         *)
(* First what filter() keeps of a sequence, by the ranks of the positions; *)
(* then what each part of a poll does to the set of tickets.  The          *)
(* invariant is about who owns a running ticket: the runner that uses it,  *)
(* and never one that lost the lease and may still return it.              *)
(***************************************************************************)
EXTENDS ModelTurnQueue, FiniteSetTheorems, SequenceTheorems, TLAPS

----------------------------------------------------------------------------
(* The filter of a sequence.                                               *)

Upto(P, i) == {j \in P : j <= i}

\* Positions have distinct ranks, the ranks 1 .. Cardinality(P).
LEMMA Ranks ==
  ASSUME NEW n \in Nat, NEW P \in SUBSET (1 .. n)
  PROVE  /\ IsFiniteSet(P) /\ Cardinality(P) \in Nat
         /\ \A i \in P : Cardinality(Upto(P, i)) \in 1 .. Cardinality(P)
         /\ \A i, j \in P : i < j => Cardinality(Upto(P, i)) < Cardinality(Upto(P, j))
         /\ \A m \in 1 .. Cardinality(P) : \E i \in P : Cardinality(Upto(P, i)) = m
  <1>1. IsFiniteSet(P) /\ Cardinality(P) \in Nat
    <2>1. IsFiniteSet(1 .. n)
      BY FS_Interval
    <2>2. IsFiniteSet(P)
      BY <2>1, FS_Subset
    <2> QED BY <2>2, FS_CardinalityType
  <1>2. \A i \in P : /\ IsFiniteSet(Upto(P, i)) /\ Cardinality(Upto(P, i)) \in Nat
                     /\ Cardinality(Upto(P, i)) <= Cardinality(P)
    <2> SUFFICES ASSUME NEW i \in P
                 PROVE  /\ IsFiniteSet(Upto(P, i)) /\ Cardinality(Upto(P, i)) \in Nat
                        /\ Cardinality(Upto(P, i)) <= Cardinality(P)
      OBVIOUS
    <2>1. Upto(P, i) \in SUBSET P
      BY DEF Upto
    <2> QED BY <1>1, <2>1, FS_Subset, FS_CardinalityType
  <1>3. \A i \in P : Cardinality(Upto(P, i)) >= 1
    <2> SUFFICES ASSUME NEW i \in P PROVE Cardinality(Upto(P, i)) # 0
      BY <1>2
    <2>1. i \in Upto(P, i)
      BY DEF Upto
    <2> QED BY <1>2, <2>1, FS_EmptySet
  <1>4. ASSUME NEW i \in P, NEW j \in P, i < j
        PROVE  Cardinality(Upto(P, i)) < Cardinality(Upto(P, j))
    <2>1. Upto(P, i) \in SUBSET Upto(P, j)
      <3>1. \A m \in P : m <= i => m <= j
        BY <1>4
      <3> QED BY <3>1 DEF Upto
    <2>2. j \in Upto(P, j) /\ j \notin Upto(P, i)
      BY <1>4 DEF Upto
    <2>3. /\ Cardinality(Upto(P, i)) <= Cardinality(Upto(P, j))
          /\ Cardinality(Upto(P, i)) = Cardinality(Upto(P, j)) => Upto(P, i) = Upto(P, j)
      BY <1>2, <2>1, FS_Subset
    <2> QED BY <1>2, <2>2, <2>3
  <1> DEFINE C == Cardinality(P)
             r == [i \in P |-> Cardinality(Upto(P, i))]
  <1>5. r \in Injection(P, 1 .. C)
    <2>1. r \in [P -> 1 .. C]
      BY <1>1, <1>2, <1>3
    <2>2. \A i, j \in P : r[i] = r[j] => i = j
      <3> SUFFICES ASSUME NEW i \in P, NEW j \in P, r[i] = r[j], i # j PROVE FALSE
        OBVIOUS
      <3>1. i < j \/ j < i
        OBVIOUS
      <3> QED BY <1>2, <1>4, <3>1
    <2> QED BY <2>1, <2>2 DEF Injection, IsInjective
  <1>6. IsFiniteSet(1 .. C) /\ Cardinality(1 .. C) = C
    BY <1>1, FS_Interval
  <1>7. r \in Surjection(P, 1 .. C)
    BY <1>1, <1>5, <1>6, FS_Injection
  <1>8. \A m \in 1 .. C : \E i \in P : r[i] = m
    BY <1>7 DEF Surjection
  <1> QED BY <1>1, <1>2, <1>3, <1>4, <1>8

\* kept holds the entries of ts at the positions P, and in their order.
Selects(kept, ts, P) ==
    \E g \in [DOMAIN kept -> P] : /\ \A n \in DOMAIN kept : kept[n] = ts[g[n]]
                                  /\ \A m, n \in DOMAIN kept : m < n <=> g[m] < g[n]
                                  /\ \A i \in P : \E n \in DOMAIN kept : g[n] = i

LEMMA Kept ==
  ASSUME NEW T, NEW ts \in Seq(T), NEW P \in SUBSET (DOMAIN ts)
  PROVE  Keep(ts, P) \in Seq(T) /\ Selects(Keep(ts, P), ts, P)
  <1> DEFINE C == Cardinality(P)
             N(n) == CHOOSE i \in P : Cardinality(Upto(P, i)) = n
             g == [n \in 1 .. C |-> N(n)]
  <1>1. Len(ts) \in Nat /\ P \in SUBSET (1 .. Len(ts)) /\ \A i \in P : i \in Nat /\ ts[i] \in T
    BY LenProperties, ElementOfSeq
  <1>2. /\ C \in Nat
        /\ \A i \in P : Cardinality(Upto(P, i)) \in 1 .. C
        /\ \A i, j \in P : i < j => Cardinality(Upto(P, i)) < Cardinality(Upto(P, j))
        /\ \A m \in 1 .. C : \E i \in P : Cardinality(Upto(P, i)) = m
    BY <1>1, Ranks
  <1>3. \A n \in 1 .. C : N(n) \in P /\ Cardinality(Upto(P, N(n))) = n
    BY <1>2
  <1>4. Keep(ts, P) = [n \in 1 .. C |-> ts[N(n)]]
    BY DEF Keep, Upto
  <1>5. DOMAIN Keep(ts, P) = 1 .. C /\ g \in [DOMAIN Keep(ts, P) -> P]
    BY <1>3, <1>4
  <1>6. \A n \in 1 .. C : ts[N(n)] \in T
    BY <1>1, <1>3
  <1>7. Keep(ts, P) \in Seq(T)
    <2> HIDE DEF N
    <2>1. [n \in 1 .. C |-> ts[N(n)]] \in [1 .. C -> T]
      BY <1>6
    <2> QED BY <1>2, <1>4, <2>1, SeqDef
  <1>8. \A n \in DOMAIN Keep(ts, P) : Keep(ts, P)[n] = ts[g[n]]
    BY <1>4, <1>5
  <1>9. \A m, n \in 1 .. C : m < n <=> g[m] < g[n]
    <2> SUFFICES ASSUME NEW m \in 1 .. C, NEW n \in 1 .. C PROVE m < n <=> N(m) < N(n)
      OBVIOUS
    <2> HIDE DEF N
    <2>1. N(m) \in P /\ N(n) \in P /\ N(m) \in Nat /\ N(n) \in Nat
      BY <1>1, <1>3
    <2>2. N(m) < N(n) => m < n
      BY <1>2, <1>3, <2>1
    <2>3. N(n) < N(m) => n < m
      BY <1>2, <1>3, <2>1
    <2>4. N(n) = N(m) => n = m
      BY <1>3
    <2> QED BY <2>1, <2>2, <2>3, <2>4
  <1>10. \A i \in P : \E n \in 1 .. C : g[n] = i
    <2> SUFFICES ASSUME NEW i \in P PROVE N(Cardinality(Upto(P, i))) = i
      BY <1>2
    <2> DEFINE n == Cardinality(Upto(P, i))
    <2>1. n \in 1 .. C /\ N(n) \in P /\ Cardinality(Upto(P, N(n))) = n
      BY <1>2, <1>3
    <2>2. i \in Nat /\ N(n) \in Nat
      BY <1>1, <2>1
    <2> HIDE DEF N
    <2>3. ~(i < N(n)) /\ ~(N(n) < i)
      BY <1>2, <2>1
    <2> QED BY <2>2, <2>3
  <1>11. /\ \A m, n \in DOMAIN Keep(ts, P) : m < n <=> g[m] < g[n]
         /\ \A i \in P : \E n \in DOMAIN Keep(ts, P) : g[n] = i
    BY <1>5, <1>9, <1>10
  <1> HIDE DEF g
  <1>12. Selects(Keep(ts, P), ts, P)
    BY <1>5, <1>8, <1>11 DEF Selects
  <1> QED BY <1>7, <1>12

----------------------------------------------------------------------------
(* What each part of a locked update does to the set of tickets.           *)

In(ts) == {ts[i] : i \in DOMAIN ts}

Unique(ts) == \A i, j \in DOMAIN ts : ts[i].key = ts[j].key => i = j

\* A queue file that change() accepts.
Valid(ts, K, O) == ts \in Seq(Tickets(K, O)) /\ Unique(ts)

LEMMA Members ==
  ASSUME NEW K, NEW O, NEW ts, Valid(ts, K, O)
  PROVE  /\ Len(ts) \in Nat /\ DOMAIN ts = 1 .. Len(ts)
         /\ \A t \in In(ts) : t \in Tickets(K, O)
         /\ \A t, u \in In(ts) : t.key = u.key => t = u
         /\ \A k : HasTicket(ts, k) <=> \E t \in In(ts) : t.key = k
         /\ \A k : HoldsSlot(ts, k) <=> \E t \in In(ts) : t.key = k /\ t.state = "running"
  <1>1. Len(ts) \in Nat /\ DOMAIN ts = 1 .. Len(ts) /\ \A i \in DOMAIN ts : ts[i] \in Tickets(K, O)
    BY LenProperties, ElementOfSeq DEF Valid
  <1> QED BY <1>1 DEF Valid, Unique, In, HasTicket, HoldsSlot

LEMMA KeptMembers ==
  ASSUME NEW K, NEW O, NEW ts, Valid(ts, K, O), NEW P \in SUBSET (DOMAIN ts)
  PROVE  /\ Valid(Keep(ts, P), K, O)
         /\ In(Keep(ts, P)) = {ts[i] : i \in P}
  <1>0. ts \in Seq(Tickets(K, O))
    BY DEF Valid
  <1>2. Keep(ts, P) \in Seq(Tickets(K, O)) /\ Selects(Keep(ts, P), ts, P)
    BY <1>0, Kept
  <1>1. PICK g \in [DOMAIN Keep(ts, P) -> P] :
          /\ \A n \in DOMAIN Keep(ts, P) : Keep(ts, P)[n] = ts[g[n]]
          /\ \A m, n \in DOMAIN Keep(ts, P) : m < n <=> g[m] < g[n]
          /\ \A i \in P : \E n \in DOMAIN Keep(ts, P) : g[n] = i
    BY <1>2 DEF Selects
  <1>3. \A m, n \in DOMAIN Keep(ts, P) : g[m] = g[n] => m = n
    <2> SUFFICES ASSUME NEW m \in DOMAIN Keep(ts, P), NEW n \in DOMAIN Keep(ts, P), g[m] = g[n]
                 PROVE  m = n
      OBVIOUS
    <2>1. m \in Nat /\ n \in Nat /\ g[m] \in Nat
      BY <1>2, LenProperties, Members
    <2>2. ~(m < n) /\ ~(n < m)
      BY <1>1, <2>1
    <2> QED BY <2>1, <2>2
  <1>4. Unique(Keep(ts, P))
    <2> SUFFICES ASSUME NEW m \in DOMAIN Keep(ts, P), NEW n \in DOMAIN Keep(ts, P),
                        Keep(ts, P)[m].key = Keep(ts, P)[n].key
                 PROVE  m = n
      BY DEF Unique
    <2>1. ts[g[m]].key = ts[g[n]].key /\ g[m] \in DOMAIN ts /\ g[n] \in DOMAIN ts
      BY <1>1
    <2>2. g[m] = g[n]
      BY <2>1 DEF Valid, Unique
    <2> QED BY <1>3, <2>2
  <1>5. In(Keep(ts, P)) = {ts[i] : i \in P}
    BY <1>1 DEF In
  <1> QED BY <1>2, <1>4, <1>5 DEF Valid

LEMMA FreshMembers ==
  ASSUME NEW K, NEW O, NEW ts, Valid(ts, K, O), NEW k
  PROVE  /\ Valid(Fresh(ts, k), K, O)
         /\ In(Fresh(ts, k)) = {t \in In(ts) : t.state = "running" \/ t.key = k \/ t.stale = "no"}
  <1> DEFINE P == {i \in DOMAIN ts : ts[i].state = "running" \/ ts[i].key = k \/ ts[i].stale = "no"}
  <1>1. P \in SUBSET (DOMAIN ts) /\ Fresh(ts, k) = Keep(ts, P)
    BY DEF Fresh
  <1>2. {ts[i] : i \in P} = {t \in In(ts) : t.state = "running" \/ t.key = k \/ t.stale = "no"}
    BY DEF In
  <1> HIDE DEF P
  <1> QED BY <1>1, <1>2, KeptMembers

LEMMA ReleasedMembers ==
  ASSUME NEW K, NEW O, NEW ts, Valid(ts, K, O), NEW k, NEW o
  PROVE  /\ Valid(Released(ts, k, o), K, O)
         /\ In(Released(ts, k, o)) = {t \in In(ts) : t.key # k \/ t.owner # o}
  <1> DEFINE P == {i \in DOMAIN ts : ts[i].key # k \/ ts[i].owner # o}
  <1>1. P \in SUBSET (DOMAIN ts) /\ Released(ts, k, o) = Keep(ts, P)
    BY DEF Released
  <1>2. {ts[i] : i \in P} = {t \in In(ts) : t.key # k \/ t.owner # o}
    BY DEF In
  <1> HIDE DEF P
  <1> QED BY <1>1, <1>2, KeptMembers

LEMMA EnterMembers ==
  ASSUME NEW K, NEW O, NEW ts, Valid(ts, K, O), NEW k \in K, NEW o \in O, NEW r \in BOOLEAN
  PROVE  LET new == Ticket(k, o, IF r THEN "running" ELSE "waiting")
         IN  /\ Valid(Enter(ts, k, o, r), K, O)
             /\ In(Enter(ts, k, o, r)) = IF HasTicket(ts, k) THEN In(ts) ELSE In(ts) \union {new}
  <1> DEFINE new == Ticket(k, o, IF r THEN "running" ELSE "waiting")
             e == Enter(ts, k, o, r)
  <1>1. CASE HasTicket(ts, k)
    BY <1>1 DEF Enter
  <1>2. CASE ~HasTicket(ts, k)
    <2>1. e = Append(ts, new)
      BY <1>2 DEF Enter
    <2>2. new \in Tickets(K, O) /\ new.key = k
      BY DEF Ticket, Tickets
    <2>3. ts \in Seq(Tickets(K, O)) /\ Len(ts) \in Nat /\ DOMAIN ts = 1 .. Len(ts)
      BY Members DEF Valid
    <2> HIDE DEF new, e
    <2>4. /\ e \in Seq(Tickets(K, O))
          /\ Len(e) = Len(ts) + 1
          /\ \A i \in 1 .. Len(ts) : e[i] = ts[i]
          /\ e[Len(ts) + 1] = new
      BY <2>1, <2>2, <2>3, AppendProperties
    <2>5. DOMAIN e = DOMAIN ts \union {Len(ts) + 1} /\ Len(ts) + 1 \notin DOMAIN ts
      <3>1. DOMAIN e = 1 .. Len(e)
        BY <2>4, LenProperties
      <3> QED BY <2>3, <2>4, <3>1
    <2>6. Unique(e)
      BY <1>2, <2>2, <2>3, <2>4, <2>5 DEF Unique, HasTicket, Valid
    <2>7. In(e) = In(ts) \union {new}
      BY <2>3, <2>4, <2>5 DEF In
    <2> QED BY <1>2, <2>4, <2>6, <2>7 DEF Valid, e, new
  <1> QED BY <1>1, <1>2

\* An update of single tickets in place.
LEMMA UpdatedMembers ==
  ASSUME NEW K, NEW O, NEW ts, Valid(ts, K, O), NEW us,
         DOMAIN us = DOMAIN ts,
         \A i \in DOMAIN ts : us[i] \in Tickets(K, O) /\ us[i].key = ts[i].key,
         us = [i \in DOMAIN us |-> us[i]]
  PROVE  Valid(us, K, O)
  <1>1. Len(ts) \in Nat /\ DOMAIN ts = 1 .. Len(ts)
    BY Members
  <1>2. us \in [1 .. Len(ts) -> Tickets(K, O)]
    BY <1>1
  <1>3. us \in Seq(Tickets(K, O))
    BY <1>1, <1>2, SeqDef
  <1> QED BY <1>3 DEF Valid, Unique

LEMMA AdoptMembers ==
  ASSUME NEW K, NEW O, NEW ts, Valid(ts, K, O), NEW k, NEW o \in O
  PROVE  /\ Valid(Adopt(ts, k, o), K, O)
         /\ DOMAIN Adopt(ts, k, o) = DOMAIN ts
         /\ \A i \in DOMAIN ts :
              /\ Adopt(ts, k, o)[i].key = ts[i].key
              /\ Adopt(ts, k, o)[i].state = ts[i].state
              /\ ts[i].key = k => Adopt(ts, k, o)[i].owner = o
              /\ ts[i].key # k => Adopt(ts, k, o)[i] = ts[i]
  <1> DEFINE a == Adopt(ts, k, o)
  <1>1. \A i \in DOMAIN ts : ts[i] \in Tickets(K, O)
    BY Members DEF In
  <1>2. /\ DOMAIN a = DOMAIN ts /\ a = [i \in DOMAIN a |-> a[i]]
        /\ \A i \in DOMAIN ts : a[i] = IF ts[i].key = k THEN [ts[i] EXCEPT !.owner = o, !.stale = "no"] ELSE ts[i]
    BY DEF Adopt
  <1> HIDE DEF a
  <1>3. \A i \in DOMAIN ts : /\ a[i] \in Tickets(K, O) /\ a[i].key = ts[i].key /\ a[i].state = ts[i].state
                             /\ ts[i].key = k => a[i].owner = o
                             /\ ts[i].key # k => a[i] = ts[i]
    BY <1>1, <1>2 DEF Tickets
  <1>4. Valid(a, K, O)
    BY <1>2, <1>3, UpdatedMembers
  <1> QED BY <1>2, <1>3, <1>4 DEF a

LEMMA AdmitMembers ==
  ASSUME NEW K, NEW O, NEW ts, Valid(ts, K, O), NEW k
  PROVE  /\ Valid(AdmitHead(ts, k), K, O)
         /\ DOMAIN AdmitHead(ts, k) = DOMAIN ts
         /\ \A i \in DOMAIN ts :
              /\ AdmitHead(ts, k)[i].key = ts[i].key
              /\ AdmitHead(ts, k)[i].owner = ts[i].owner
              /\ \/ AdmitHead(ts, k)[i] = ts[i]
                 \/ /\ ts[i].key = k /\ IsFirst(ts, k)
                    /\ Cardinality(InState(ts, "running")) < MaxConcurrent
                    /\ AdmitHead(ts, k)[i].state = "running"
  <1> DEFINE a == AdmitHead(ts, k)
             more == IsFirst(ts, k) /\ Cardinality(InState(ts, "running")) < MaxConcurrent
  <1>1. \A i \in DOMAIN ts : ts[i] \in Tickets(K, O)
    BY Members DEF In
  <1>2. CASE more
    <2>1. /\ DOMAIN a = DOMAIN ts /\ a = [i \in DOMAIN a |-> a[i]]
          /\ \A i \in DOMAIN ts : a[i] = IF ts[i].key = k THEN [ts[i] EXCEPT !.state = "running"] ELSE ts[i]
      BY <1>2 DEF AdmitHead, GiveSlot
    <2> HIDE DEF a
    <2>2. \A i \in DOMAIN ts : /\ a[i] \in Tickets(K, O) /\ a[i].key = ts[i].key /\ a[i].owner = ts[i].owner
                               /\ ts[i].key = k => a[i].state = "running"
                               /\ ts[i].key # k => a[i] = ts[i]
      BY <1>1, <2>1 DEF Tickets
    <2>3. Valid(a, K, O)
      BY <2>1, <2>2, UpdatedMembers
    <2> QED BY <1>2, <2>1, <2>2, <2>3 DEF a
  <1>3. CASE ~more
    <2>1. a = ts
      BY <1>3 DEF AdmitHead
    <2> QED BY <2>1
  <1> QED BY <1>2, <1>3

----------------------------------------------------------------------------
(* What one poll does.                                                     *)

Slots(ts) == {t.key : t \in {u \in In(ts) : u.state = "running"}}

LEMMA HoldsItsSlot ==
  ASSUME NEW K, NEW O, NEW ts, Valid(ts, K, O)
  PROVE  /\ \A k : k \in Slots(ts) <=> HoldsSlot(ts, k)
         /\ Slots(ts) \subseteq K
  BY Members DEF Slots, Tickets

\* As keys are unique, counting the running entries counts the turns in a slot.
LEMMA SlotsCounted ==
  ASSUME NEW K, NEW O, NEW ts, Valid(ts, K, O)
  PROVE  /\ IsFiniteSet(Slots(ts)) /\ Cardinality(Slots(ts)) \in Nat
         /\ Cardinality(InState(ts, "running")) = Cardinality(Slots(ts))
  <1> DEFINE P == InState(ts, "running")
             f == [i \in P |-> ts[i].key]
  <1>1. P \in SUBSET (1 .. Len(ts)) /\ Len(ts) \in Nat
    BY Members DEF InState
  <1>2. IsFiniteSet(P)
    <2>1. IsFiniteSet(1 .. Len(ts))
      BY <1>1, FS_Interval
    <2> QED BY <1>1, <2>1, FS_Subset
  <1>3. f \in [P -> Slots(ts)] /\ \A s \in Slots(ts) : \E i \in P : f[i] = s
    BY DEF InState, Slots, In
  <1>4. f \in Surjection(P, Slots(ts))
    BY <1>3 DEF Surjection
  <1>5. \A i, j \in P : f[i] = f[j] => i = j
    BY DEF InState, Valid, Unique
  <1>6. f \in Injection(P, Slots(ts))
    BY <1>3, <1>5 DEF Injection, IsInjective
  <1> HIDE DEF f, P
  <1>7. IsFiniteSet(Slots(ts)) /\ Cardinality(Slots(ts)) = Cardinality(P)
    BY <1>2, <1>4, <1>6, FS_Surjection
  <1> QED BY <1>7, FS_CardinalityType DEF P

LEMMA PollMembers ==
  ASSUME NEW K, NEW O, NEW ts, Valid(ts, K, O), NEW k \in K, NEW o \in O, NEW r \in BOOLEAN
  PROVE  LET p == Poll(ts, k, o, r)
         IN  /\ Valid(p, K, O)
             /\ \A t \in In(p) : t.key # k => t \in In(ts)
             /\ \A t \in In(p) : t.key = k => t.owner = o
             /\ \A t \in In(ts) : t.key # k /\ t.state = "running" => t \in In(p)
             /\ HoldsSlot(ts, k) => HoldsSlot(p, k)
             /\ HoldsSlot(p, k) => \/ HoldsSlot(ts, k)
                                   \/ r /\ ~HasTicket(ts, k)
                                   \/ Cardinality(Slots(ts)) < MaxConcurrent
  <1> DEFINE f == Fresh(ts, k)
             e == Enter(f, k, o, r)
             new == Ticket(k, o, IF r THEN "running" ELSE "waiting")
             a == Adopt(e, k, o)
             p == AdmitHead(a, k)
  <1>1. /\ Valid(f, K, O)
        /\ In(f) = {t \in In(ts) : t.state = "running" \/ t.key = k \/ t.stale = "no"}
    BY FreshMembers
  <1>2. HasTicket(f, k) <=> HasTicket(ts, k)
    BY <1>1, Members
  <1>3. new.key = k /\ new.state = IF r THEN "running" ELSE "waiting"
    BY DEF Ticket
  <1>4. /\ Valid(e, K, O)
        /\ In(e) = IF HasTicket(ts, k) THEN In(f) ELSE In(f) \union {new}
    <2> HIDE DEF f
    <2> QED BY <1>1, <1>2, EnterMembers
  <1> HIDE DEF f, e, new
  <1>5. /\ Valid(a, K, O)
        /\ DOMAIN a = DOMAIN e
        /\ \A i \in DOMAIN e : /\ a[i].key = e[i].key
                               /\ a[i].state = e[i].state
                               /\ e[i].key = k => a[i].owner = o
                               /\ e[i].key # k => a[i] = e[i]
    BY <1>4, AdoptMembers
  <1> HIDE DEF a
  <1>6. /\ Valid(p, K, O)
        /\ DOMAIN p = DOMAIN a
        /\ \A i \in DOMAIN a :
              /\ p[i].key = a[i].key
              /\ p[i].owner = a[i].owner
              /\ \/ p[i] = a[i]
                 \/ /\ a[i].key = k /\ IsFirst(a, k)
                    /\ Cardinality(InState(a, "running")) < MaxConcurrent
                    /\ p[i].state = "running"
    BY <1>5, AdmitMembers
  <1>7. p = Poll(ts, k, o, r)
    BY DEF Poll, f, e, a
  <1> HIDE DEF p
  <1>8. \A t \in In(p) : t.key # k => t \in In(ts)
    <2> SUFFICES ASSUME NEW t \in In(p), t.key # k PROVE t \in In(ts)
      OBVIOUS
    <2>1. PICK i \in DOMAIN e : p[i] = t
      BY <1>5, <1>6 DEF In
    <2>2. a[i].key # k
      BY <1>5, <1>6, <2>1
    <2>3. t = e[i]
      BY <1>5, <1>6, <2>1, <2>2
    <2>4. t \in In(e)
      BY <2>1, <2>3 DEF In
    <2>5. t \in In(f)
      BY <1>3, <1>4, <2>4
    <2> QED BY <1>1, <2>5
  <1>9. \A t \in In(p) : t.key = k => t.owner = o
    BY <1>5, <1>6 DEF In
  <1>10. \A t \in In(ts) : t.key # k /\ t.state = "running" => t \in In(p)
    <2> SUFFICES ASSUME NEW t \in In(ts), t.key # k, t.state = "running" PROVE t \in In(p)
      OBVIOUS
    <2>1. t \in In(e)
      BY <1>1, <1>4
    <2>2. PICK i \in DOMAIN e : e[i] = t
      BY <2>1 DEF In
    <2>3. p[i] = t /\ i \in DOMAIN p
      BY <1>5, <1>6, <2>2
    <2> QED BY <2>3 DEF In
  <1>11. HoldsSlot(ts, k) => HoldsSlot(p, k)
    <2> SUFFICES ASSUME HoldsSlot(ts, k) PROVE HoldsSlot(p, k)
      OBVIOUS
    <2>1. PICK t \in In(ts) : t.key = k /\ t.state = "running"
      BY Members
    <2>2. PICK i \in DOMAIN e : e[i] = t
      BY <1>1, <1>4, <2>1 DEF In
    <2>3. p[i].key = k /\ p[i].state = "running" /\ i \in DOMAIN p
      BY <1>5, <1>6, <2>1, <2>2
    <2> QED BY <2>3 DEF HoldsSlot
  <1>12. Slots(ts) \subseteq Slots(a)
    <2> SUFFICES ASSUME NEW t \in In(ts), t.state = "running" PROVE \E u \in In(a) : u.key = t.key /\ u.state = "running"
      BY DEF Slots
    <2>1. PICK i \in DOMAIN e : e[i] = t
      BY <1>1, <1>4 DEF In
    <2> QED BY <1>5, <2>1 DEF In
  <1>13. HoldsSlot(p, k) => \/ HoldsSlot(ts, k)
                            \/ r /\ ~HasTicket(ts, k)
                            \/ Cardinality(Slots(ts)) < MaxConcurrent
    <2> SUFFICES ASSUME HoldsSlot(p, k), ~HoldsSlot(ts, k), ~(r /\ ~HasTicket(ts, k))
                 PROVE  Cardinality(Slots(ts)) < MaxConcurrent
      OBVIOUS
    <2>1. PICK i \in DOMAIN p : p[i].key = k /\ p[i].state = "running"
      BY DEF HoldsSlot
    <2>2. e[i].state # "running" /\ e[i].key = k
      <3>1. e[i] \in In(e) /\ e[i].key = k
        BY <1>5, <1>6, <2>1 DEF In
      <3>2. CASE HasTicket(ts, k)
        <4>1. e[i] \in In(ts)
          BY <1>1, <1>4, <3>1, <3>2
        <4> QED BY <3>1, <4>1, Members
      <3>3. CASE ~HasTicket(ts, k)
        <4>1. e[i] \notin In(ts)
          BY <3>1, <3>3, Members
        <4>2. e[i] = new
          BY <1>1, <1>4, <3>1, <3>3, <4>1
        <4> QED BY <1>3, <3>1, <3>3, <4>2
      <3> QED BY <3>2, <3>3
    <2>3. Cardinality(InState(a, "running")) < MaxConcurrent
      BY <1>5, <1>6, <2>1, <2>2
    <2>4. /\ Cardinality(InState(a, "running")) = Cardinality(Slots(a))
          /\ IsFiniteSet(Slots(a)) /\ Cardinality(Slots(a)) \in Nat
      BY <1>5, SlotsCounted
    <2>5. Cardinality(Slots(ts)) <= Cardinality(Slots(a)) /\ Cardinality(Slots(ts)) \in Nat
      BY <1>12, <2>4, FS_Subset, FS_CardinalityType
    <2> QED BY <2>3, <2>4, <2>5, LimitsAssumption
  <1> QED BY <1>6, <1>7, <1>8, <1>9, <1>10, <1>11, <1>13

\* A poll admits nobody before a fresh ticket that waits in front.
LEMMA PollRespectsOrder ==
  ASSUME NEW K, NEW O, NEW ts, Valid(ts, K, O), NEW k \in K, NEW o \in O, NEW r \in BOOLEAN,
         NEW i \in DOMAIN ts, NEW j \in DOMAIN ts, i < j,
         ts[i].state = "waiting", ts[i].stale = "no", ts[j].state = "waiting"
  PROVE  ~HoldsSlot(Poll(ts, k, o, r), ts[j].key)
  <1> SUFFICES ASSUME HoldsSlot(Poll(ts, k, o, r), ts[j].key) PROVE FALSE
    OBVIOUS
  <1> DEFINE P == {m \in DOMAIN ts : ts[m].state = "running" \/ ts[m].key = k \/ ts[m].stale = "no"}
             f == Fresh(ts, k)
             a == Adopt(f, k, o)
  <1>1. ts[j].key = k
    <2> SUFFICES ASSUME ts[j].key # k PROVE FALSE
      OBVIOUS
    <2> DEFINE p == Poll(ts, k, o, r)
    <2>1. Valid(p, K, O) /\ \A t \in In(p) : t.key # k => t \in In(ts)
      BY PollMembers
    <2> HIDE DEF p
    <2>2. PICK t \in In(p) : t.key = ts[j].key /\ t.state = "running"
      BY <2>1, Members DEF p
    <2>3. t \in In(ts) /\ ts[j] \in In(ts)
      BY <2>1, <2>2 DEF In
    <2> QED BY <2>2, <2>3, Members
  <1>2. PICK g \in [DOMAIN f -> P] :
          /\ \A n \in DOMAIN f : f[n] = ts[g[n]]
          /\ \A m, n \in DOMAIN f : m < n <=> g[m] < g[n]
          /\ \A m \in P : \E n \in DOMAIN f : g[n] = m
    <2>1. P \in SUBSET (DOMAIN ts) /\ f = Keep(ts, P)
      BY DEF Fresh
    <2>2. ts \in Seq(Tickets(K, O))
      BY DEF Valid
    <2> HIDE DEF P, f
    <2>3. Selects(f, ts, P)
      BY <2>1, <2>2, Kept
    <2> QED BY <2>3 DEF Selects
  <1>3. Valid(f, K, O)
    BY FreshMembers
  <1>4. i \in P /\ j \in P
    BY <1>1
  <1> HIDE DEF P
  <1>5. PICK m \in DOMAIN f : g[m] = i
    BY <1>2, <1>4
  <1>6. PICK n \in DOMAIN f : g[n] = j
    BY <1>2, <1>4
  <1>7. m < n /\ f[m] = ts[i] /\ f[n] = ts[j]
    BY <1>2, <1>5, <1>6
  <1>8. Enter(f, k, o, r) = f
    BY <1>1, <1>7 DEF Enter, HasTicket
  <1>9. Poll(ts, k, o, r) = AdmitHead(a, k)
    BY <1>8 DEF Poll
  <1> HIDE DEF f
  <1>10. /\ Valid(a, K, O) /\ DOMAIN a = DOMAIN f
         /\ a[m].state = "waiting" /\ a[n].state = "waiting" /\ a[n].key = k
    BY <1>1, <1>3, <1>7, AdoptMembers
  <1> HIDE DEF a
  <1>11. /\ Valid(AdmitHead(a, k), K, O) /\ DOMAIN AdmitHead(a, k) = DOMAIN a
         /\ \A l \in DOMAIN a : /\ AdmitHead(a, k)[l].key = a[l].key
                                /\ AdmitHead(a, k)[l] = a[l] \/ IsFirst(a, k)
    BY <1>10, AdmitMembers
  <1>12. PICK l \in DOMAIN a : AdmitHead(a, k)[l].key = k /\ AdmitHead(a, k)[l].state = "running"
    BY <1>1, <1>9, <1>11 DEF HoldsSlot
  <1>13. l = n
    BY <1>10, <1>11, <1>12 DEF Valid, Unique
  <1>14. IsFirst(a, k)
    BY <1>10, <1>11, <1>12, <1>13
  <1>15. n <= m
    BY <1>10, <1>14 DEF IsFirst, InState, Valid, Unique
  <1>16. m \in Nat /\ n \in Nat
    BY <1>3, Members
  <1> QED BY <1>7, <1>15, <1>16

----------------------------------------------------------------------------
(* The invariant.                                                          *)

Rounds == \A k \in Turns : round[k] \in 0 .. MaxRunners[k]

\* A ticket names a runner of its turn, and a runner that still polls has not
\* yet taken over the running ticket it may find.
OwnersKnown ==
  \A t \in In(tickets) : /\ t.owner <= round[t.key]
                         /\ t.state = "running" /\ runner[t.key] = "polling" => t.owner # round[t.key]

\* A runner that lost the lease is not the turn's current one.
GhostsOlder ==
  \A g \in ghosts : /\ g.owner <= round[g.turn]
                    /\ runner[g.turn] # "idle" => g.owner # round[g.turn]

WorkIsOpen == \A k \in Turns : runner[k] = "working" => work[k] = "open"

Entitled(k) == runner[k] \in {"admitted", "working"} \/ (work[k] = "open" /\ k \notin Legacy)

\* Its ticket is in a slot, and nobody who returns late will take it away.
Guarded(k) ==
  \E t \in In(tickets) : /\ t.key = k /\ t.state = "running"
                         /\ \A g \in ghosts : g.turn = k => g.owner # t.owner
                         /\ runner[k] \in {"admitted", "working"} => t.owner = round[k]

AllGuarded == doubts = 0 => \A k \in Turns : Entitled(k) => Guarded(k)

\* Only turns older than the queue enter it without waiting for a free slot.
Counted == doubts = 0 => Cardinality(Slots(tickets) \ Legacy) <= MaxConcurrent

Inv == /\ TypeOK /\ Rounds
       /\ OwnersKnown /\ GhostsOlder /\ WorkIsOpen
       /\ AllGuarded /\ Counted

LEMMA Facts ==
  ASSUME Inv
  PROVE  /\ Valid(tickets, Turns, Owners)
         /\ \A k \in Turns : /\ round[k] \in Owners /\ round[k] \in Nat
                             /\ runner[k] \in Stages /\ Recovering(k) \in BOOLEAN
         /\ \A t \in In(tickets) : t.key \in Turns /\ t.owner \in Owners /\ t.owner \in Nat
         /\ \A g \in ghosts : g.turn \in Turns /\ g.owner \in Owners /\ g.owner \in Nat
         /\ doubts \in Nat /\ lapses \in Nat /\ MaxMishaps \in Nat
         /\ Owners \subseteq Nat
         /\ \A k \in Turns : MaxRunners[k] \in Nat /\ 0 .. MaxRunners[k] \subseteq Owners
  <1>1. /\ \A k \in Turns : MaxRunners[k] \in Nat /\ 0 .. MaxRunners[k] \subseteq Owners
        /\ Owners \subseteq Nat
    BY TurnsAssumption DEF Owners
  <1>2. Valid(tickets, Turns, Owners)
    BY DEF Inv, TypeOK, Valid, Unique
  <1>3. \A t \in In(tickets) : t \in Tickets(Turns, Owners)
    BY <1>2, Members
  <1>4. \A t \in In(tickets) : t.key \in Turns /\ t.owner \in Owners /\ t.owner \in Nat
    BY <1>1, <1>3 DEF Tickets
  <1>5. \A k \in Turns : round[k] \in Owners /\ round[k] \in Nat
    BY <1>1 DEF Inv, TypeOK
  <1>6. \A k \in Turns : runner[k] \in Stages /\ Recovering(k) \in BOOLEAN
    BY DEF Inv, TypeOK, Recovering
  <1>7. \A g \in ghosts : g.turn \in Turns /\ g.owner \in Owners /\ g.owner \in Nat
    BY <1>1 DEF Inv, TypeOK
  <1>8. doubts \in Nat /\ lapses \in Nat /\ MaxMishaps \in Nat
    BY TurnsAssumption DEF Inv, TypeOK
  <1> QED BY <1>1, <1>2, <1>4, <1>5, <1>6, <1>7, <1>8

LEMMA FewerSlots ==
  ASSUME NEW ts, Valid(ts, Turns, Owners), NEW us, Valid(us, Turns, Owners),
         Slots(us) \ Legacy \subseteq Slots(ts) \ Legacy
  PROVE  Cardinality(Slots(ts) \ Legacy) <= MaxConcurrent
           => Cardinality(Slots(us) \ Legacy) <= MaxConcurrent
  <1>1. IsFiniteSet(Slots(ts))
    BY SlotsCounted
  <1>2. IsFiniteSet(Slots(ts) \ Legacy)
    BY <1>1, FS_Difference
  <1>3. /\ Cardinality(Slots(us) \ Legacy) <= Cardinality(Slots(ts) \ Legacy)
        /\ IsFiniteSet(Slots(us) \ Legacy)
    BY <1>2, FS_Subset
  <1>4. Cardinality(Slots(ts) \ Legacy) \in Nat /\ Cardinality(Slots(us) \ Legacy) \in Nat
    BY <1>2, <1>3, FS_CardinalityType
  <1> QED BY <1>3, <1>4, LimitsAssumption

\* One more turn in a slot, when one was free.
LEMMA OneMoreSlot ==
  ASSUME NEW ts, Valid(ts, Turns, Owners), NEW us, Valid(us, Turns, Owners), NEW k,
         Slots(us) \subseteq Slots(ts) \union {k}, Cardinality(Slots(ts)) < MaxConcurrent
  PROVE  Cardinality(Slots(us) \ Legacy) <= MaxConcurrent
  <1>1. IsFiniteSet(Slots(ts)) /\ Cardinality(Slots(ts)) \in Nat
    BY SlotsCounted
  <1>2. /\ IsFiniteSet(Slots(ts) \union {k})
        /\ Cardinality(Slots(ts) \union {k}) <= MaxConcurrent
        /\ Cardinality(Slots(ts) \union {k}) \in Nat
    BY <1>1, FS_AddElement, LimitsAssumption
  <1>3. Slots(us) \ Legacy \in SUBSET (Slots(ts) \union {k})
    OBVIOUS
  <1>4. /\ Cardinality(Slots(us) \ Legacy) <= Cardinality(Slots(ts) \union {k})
        /\ IsFiniteSet(Slots(us) \ Legacy)
    BY <1>2, <1>3, FS_Subset
  <1> QED BY <1>2, <1>4, FS_CardinalityType, LimitsAssumption

LEMMA InitInv == Init => Inv
  <1> SUFFICES ASSUME Init PROVE Inv
    OBVIOUS
  <1>1. tickets = << >> /\ In(tickets) = {} /\ Slots(tickets) = {}
    BY DEF Init, In, Slots
  <1>2. TypeOK
    <2>1. \A k \in Turns : 0 \in 0 .. MaxRunners[k]
      BY TurnsAssumption
    <2>2. << >> \in Seq(Tickets(Turns, Owners))
      BY EmptySeq
    <2> QED BY <1>1, <2>1, <2>2, TurnsAssumption DEF Init, TypeOK, Stages, Owners
  <1>3. Cardinality(Slots(tickets) \ Legacy) = 0
    <2>1. Slots(tickets) \ Legacy = {}
      BY <1>1
    <2> QED BY <2>1, FS_EmptySet
  <1>4. Counted
    BY <1>3, LimitsAssumption DEF Counted
  <1>5. Rounds /\ OwnersKnown /\ GhostsOlder /\ WorkIsOpen
    BY <1>1, TurnsAssumption DEF Init, Rounds, OwnersKnown, GhostsOlder, WorkIsOpen
  <1>6. AllGuarded
    BY DEF Init, AllGuarded, Entitled
  <1> QED BY <1>2, <1>4, <1>5, <1>6 DEF Inv

----------------------------------------------------------------------------
(* Every step keeps it.                                                    *)

\* A runner moves on and leaves the queue alone.
LEMMA BeginKeeps ==
  ASSUME Inv, NEW k \in Turns, Begin(k)
  PROVE  Inv'
  <1>1. /\ runner[k] = "idle" /\ runner' = [runner EXCEPT ![k] = "polling"]
        /\ round[k] < MaxRunners[k] /\ round' = [round EXCEPT ![k] = @ + 1]
        /\ UNCHANGED <<tickets, ghosts, work, doubts, lapses>>
    BY DEF Begin, Become
  <1>2. /\ round[k] \in Nat /\ MaxRunners[k] \in Nat /\ 0 .. MaxRunners[k] \subseteq Owners
        /\ round[k] + 1 \in 0 .. MaxRunners[k]
    BY <1>1, Facts
  <1>3. /\ runner' \in [Turns -> Stages] /\ round' \in [Turns -> Owners]
        /\ round'[k] = round[k] + 1 /\ runner'[k] = "polling"
        /\ \A j \in Turns \ {k} : round'[j] = round[j] /\ runner'[j] = runner[j]
    BY <1>1, <1>2 DEF Inv, TypeOK, Stages
  <1>4. TypeOK'
    BY <1>1, <1>3 DEF Inv, TypeOK
  <1>5. Rounds'
    BY <1>2, <1>3 DEF Inv, Rounds
  <1>6. OwnersKnown'
    <2> SUFFICES ASSUME NEW t \in In(tickets)
                 PROVE  /\ t.owner <= round'[t.key]
                        /\ t.state = "running" /\ runner'[t.key] = "polling" => t.owner # round'[t.key]
      BY <1>1 DEF OwnersKnown, In
    <2>1. t.key \in Turns /\ t.owner \in Nat /\ t.owner <= round[t.key] /\ round[t.key] \in Nat
      BY Facts DEF Inv, OwnersKnown
    <2>2. CASE t.key = k
      BY <1>2, <1>3, <2>1, <2>2
    <2>3. CASE t.key # k
      BY <1>3, <2>1, <2>3 DEF Inv, OwnersKnown
    <2> QED BY <2>2, <2>3
  <1>7. GhostsOlder'
    <2> SUFFICES ASSUME NEW g \in ghosts
                 PROVE  /\ g.owner <= round'[g.turn]
                        /\ runner'[g.turn] # "idle" => g.owner # round'[g.turn]
      BY <1>1 DEF GhostsOlder
    <2>1. g.turn \in Turns /\ g.owner \in Nat /\ g.owner <= round[g.turn] /\ round[g.turn] \in Nat
      BY Facts DEF Inv, GhostsOlder
    <2>2. CASE g.turn = k
      BY <1>2, <1>3, <2>1, <2>2
    <2>3. CASE g.turn # k
      BY <1>3, <2>1, <2>3 DEF Inv, GhostsOlder
    <2> QED BY <2>2, <2>3
  <1>8. WorkIsOpen'
    BY <1>1, <1>3 DEF Inv, WorkIsOpen
  <1>9. AllGuarded'
    BY <1>1, <1>3 DEF Inv, AllGuarded, Entitled, Guarded, In
  <1>10. Counted'
    BY <1>1 DEF Inv, Counted, Slots, In
  <1> QED BY <1>4, <1>5, <1>6, <1>7, <1>8, <1>9, <1>10 DEF Inv

\* Neither tickets nor rounds nor ghosts change.
LEMMA StageKeeps ==
  ASSUME Inv, NEW k \in Turns, NEW s \in Stages, Become(k, s),
         UNCHANGED <<tickets, round, ghosts, doubts, lapses>>,
         \/ work' = work
         \/ s = "working" /\ work' = [work EXCEPT ![k] = "open"]
         \/ s = "ended" /\ work' = [work EXCEPT ![k] = "none"],
         s # "polling",
         runner[k] = "idle" => s = "idle",
         s = "working" => runner[k] = "admitted" /\ work'[k] = "open",
         s # "admitted"
  PROVE  Inv'
  <1>1. /\ runner' \in [Turns -> Stages] /\ runner'[k] = s
        /\ \A j \in Turns \ {k} : runner'[j] = runner[j]
    BY DEF Inv, TypeOK, Become
  <1>2. work' \in [Turns -> {"none", "open"}] /\ \A j \in Turns \ {k} : work'[j] = work[j]
    BY DEF Inv, TypeOK
  <1>3. TypeOK'
    BY <1>1, <1>2 DEF Inv, TypeOK
  <1>4. Rounds'
    BY DEF Inv, Rounds
  <1>5. OwnersKnown'
    <2>1. \A t \in In(tickets) : t.key \in Turns
      BY Facts
    <2> QED BY <1>1, <2>1 DEF Inv, OwnersKnown, In
  <1>6. GhostsOlder'
    <2>1. \A g \in ghosts : g.turn \in Turns
      BY Facts
    <2> QED BY <1>1, <2>1 DEF Inv, GhostsOlder
  <1>7. WorkIsOpen'
    BY <1>1, <1>2 DEF Inv, WorkIsOpen
  <1>8. AllGuarded'
    <2> SUFFICES ASSUME doubts = 0, NEW j \in Turns, Entitled(j)' PROVE Guarded(j)'
      BY DEF AllGuarded
    <2>1. CASE j # k
      <3>1. Guarded(j)
        BY <1>1, <1>2, <2>1 DEF Inv, AllGuarded, Entitled
      <3> QED BY <1>1, <2>1, <3>1 DEF Guarded, In
    <2>2. CASE j = k
      <3>1. Entitled(k)
        BY <1>1, <2>2 DEF Entitled, Inv, TypeOK
      <3>2. Guarded(k)
        BY <3>1 DEF Inv, AllGuarded
      <3> QED BY <1>1, <2>2, <3>2 DEF Guarded, In
    <2> QED BY <2>1, <2>2
  <1>9. Counted'
    BY DEF Inv, Counted, Slots, In
  <1> QED BY <1>3, <1>4, <1>5, <1>6, <1>7, <1>8, <1>9 DEF Inv

LEMMA DispatchKeeps ==
  ASSUME Inv, NEW k \in Turns, Dispatch(k)
  PROVE  Inv'
  <1>1. work'[k] = "open"
    BY DEF Inv, TypeOK, Dispatch
  <1> QED BY <1>1, StageKeeps DEF Dispatch, Stages

LEMMA ConfirmKeeps ==
  ASSUME Inv, NEW k \in Turns, Confirm(k)
  PROVE  Inv'
  BY StageKeeps DEF Confirm, Stages

LEMMA ReturnPendingKeeps ==
  ASSUME Inv, NEW k \in Turns, ReturnPending(k)
  PROVE  Inv'
  BY StageKeeps DEF ReturnPending, Stages

LEMMA CrashKeeps ==
  ASSUME Inv, NEW k \in Turns, Crash(k)
  PROVE  Inv'
  BY StageKeeps DEF Crash, Stages

LEMMA PollQueueKeeps ==
  ASSUME Inv, NEW k \in Turns, PollQueue(k)
  PROVE  Inv'
  <1> DEFINE o == round[k]
             r == Recovering(k)
  <1>1. /\ runner[k] = "polling" /\ tickets' = Poll(tickets, k, o, r)
        /\ runner' = [runner EXCEPT ![k] = IF HoldsSlot(tickets', k) THEN "admitted" ELSE "polling"]
        /\ UNCHANGED <<round, ghosts, work, doubts, lapses>>
    BY DEF PollQueue, Become
  <1>2. /\ Valid(tickets, Turns, Owners) /\ o \in Owners /\ o \in Nat /\ r \in BOOLEAN
    BY Facts
  <1> HIDE DEF o, r
  <1>3. /\ Valid(tickets', Turns, Owners)
        /\ \A t \in In(tickets') : t.key # k => t \in In(tickets)
        /\ \A t \in In(tickets') : t.key = k => t.owner = o
        /\ \A t \in In(tickets) : t.key # k /\ t.state = "running" => t \in In(tickets')
        /\ HoldsSlot(tickets, k) => HoldsSlot(tickets', k)
        /\ HoldsSlot(tickets', k) => \/ HoldsSlot(tickets, k)
                                     \/ r /\ ~HasTicket(tickets, k)
                                     \/ Cardinality(Slots(tickets)) < MaxConcurrent
    BY <1>1, <1>2, PollMembers
  <1>4. /\ runner' \in [Turns -> Stages]
        /\ runner'[k] = IF HoldsSlot(tickets', k) THEN "admitted" ELSE "polling"
        /\ \A j \in Turns \ {k} : runner'[j] = runner[j]
    BY <1>1 DEF Inv, TypeOK, Stages
  <1>5. TypeOK'
    BY <1>1, <1>3, <1>4 DEF Inv, TypeOK, Valid, Unique
  <1>6. Rounds' /\ WorkIsOpen'
    BY <1>1, <1>4 DEF Inv, Rounds, WorkIsOpen
  <1>7. OwnersKnown'
    <2> SUFFICES ASSUME NEW t \in In(tickets')
                 PROVE  /\ t.owner <= round[t.key]
                        /\ t.state = "running" /\ runner'[t.key] = "polling" => t.owner # round[t.key]
      BY <1>1 DEF OwnersKnown
    <2>1. CASE t.key # k
      <3>1. t \in In(tickets) /\ t.key \in Turns
        BY <1>3, <2>1, Facts
      <3> QED BY <1>4, <2>1, <3>1 DEF Inv, OwnersKnown
    <2>2. CASE t.key = k
      <3>1. t.owner = round[k]
        BY <1>3, <2>2 DEF o
      <3>2. t.state = "running" => HoldsSlot(tickets', k)
        BY <1>3, <2>2, Members
      <3> QED BY <1>2, <1>4, <2>2, <3>1, <3>2 DEF o
    <2> QED BY <2>1, <2>2
  <1>8. GhostsOlder'
    <2>1. \A g \in ghosts : g.turn \in Turns
      BY Facts
    <2> QED BY <1>1, <1>4, <2>1 DEF Inv, GhostsOlder
  <1>9. AllGuarded'
    <2> SUFFICES ASSUME doubts = 0, NEW j \in Turns, Entitled(j)' PROVE Guarded(j)'
      BY <1>1 DEF AllGuarded
    <2>1. CASE j # k
      <3>1. Guarded(j)
        BY <1>1, <1>4, <2>1 DEF Inv, AllGuarded, Entitled
      <3> QED BY <1>1, <1>3, <1>4, <2>1, <3>1 DEF Guarded
    <2>2. CASE j = k
      <3>1. HoldsSlot(tickets', k)
        <4> SUFFICES ASSUME runner'[k] = "polling" PROVE HoldsSlot(tickets, k)
          BY <1>3, <1>4
        <4>1. Entitled(k)
          BY <1>1, <2>2 DEF Entitled
        <4>2. Guarded(k)
          BY <4>1 DEF Inv, AllGuarded
        <4> QED BY <1>2, <4>2, Members DEF Guarded
      <3>2. PICK t \in In(tickets') : t.key = k /\ t.state = "running"
        BY <1>3, <3>1, Members
      <3>3. t.owner = round[k]
        BY <1>3, <3>2 DEF o
      <3>4. \A g \in ghosts : g.turn = k => g.owner # round[k]
        BY <1>1 DEF Inv, GhostsOlder
      <3> QED BY <1>1, <2>2, <3>2, <3>3, <3>4 DEF Guarded
    <2> QED BY <2>1, <2>2
  <1>10. Counted'
    <2> SUFFICES ASSUME doubts = 0 PROVE Cardinality(Slots(tickets') \ Legacy) <= MaxConcurrent
      BY <1>1 DEF Counted
    <2>1. Cardinality(Slots(tickets) \ Legacy) <= MaxConcurrent
      BY DEF Inv, Counted
    <2>2. Slots(tickets') \subseteq Slots(tickets) \union {k}
      BY <1>3 DEF Slots
    <2>3. (k \in Slots(tickets) <=> HoldsSlot(tickets, k)) /\ (k \in Slots(tickets') <=> HoldsSlot(tickets', k))
      BY <1>2, <1>3, HoldsItsSlot
    <2>4. CASE Slots(tickets') \ Legacy \subseteq Slots(tickets) \ Legacy
      BY <1>2, <1>3, <2>1, <2>4, FewerSlots
    <2>5. CASE Cardinality(Slots(tickets)) < MaxConcurrent
      BY <1>2, <1>3, <2>2, <2>5, OneMoreSlot
    <2>6. CASE k \notin Legacy /\ r /\ ~HasTicket(tickets, k)
      <3>1. Guarded(k)
        BY <2>6 DEF r, Recovering, Inv, AllGuarded, Entitled
      <3> QED BY <1>2, <2>6, <3>1, Members DEF Guarded
    <2> QED BY <1>3, <2>2, <2>3, <2>4, <2>5, <2>6
  <1> QED BY <1>5, <1>6, <1>7, <1>8, <1>9, <1>10 DEF Inv

\* A runner gives its ticket back while its turn has no model work, or before it
\* took over the running ticket of its predecessor.
LEMMA ReleaseKeeps ==
  ASSUME Inv, NEW k \in Turns, Become(k, "idle"),
         tickets' = Released(tickets, k, round[k]),
         UNCHANGED <<round, ghosts, work, doubts, lapses>>,
         ~Recovering(k) \/ runner[k] = "polling"
  PROVE  Inv'
  <1>1. /\ Valid(tickets, Turns, Owners) /\ Valid(tickets', Turns, Owners)
        /\ In(tickets') = {t \in In(tickets) : t.key # k \/ t.owner # round[k]}
    BY Facts, ReleasedMembers
  <1>2. /\ runner' \in [Turns -> Stages] /\ runner'[k] = "idle"
        /\ \A j \in Turns \ {k} : runner'[j] = runner[j]
    BY DEF Become, Inv, TypeOK, Stages
  <1>3. TypeOK'
    BY <1>1, <1>2 DEF Inv, TypeOK, Valid, Unique
  <1>4. Rounds' /\ WorkIsOpen'
    BY <1>2 DEF Inv, Rounds, WorkIsOpen
  <1>5. OwnersKnown'
    <2>1. \A t \in In(tickets) : t.key \in Turns
      BY Facts
    <2> QED BY <1>1, <1>2, <2>1 DEF Inv, OwnersKnown
  <1>6. GhostsOlder'
    <2>1. \A g \in ghosts : g.turn \in Turns
      BY Facts
    <2> QED BY <1>2, <2>1 DEF Inv, GhostsOlder
  <1>7. AllGuarded'
    <2> SUFFICES ASSUME doubts = 0, NEW j \in Turns, Entitled(j)' PROVE Guarded(j)'
      BY DEF AllGuarded
    <2>1. Entitled(j)
      BY <1>2 DEF Entitled
    <2>2. PICK t \in In(tickets) : /\ t.key = j /\ t.state = "running"
                                   /\ \A g \in ghosts : g.turn = j => g.owner # t.owner
                                   /\ runner[j] \in {"admitted", "working"} => t.owner = round[j]
      BY <2>1 DEF Inv, AllGuarded, Guarded
    <2>3. CASE j # k
      <3>1. t \in In(tickets')
        BY <1>1, <2>2, <2>3
      <3> QED BY <1>2, <2>2, <2>3, <3>1 DEF Guarded
    <2>4. CASE j = k
      <3>1. runner[k] = "polling"
        BY <1>2, <2>4 DEF Entitled, Recovering
      <3>2. t.owner # round[k]
        BY <2>2, <2>4, <3>1 DEF Inv, OwnersKnown
      <3>3. t \in In(tickets')
        BY <1>1, <2>2, <3>2
      <3> QED BY <1>2, <2>2, <2>4, <3>3 DEF Guarded
    <2> QED BY <2>3, <2>4
  <1>8. Counted'
    <2>1. Slots(tickets') \ Legacy \subseteq Slots(tickets) \ Legacy
      BY <1>1 DEF Slots
    <2> QED BY <1>1, <2>1, FewerSlots DEF Inv, Counted
  <1> QED BY <1>3, <1>4, <1>5, <1>6, <1>7, <1>8 DEF Inv

LEMMA GiveUpKeeps ==
  ASSUME Inv, NEW k \in Turns, GiveUp(k)
  PROVE  Inv'
  BY ReleaseKeeps DEF GiveUp

LEMMA ReturnKeeps ==
  ASSUME Inv, NEW k \in Turns, Return(k)
  PROVE  Inv'
  BY ReleaseKeeps DEF Return

LEMMA TornPollKeeps ==
  ASSUME Inv, NEW k \in Turns, TornPoll(k)
  PROVE  Inv'
  <1> DEFINE o == round[k]
             r == Recovering(k)
             p == Poll(tickets, k, o, r)
  <1>1. /\ tickets' = Released(p, k, o)
        /\ runner' = [runner EXCEPT ![k] = "idle"]
        /\ doubts + lapses < MaxMishaps /\ doubts' = doubts + 1
        /\ UNCHANGED <<round, ghosts, work, lapses>>
    BY DEF TornPoll, Become
  <1>2. /\ Valid(tickets, Turns, Owners) /\ o \in Owners /\ r \in BOOLEAN
    BY Facts
  <1> HIDE DEF o, r
  <1>3. /\ Valid(p, Turns, Owners)
        /\ \A t \in In(p) : t.key # k => t \in In(tickets)
        /\ \A t \in In(p) : t.key = k => t.owner = o
    BY <1>2, PollMembers
  <1> HIDE DEF p
  <1>4. /\ Valid(tickets', Turns, Owners)
        /\ In(tickets') = {t \in In(p) : t.key # k \/ t.owner # o}
    BY <1>1, <1>3, ReleasedMembers
  <1>5. \A t \in In(tickets') : t \in In(tickets) /\ t.key # k
    BY <1>3, <1>4
  <1>6. /\ runner' \in [Turns -> Stages] /\ runner'[k] = "idle"
        /\ \A j \in Turns \ {k} : runner'[j] = runner[j]
    BY <1>1 DEF Inv, TypeOK, Stages
  <1>7. doubts' \in 0 .. MaxMishaps /\ doubts' # 0
    BY <1>1, Facts
  <1>8. TypeOK'
    BY <1>1, <1>4, <1>6, <1>7 DEF Inv, TypeOK, Valid, Unique
  <1>9. Rounds' /\ WorkIsOpen'
    BY <1>1, <1>6 DEF Inv, Rounds, WorkIsOpen
  <1>10. OwnersKnown'
    <2>1. \A t \in In(tickets) : t.key \in Turns
      BY Facts
    <2> QED BY <1>1, <1>5, <1>6, <2>1 DEF Inv, OwnersKnown
  <1>11. GhostsOlder'
    <2>1. \A g \in ghosts : g.turn \in Turns
      BY Facts
    <2> QED BY <1>1, <1>6, <2>1 DEF Inv, GhostsOlder
  <1> QED BY <1>7, <1>8, <1>9, <1>10, <1>11 DEF Inv, AllGuarded, Counted

\* The runner that loses the lease has no model work, so that its late return
\* takes nothing away from a turn that has.
LEMMA FenceKeeps ==
  ASSUME Inv, NEW k \in Turns, Fence(k)
  PROVE  Inv'
  <1> DEFINE new == [turn |-> k, owner |-> round[k], at |-> runner[k]]
  <1>1. /\ runner[k] \in {"polling", "admitted"} /\ ~Recovering(k)
        /\ runner' = [runner EXCEPT ![k] = "idle"]
        /\ ghosts' = ghosts \union {new}
        /\ UNCHANGED <<tickets, round, work, doubts, lapses>>
    BY DEF Fence, Become
  <1>2. /\ runner' \in [Turns -> Stages] /\ runner'[k] = "idle"
        /\ \A j \in Turns \ {k} : runner'[j] = runner[j]
    BY <1>1 DEF Inv, TypeOK, Stages
  <1>3. TypeOK'
    <2>1. new \in [turn : Turns, owner : Owners, at : {"polling", "admitted"}]
      BY <1>1, Facts
    <2> QED BY <1>1, <1>2, <2>1 DEF Inv, TypeOK
  <1>4. Rounds' /\ WorkIsOpen'
    BY <1>1, <1>2 DEF Inv, Rounds, WorkIsOpen
  <1>5. OwnersKnown'
    <2>1. \A t \in In(tickets) : t.key \in Turns
      BY Facts
    <2> QED BY <1>1, <1>2, <2>1 DEF Inv, OwnersKnown, In
  <1>6. GhostsOlder'
    <2>1. \A g \in ghosts : g.turn \in Turns
      BY Facts
    <2>2. new.owner <= round[new.turn] /\ new.turn = k
      BY Facts
    <2> QED BY <1>1, <1>2, <2>1, <2>2 DEF Inv, GhostsOlder
  <1>7. AllGuarded'
    <2> SUFFICES ASSUME doubts = 0, NEW j \in Turns, Entitled(j)' PROVE Guarded(j)'
      BY <1>1 DEF AllGuarded
    <2>1. j # k
      BY <1>1, <1>2 DEF Entitled, Recovering
    <2>2. Guarded(j)
      BY <1>1, <1>2, <2>1 DEF Inv, AllGuarded, Entitled
    <2> QED BY <1>1, <1>2, <2>1, <2>2 DEF Guarded, In
  <1>8. Counted'
    BY <1>1 DEF Inv, Counted, Slots, In
  <1> QED BY <1>3, <1>4, <1>5, <1>6, <1>7, <1>8 DEF Inv

LEMMA GhostPollKeeps ==
  ASSUME Inv, NEW g \in ghosts, GhostPoll(g)
  PROVE  Inv'
  <1> DEFINE k == g.turn
             o == g.owner
             r == FALSE
             new == [g EXCEPT !.at = IF HoldsSlot(tickets', k) THEN "admitted" ELSE "polling"]
  <1>1. /\ tickets' = Poll(tickets, k, o, r)
        /\ ghosts' = (ghosts \ {g}) \union {new}
        /\ doubts + lapses < MaxMishaps /\ doubts' = doubts + 1
        /\ UNCHANGED <<runner, round, work, lapses>>
    BY DEF GhostPoll
  <1>2. /\ Valid(tickets, Turns, Owners) /\ k \in Turns /\ o \in Owners /\ r \in BOOLEAN
        /\ o <= round[k] /\ (runner[k] # "idle" => o # round[k])
    BY Facts DEF Inv, GhostsOlder
  <1>3. /\ new \in [turn : Turns, owner : Owners, at : {"polling", "admitted"}]
        /\ new.turn = k /\ new.owner = o
    BY DEF Inv, TypeOK
  <1> HIDE DEF k, o, r, new
  <1>4. /\ Valid(tickets', Turns, Owners)
        /\ \A t \in In(tickets') : t.key # k => t \in In(tickets)
        /\ \A t \in In(tickets') : t.key = k => t.owner = o
    BY <1>1, <1>2, PollMembers
  <1>5. doubts' \in 0 .. MaxMishaps /\ doubts' # 0
    BY <1>1, Facts
  <1>6. TypeOK'
    BY <1>1, <1>3, <1>4, <1>5 DEF Inv, TypeOK, Valid, Unique
  <1>7. Rounds' /\ WorkIsOpen'
    BY <1>1 DEF Inv, Rounds, WorkIsOpen
  <1>8. OwnersKnown'
    BY <1>1, <1>2, <1>4 DEF Inv, OwnersKnown
  <1>9. GhostsOlder'
    BY <1>1, <1>2, <1>3 DEF Inv, GhostsOlder
  <1> QED BY <1>5, <1>6, <1>7, <1>8, <1>9 DEF Inv, AllGuarded, Counted

LEMMA GhostReturnsKeeps ==
  ASSUME Inv, NEW g \in ghosts, GhostReturns(g)
  PROVE  Inv'
  <1>1. /\ tickets' = Released(tickets, g.turn, g.owner) /\ ghosts' = ghosts \ {g}
        /\ UNCHANGED <<runner, round, work, doubts, lapses>>
    BY DEF GhostReturns
  <1>2. /\ Valid(tickets, Turns, Owners) /\ Valid(tickets', Turns, Owners)
        /\ In(tickets') = {t \in In(tickets) : t.key # g.turn \/ t.owner # g.owner}
    BY <1>1, Facts, ReleasedMembers
  <1>3. TypeOK'
    BY <1>1, <1>2 DEF Inv, TypeOK, Valid, Unique
  <1>4. Rounds' /\ WorkIsOpen' /\ OwnersKnown' /\ GhostsOlder'
    BY <1>1, <1>2 DEF Inv, Rounds, WorkIsOpen, OwnersKnown, GhostsOlder
  <1>5. AllGuarded'
    <2> SUFFICES ASSUME doubts = 0, NEW j \in Turns, Entitled(j) PROVE Guarded(j)'
      BY <1>1 DEF AllGuarded, Entitled
    <2>1. PICK t \in In(tickets) : /\ t.key = j /\ t.state = "running"
                                   /\ \A h \in ghosts : h.turn = j => h.owner # t.owner
                                   /\ runner[j] \in {"admitted", "working"} => t.owner = round[j]
      BY DEF Inv, AllGuarded, Guarded
    <2>2. t \in In(tickets')
      BY <1>2, <2>1
    <2> QED BY <1>1, <2>1, <2>2 DEF Guarded
  <1>6. Counted'
    <2>1. Slots(tickets') \ Legacy \subseteq Slots(tickets) \ Legacy
      BY <1>2 DEF Slots
    <2> QED BY <1>1, <1>2, <2>1, FewerSlots DEF Inv, Counted
  <1> QED BY <1>3, <1>4, <1>5, <1>6 DEF Inv

\* What of a ticket the passing of time leaves alone.
LEMMA StaleMembers ==
  ASSUME Inv, NEW i \in DOMAIN tickets, tickets' = [tickets EXCEPT ![i].stale = "yes"]
  PROVE  /\ Valid(tickets', Turns, Owners) /\ DOMAIN tickets' = DOMAIN tickets
         /\ \A j \in DOMAIN tickets : /\ tickets'[j].key = tickets[j].key
                                      /\ tickets'[j].owner = tickets[j].owner
                                      /\ tickets'[j].state = tickets[j].state
         /\ Slots(tickets') = Slots(tickets)
  <1>1. Valid(tickets, Turns, Owners) /\ \A j \in DOMAIN tickets : tickets[j] \in Tickets(Turns, Owners)
    BY Facts, Members DEF In
  <1>2. /\ DOMAIN tickets' = DOMAIN tickets /\ tickets' = [j \in DOMAIN tickets' |-> tickets'[j]]
        /\ \A j \in DOMAIN tickets :
             tickets'[j] = IF j = i THEN [tickets[j] EXCEPT !.stale = "yes"] ELSE tickets[j]
    OBVIOUS
  <1>3. \A j \in DOMAIN tickets : /\ tickets'[j] \in Tickets(Turns, Owners)
                                  /\ tickets'[j].key = tickets[j].key
                                  /\ tickets'[j].owner = tickets[j].owner
                                  /\ tickets'[j].state = tickets[j].state
    BY <1>1, <1>2 DEF Tickets
  <1>4. Valid(tickets', Turns, Owners)
    BY <1>1, <1>2, <1>3, UpdatedMembers
  <1>5. Slots(tickets') = Slots(tickets)
    <2>1. \A s : s \in Slots(tickets) <=> \E j \in DOMAIN tickets : tickets[j].key = s /\ tickets[j].state = "running"
      BY DEF Slots, In
    <2>2. \A s : s \in Slots(tickets') <=> \E j \in DOMAIN tickets' : tickets'[j].key = s /\ tickets'[j].state = "running"
      BY DEF Slots, In
    <2>3. \A s : (\E j \in DOMAIN tickets : tickets[j].key = s /\ tickets[j].state = "running")
                  <=> (\E j \in DOMAIN tickets' : tickets'[j].key = s /\ tickets'[j].state = "running")
      BY <1>2, <1>3
    <2>4. \A s : s \in Slots(tickets') <=> s \in Slots(tickets)
      BY <2>1, <2>2, <2>3
    <2> QED BY <2>4
  <1> QED BY <1>2, <1>3, <1>4, <1>5

LEMMA GoesStaleKeeps ==
  ASSUME Inv, NEW i \in DOMAIN tickets, GoesStale(i)
  PROVE  Inv'
  <1>1. /\ tickets' = [tickets EXCEPT ![i].stale = "yes"]
        /\ lapses' = IF Orphaned(i) THEN lapses ELSE lapses + 1
        /\ doubts + lapses' <= MaxMishaps
        /\ UNCHANGED <<runner, round, ghosts, work, doubts>>
    BY DEF GoesStale
  <1>2. /\ Valid(tickets', Turns, Owners) /\ DOMAIN tickets' = DOMAIN tickets
        /\ \A j \in DOMAIN tickets : /\ tickets'[j].key = tickets[j].key
                                     /\ tickets'[j].owner = tickets[j].owner
                                     /\ tickets'[j].state = tickets[j].state
        /\ Slots(tickets') = Slots(tickets)
    BY <1>1, StaleMembers
  <1>3. \A t \in In(tickets') : \E u \in In(tickets) : u.key = t.key /\ u.owner = t.owner /\ u.state = t.state
    BY <1>2 DEF In
  <1>4. \A u \in In(tickets) : \E t \in In(tickets') : u.key = t.key /\ u.owner = t.owner /\ u.state = t.state
    BY <1>2 DEF In
  <1>5. lapses' \in 0 .. MaxMishaps
    BY <1>1, Facts
  <1>6. TypeOK'
    BY <1>1, <1>2, <1>5 DEF Inv, TypeOK, Valid, Unique
  <1>7. Rounds' /\ WorkIsOpen' /\ GhostsOlder'
    BY <1>1 DEF Inv, Rounds, WorkIsOpen, GhostsOlder
  <1>8. OwnersKnown'
    BY <1>1, <1>3 DEF Inv, OwnersKnown
  <1>9. AllGuarded'
    <2> SUFFICES ASSUME doubts = 0, NEW j \in Turns, Entitled(j) PROVE Guarded(j)'
      BY <1>1 DEF AllGuarded, Entitled
    <2>1. PICK u \in In(tickets) : /\ u.key = j /\ u.state = "running"
                                   /\ \A h \in ghosts : h.turn = j => h.owner # u.owner
                                   /\ runner[j] \in {"admitted", "working"} => u.owner = round[j]
      BY DEF Inv, AllGuarded, Guarded
    <2>2. PICK t \in In(tickets') : u.key = t.key /\ u.owner = t.owner /\ u.state = t.state
      BY <1>4
    <2> QED BY <1>1, <2>1, <2>2 DEF Guarded
  <1>10. Counted'
    BY <1>1, <1>2 DEF Inv, Counted
  <1> QED BY <1>6, <1>7, <1>8, <1>9, <1>10 DEF Inv

LEMMA NextInv == Inv /\ [Next]_vars => Inv'
  <1> SUFFICES ASSUME Inv, [Next]_vars PROVE Inv'
    OBVIOUS
  <1>1. CASE \E k \in Turns : \/ Begin(k) \/ PollQueue(k) \/ GiveUp(k) \/ TornPoll(k)
                              \/ Dispatch(k) \/ Confirm(k) \/ Return(k) \/ ReturnPending(k)
                              \/ Crash(k) \/ Fence(k)
    BY <1>1, BeginKeeps, PollQueueKeeps, GiveUpKeeps, TornPollKeeps, DispatchKeeps, ConfirmKeeps,
       ReturnKeeps, ReturnPendingKeeps, CrashKeeps, FenceKeeps
  <1>2. CASE \E g \in ghosts : GhostPoll(g) \/ GhostReturns(g)
    BY <1>2, GhostPollKeeps, GhostReturnsKeeps
  <1>3. CASE \E i \in DOMAIN tickets : GoesStale(i)
    BY <1>3, GoesStaleKeeps
  <1>4. CASE UNCHANGED vars
    BY <1>4 DEF vars, Inv, TypeOK, Rounds, OwnersKnown, GhostsOlder, WorkIsOpen, AllGuarded, Entitled,
                Guarded, Counted, Slots, In
  <1> QED BY <1>1, <1>2, <1>3, <1>4 DEF Next

LEMMA Invariant == Spec => []Inv
  BY InitInv, NextInv, PTL DEF Spec

----------------------------------------------------------------------------
(* The results.                                                            *)

\* The queue file always is one that change() accepts: two tickets of one key
\* would stop every later turn of the installation.
THEOREM TypeCorrect == Spec => []TypeOK
  <1>1. Inv => TypeOK
    BY DEF Inv
  <1> QED BY <1>1, Invariant, PTL

\* Whatever crashes, stalls, gives up or is replaced, the model work of a turn
\* goes on under a ticket in a slot.
THEOREM WorkIsCovered == Spec => []WorkHoldsItsTicket
  <1>1. Inv => WorkHoldsItsTicket
    <2> SUFFICES ASSUME Inv, NEW k \in Turns, doubts = 0, work[k] = "open",
                        k \notin Legacy \/ runner[k] = "working"
                 PROVE  HoldsSlot(tickets, k)
      BY DEF WorkHoldsItsTicket
    <2>1. Guarded(k)
      BY DEF Inv, AllGuarded, Entitled
    <2> QED BY <2>1, Facts, Members DEF Guarded
  <1> QED BY <1>1, Invariant, PTL

\* The model never serves more turns than there are slots, and the turns that
\* were dispatched before the queue existed.
THEOREM SlotsAreRespected == Spec => []SlotsRespected
  <1>1. Inv => SlotsRespected
    <2> SUFFICES ASSUME Inv, doubts = 0
                 PROVE  Cardinality(InState(tickets, "running")) <= MaxConcurrent + Cardinality(Legacy)
      BY DEF SlotsRespected
    <2> DEFINE S == Slots(tickets)
    <2>1. /\ Cardinality(InState(tickets, "running")) = Cardinality(S)
          /\ IsFiniteSet(S) /\ Cardinality(S) \in Nat
      BY Facts, SlotsCounted
    <2>2. IsFiniteSet(Legacy) /\ Cardinality(Legacy) \in Nat
      BY TurnsAssumption, FS_Subset, FS_CardinalityType
    <2> HIDE DEF S
    <2>3. /\ Cardinality(S \ Legacy) = Cardinality(S) - Cardinality(S \cap Legacy)
          /\ IsFiniteSet(S \cap Legacy)
      BY <2>1, FS_Difference, FS_Intersection
    <2>4. Cardinality(S \cap Legacy) <= Cardinality(Legacy)
      BY <2>2, FS_Intersection
    <2>5. Cardinality(S \cap Legacy) \in Nat
      BY <2>3, FS_CardinalityType
    <2>6. Cardinality(S \ Legacy) <= MaxConcurrent
      BY DEF Inv, Counted, S
    <2>7. Cardinality(S) <= MaxConcurrent + Cardinality(Legacy)
      BY <2>1, <2>2, <2>3, <2>4, <2>5, <2>6, LimitsAssumption
    <2> QED BY <2>1, <2>7
  <1> QED BY <1>1, Invariant, PTL

\* Only polls put a turn into a slot.
NobodyAdmitted == \A s : HoldsSlot(tickets', s) => HoldsSlot(tickets, s)

LEMMA OnlyPollsAdmit ==
  ASSUME Inv, [Next]_vars
  PROVE  \/ NobodyAdmitted
         \/ \E k \in Turns, o \in Owners, r \in BOOLEAN : tickets' = Poll(tickets, k, o, r)
  <1>1. Valid(tickets, Turns, Owners)
    BY Facts
  <1>2. ASSUME NEW k, NEW o, tickets' = Released(tickets, k, o)
        PROVE  NobodyAdmitted
    <2>1. Valid(tickets', Turns, Owners) /\ In(tickets') \subseteq In(tickets)
      BY <1>1, <1>2, ReleasedMembers
    <2> QED BY <1>1, <2>1, Members DEF NobodyAdmitted
  <1>3. ASSUME UNCHANGED tickets PROVE NobodyAdmitted
    BY <1>3 DEF NobodyAdmitted, HoldsSlot
  <1>4. ASSUME NEW k \in Turns, PollQueue(k)
        PROVE  \E o \in Owners, r \in BOOLEAN : tickets' = Poll(tickets, k, o, r)
    BY <1>4, Facts DEF PollQueue
  <1>5. ASSUME NEW k \in Turns, TornPoll(k) PROVE NobodyAdmitted
    <2> DEFINE p == Poll(tickets, k, round[k], Recovering(k))
    <2>1. /\ Valid(p, Turns, Owners)
          /\ \A t \in In(p) : t.key # k => t \in In(tickets)
          /\ \A t \in In(p) : t.key = k => t.owner = round[k]
      BY <1>1, Facts, PollMembers
    <2>2. tickets' = Released(p, k, round[k])
      BY <1>5 DEF TornPoll
    <2> HIDE DEF p
    <2>3. Valid(tickets', Turns, Owners) /\ In(tickets') \subseteq In(tickets)
      BY <2>1, <2>2, ReleasedMembers
    <2> QED BY <1>1, <2>3, Members DEF NobodyAdmitted
  <1>6. ASSUME NEW k \in Turns, GiveUp(k) \/ Return(k) PROVE NobodyAdmitted
    BY <1>2, <1>6 DEF GiveUp, Return
  <1>7. ASSUME NEW k \in Turns,
               Begin(k) \/ Dispatch(k) \/ Confirm(k) \/ ReturnPending(k) \/ Crash(k) \/ Fence(k)
        PROVE  NobodyAdmitted
    BY <1>3, <1>7 DEF Begin, Dispatch, Confirm, ReturnPending, Crash, Fence
  <1>8. ASSUME NEW g \in ghosts, GhostPoll(g)
        PROVE  \E k \in Turns, o \in Owners, r \in BOOLEAN : tickets' = Poll(tickets, k, o, r)
    <2>1. \E r \in BOOLEAN : tickets' = Poll(tickets, g.turn, g.owner, r)
      BY <1>8 DEF GhostPoll
    <2> QED BY <2>1, Facts
  <1>9. ASSUME NEW g \in ghosts, GhostReturns(g) PROVE NobodyAdmitted
    BY <1>2, <1>9 DEF GhostReturns
  <1>10. ASSUME NEW i \in DOMAIN tickets, GoesStale(i) PROVE NobodyAdmitted
    BY <1>10, StaleMembers DEF GoesStale, NobodyAdmitted, HoldsSlot
  <1>11. CASE UNCHANGED vars
    BY <1>3, <1>11 DEF vars
  <1> QED BY <1>4, <1>5, <1>6, <1>7, <1>8, <1>9, <1>10, <1>11 DEF Next

\* No turn takes a slot before an earlier one that still waits for it with a
\* fresh heartbeat.
THEOREM FirstComeFirstServed == Spec => NoOvertaking
  <1> DEFINE InTurn == \A i, j \in DOMAIN tickets :
                         (/\ i < j
                          /\ tickets[i].state = "waiting" /\ tickets[j].state = "waiting"
                          /\ tickets[i].stale = "no" /\ HasTicket(tickets', tickets[i].key)
                          /\ HoldsSlot(tickets', tickets[j].key))
                         => HoldsSlot(tickets', tickets[i].key)
  <1>1. Inv /\ [Next]_vars => InTurn
    <2> SUFFICES ASSUME Inv, [Next]_vars,
                        NEW i \in DOMAIN tickets, NEW j \in DOMAIN tickets, i < j,
                        tickets[i].state = "waiting", tickets[j].state = "waiting",
                        tickets[i].stale = "no", HoldsSlot(tickets', tickets[j].key)
                 PROVE  FALSE
      OBVIOUS
    <2>1. Valid(tickets, Turns, Owners)
      BY Facts
    <2>2. ~HoldsSlot(tickets, tickets[j].key)
      BY <2>1 DEF HoldsSlot, Valid, Unique
    <2>3. PICK k \in Turns, o \in Owners, r \in BOOLEAN : tickets' = Poll(tickets, k, o, r)
      BY <2>2, OnlyPollsAdmit DEF NobodyAdmitted
    <2> QED BY <2>1, <2>3, PollRespectsOrder
  <1>2. Inv /\ [Next]_vars => [InTurn]_vars
    BY <1>1
  <1> QED BY <1>2, Invariant, PTL DEF Spec, NoOvertaking
=============================================================================
