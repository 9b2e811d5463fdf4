------------------------ MODULE ResourceLock_proofs ------------------------
(***************************************************************************)
(* Two things keep the holders of the lock apart, proved for any           *)
(* interleaving of the file-system calls:                                  *)
(*                                                                         *)
(*  - while no owner has died, the pid check: no number of suspended       *)
(*    owners and of contenders recovering them makes the lock change hands *)
(*    (first part, any number of processes on one host);                   *)
(*                                                                         *)
(*  - when owners die, the comparison of what was moved with what had been *)
(*    inspected, but only between two contenders (second part, for any     *)
(*    crashes, directories and delays of the recovery): with a third the   *)
(*    path is free for it while the wrong catch is being put back.         *)
(***************************************************************************)
EXTENDS ResourceLock, TLAPS

(* The processes share a host, none has died or dies, and a new directory  *)
(* gets its owner record before it is staleAfterMs old.                    *)
OwnersLive ==
    /\ ~Abandoned /\ MaxCrashes = 0
    /\ \A p, q \in Procs : HostOf[p] = HostOf[q]
    /\ "created" \notin MayStall

HolderPhases == {"created"} \cup LeasePhases

(* Nobody gets as far as moving a directory away. *)
NobodyMoves ==
    \A p \in Procs :
        pc[p] \notin {"dead", "cleanup", "rename", "verify", "discard", "restore"}

(* Whoever made a directory and has not removed it finds it at the path. *)
HolderAtPath ==
    \A p \in Procs : pc[p] \in HolderPhases =>
        dirAt # NoDir /\ token[p] = dirAt /\ creator[dirAt] = p

(* The directory at the path is its maker's, with the maker's token. *)
PathHasHolder ==
    dirAt # NoDir =>
        /\ creator[dirAt] \in Procs
        /\ pc[creator[dirAt]] \in HolderPhases
        /\ pc[creator[dirAt]] = "created" => owner[dirAt] = Torn /\ dirAt \notin stale
        /\ pc[creator[dirAt]] # "created" => owner[dirAt] = dirAt

(* A snapshot of the directory at the path that still compares equal was   *)
(* taken of a stale one, hence of one with a live owner in it, and its     *)
(* taker gave up when it read that owner.                                  *)
SnapshotsGuarded ==
    \A p \in Procs :
        /\ pc[p] \in {"read", "confirm"} /\ snap[p].dir = dirAt /\ dirAt # NoDir
        => /\ snap[p].mtime <= mtime[dirAt]
           /\ snap[p].mtime = mtime[dirAt] => dirAt \in stale /\ pc[p] = "read"

(* No lease is lost, and only leases have a heartbeat under way. *)
NothingLost ==
    lost = {} /\ \A p \in beat : pc[p] \in LeasePhases

Inv ==
    /\ TypeOK /\ NobodyMoves /\ HolderAtPath /\ PathHasHolder
    /\ SnapshotsGuarded /\ NothingLost

-----------------------------------------------------------------------------
LEMMA InitInv == ASSUME OwnersLive PROVE Init => Inv
  BY ProcsAssumption, DirsAssumption, BoundsAssumption
  DEF OwnersLive, Init, Inv, TypeOK, NobodyMoves, HolderAtPath, PathHasHolder,
      SnapshotsGuarded, NothingLost, HolderPhases, LeasePhases, Phases, NoSnap

(* Steps of acquire that touch neither the path nor a lease. *)
LEMMA RejuvenateType ==
  ASSUME TypeOK, NEW d \in Dirs, Rejuvenate(d)
  PROVE  mtime' \in [Dirs -> Nat] /\ stale' \subseteq Dirs
<1>1. (IF d \in stale THEN mtime[d] + 1 ELSE mtime[d]) \in Nat
  BY DEF TypeOK
<1>. QED BY <1>1 DEF TypeOK, Rejuvenate

LEMMA ForgetType ==
  ASSUME TypeOK, NEW p \in Procs, NEW phase \in Phases, Forget(p, phase)
  PROVE  /\ pc' \in [Procs -> Phases]
         /\ token' \in [Procs -> Dirs \cup {NoDir}]
         /\ beat' \subseteq Procs /\ lost' \subseteq Procs
         /\ snap' \in [Procs -> [dir : Dirs \cup {NoDir}, mtime : Nat]]
         /\ quarantine' \in [Procs -> Dirs \cup {NoDir}]
<1>1. NoSnap \in [dir : Dirs \cup {NoDir}, mtime : Nat]
  BY DEF NoSnap
<1>2. snap' \in [Procs -> [dir : Dirs \cup {NoDir}, mtime : Nat]]
  BY <1>1 DEF TypeOK, Forget
<1>. QED BY <1>2 DEF TypeOK, Forget, Goto

LEMMA WaitingStep ==
  ASSUME OwnersLive, Inv, NEW p \in Procs, Begin(p) \/ MkdirExists(p) \/ Wait(p)
  PROVE  Inv'
<1>1. CASE Begin(p) \/ MkdirExists(p)
  <2>1. TypeOK'
    BY <1>1
  DEF Begin, MkdirExists, Inv, TypeOK, Phases, Goto, fsVars, recoveryVars, leaseVars
  <2>2. \E phase \in {"try", "stat"} :
           /\ pc[p] \in {"idle", "try"} /\ pc' = [pc EXCEPT ![p] = phase]
           /\ UNCHANGED <<dirAt, creator, owner, stale, mtime, token, snap, beat, lost>>
    BY <1>1 DEF Begin, MkdirExists, Goto, fsVars, recoveryVars, leaseVars
  <2>. QED
    BY <2>1, <2>2 DEF Inv, TypeOK, NobodyMoves, HolderAtPath, PathHasHolder,
        SnapshotsGuarded, NothingLost, HolderPhases, LeasePhases
<1>2. CASE Wait(p)
  <2>1. PICK phase \in {"idle", "try"} : Forget(p, phase)
    BY <1>2 DEF Wait
  <2>2. TypeOK'
    BY <1>2, <2>1, ForgetType DEF Wait, Inv, TypeOK, Phases, fsVars
  <2>. QED
    BY <1>2, <2>1, <2>2 DEF Wait, Inv, TypeOK, NobodyMoves, HolderAtPath, PathHasHolder,
        SnapshotsGuarded, NothingLost, HolderPhases, LeasePhases, Goto, Forget, fsVars
<1>. QED BY <1>1, <1>2

LEMMA MkdirStep == ASSUME OwnersLive, Inv, NEW p \in Procs, Mkdir(p) PROVE Inv'
<1>1. TypeOK'
  <2>1. PICK d \in Dirs :
          /\ dirAt' = d /\ creator' = [creator EXCEPT ![d] = p]
          /\ owner' = [owner EXCEPT ![d] = Torn]
          /\ stale' = stale \ {d}
          /\ mtime' = [mtime EXCEPT ![d] = 0]
          /\ token' = [token EXCEPT ![p] = d]
    BY DEF Mkdir
  <2>. QED BY <2>1 DEF Mkdir, Goto, Inv, TypeOK, Phases, recoveryVars
<1>2. NobodyMoves'
  BY ProcsAssumption, DirsAssumption
  DEF Mkdir, Forgotten, HolderPhases, LeasePhases, Phases, Goto,
      recoveryVars, Inv, TypeOK, NobodyMoves, HolderAtPath,
      PathHasHolder
<1>3. HolderAtPath'
  BY ProcsAssumption, DirsAssumption
  DEF Mkdir, Forgotten, HolderPhases, LeasePhases, Phases, Goto,
      recoveryVars, Inv, TypeOK, NobodyMoves, HolderAtPath,
      PathHasHolder
<1>4. PathHasHolder'
  BY ProcsAssumption, DirsAssumption
  DEF Mkdir, Forgotten, HolderPhases, LeasePhases, Phases, Goto,
      recoveryVars, Inv, TypeOK, NobodyMoves, HolderAtPath,
      PathHasHolder
<1>5. SnapshotsGuarded'
  BY ProcsAssumption, DirsAssumption
  DEF Mkdir, Forgotten, HolderPhases, LeasePhases, Phases, Goto,
      recoveryVars, Inv, TypeOK, NobodyMoves, HolderAtPath,
      PathHasHolder, SnapshotsGuarded
<1>6. NothingLost'
  BY ProcsAssumption, DirsAssumption
  DEF Mkdir, Forgotten, HolderPhases, LeasePhases, Phases, Goto,
      recoveryVars, Inv, TypeOK, NobodyMoves, HolderAtPath,
      PathHasHolder, NothingLost
<1>. QED BY <1>1, <1>2, <1>3, <1>4, <1>5, <1>6 DEF Inv

LEMMA WriteOwnerStep == ASSUME OwnersLive, Inv, NEW p \in Procs, WriteOwner(p) PROVE Inv'
<1>1. TypeOK'
  <2>1. dirAt # NoDir /\ dirAt \in Dirs /\ token[p] = dirAt
    BY DEF WriteOwner, Inv, TypeOK, HolderAtPath, HolderPhases
  <2>2. mtime' \in [Dirs -> Nat] /\ stale' \subseteq Dirs
    BY <2>1, RejuvenateType DEF WriteOwner, Inv
  <2>. QED
    BY <2>1, <2>2
    DEF WriteOwner, Goto, Inv, TypeOK, Phases, recoveryVars, leaseVars
<1>2. NobodyMoves'
  BY ProcsAssumption, DirsAssumption
  DEF WriteOwner, Rejuvenate, HolderPhases, LeasePhases, Phases, Goto,
      fsVars, recoveryVars, leaseVars, Inv, TypeOK, NobodyMoves,
      HolderAtPath, PathHasHolder
<1>3. HolderAtPath'
  BY ProcsAssumption, DirsAssumption
  DEF WriteOwner, Rejuvenate, HolderPhases, LeasePhases, Phases, Goto,
      fsVars, recoveryVars, leaseVars, Inv, TypeOK, NobodyMoves,
      HolderAtPath, PathHasHolder
<1>4. PathHasHolder'
  BY ProcsAssumption, DirsAssumption
  DEF WriteOwner, Rejuvenate, HolderPhases, LeasePhases, Phases, Goto,
      fsVars, recoveryVars, leaseVars, Inv, TypeOK, NobodyMoves,
      HolderAtPath, PathHasHolder
<1>5. SnapshotsGuarded'
  BY ProcsAssumption, DirsAssumption
  DEF WriteOwner, Rejuvenate, HolderPhases, LeasePhases, Phases, Goto,
      fsVars, recoveryVars, leaseVars, Inv, TypeOK, NobodyMoves,
      HolderAtPath, PathHasHolder, SnapshotsGuarded
<1>6. NothingLost'
  BY ProcsAssumption, DirsAssumption
  DEF WriteOwner, Rejuvenate, HolderPhases, LeasePhases, Phases, Goto,
      fsVars, recoveryVars, leaseVars, Inv, TypeOK, NobodyMoves,
      HolderAtPath, PathHasHolder, NothingLost
<1>. QED BY <1>1, <1>2, <1>3, <1>4, <1>5, <1>6 DEF Inv

LEMMA StatInitialStep == ASSUME OwnersLive, Inv, NEW p \in Procs, StatInitial(p) PROVE Inv'
<1>. DEFINE s == [dir |-> dirAt, mtime |-> mtime[dirAt]]
<1>1. CASE dirAt \in stale
  <2>1. s \in [dir : Dirs \cup {NoDir}, mtime : Nat]
    BY <1>1 DEF Inv, TypeOK
  <2>2. snap' = [snap EXCEPT ![p] = s] /\ Goto(p, "read")
    BY <1>1 DEF StatInitial
  <2>3. snap' \in [Procs -> [dir : Dirs \cup {NoDir}, mtime : Nat]]
    BY <2>1, <2>2 DEF Inv, TypeOK
  <2>. QED
    BY <1>1, <2>2, <2>3
    DEF StatInitial, Inv, TypeOK, NobodyMoves, HolderAtPath, PathHasHolder,
        SnapshotsGuarded, NothingLost, HolderPhases, LeasePhases, Phases,
        Goto, fsVars, leaseVars
<1>2. CASE dirAt \notin stale
  BY <1>2
  DEF StatInitial, Inv, TypeOK, NobodyMoves, HolderAtPath, PathHasHolder,
      SnapshotsGuarded, NothingLost, HolderPhases, LeasePhases, Phases,
      Goto, fsVars, leaseVars
<1>. QED BY <1>1, <1>2

(* The owner of a stale directory is named in it and alive on this host. *)
LEMMA ReadOwnerStep == ASSUME OwnersLive, Inv, NEW p \in Procs, ReadOwner(p) PROVE Inv'
  BY ProcsAssumption, DirsAssumption
  DEF OwnersLive, ReadOwner, LocalOwnerAlive, Alive, Inv, TypeOK, NobodyMoves,
      HolderAtPath, PathHasHolder, SnapshotsGuarded, NothingLost, HolderPhases, LeasePhases,
      Phases, Goto, fsVars, recoveryVars, leaseVars

LEMMA ConfirmStep == ASSUME OwnersLive, Inv, NEW p \in Procs, Confirm(p) PROVE Inv'
  BY ProcsAssumption, DirsAssumption
  DEF Confirm, SameSnapshot, Inv, TypeOK, NobodyMoves, HolderAtPath,
      PathHasHolder, SnapshotsGuarded, NothingLost, HolderPhases, LeasePhases, Phases,
      Goto, fsVars, recoveryVars, leaseVars

(* Nobody holds a directory to verify, discard or restore, or cleans up. *)
LEMMA MovingStep ==
  ASSUME Inv, NEW p \in Procs,
         Quarantine(p) \/ Verify(p) \/ Discard(p) \/ Restore(p) \/ Cleanup(p)
  PROVE  FALSE
  BY DEF Inv, NobodyMoves, Quarantine, Verify, Discard, Restore, Cleanup

LEMMA HeartbeatStep ==
  ASSUME OwnersLive, Inv, NEW p \in Procs, HeartbeatRead(p) \/ HeartbeatTouch(p)
  PROVE  Inv'
<1>1. TypeOK'
  BY ProcsAssumption, DirsAssumption
  DEF HeartbeatRead, HeartbeatTouch, Rejuvenate, OwnsPath, HolderPhases,
      LeasePhases, Phases, fsVars, recoveryVars, Inv, TypeOK,
      NobodyMoves, HolderAtPath, PathHasHolder
<1>2. NobodyMoves'
  BY ProcsAssumption, DirsAssumption
  DEF HeartbeatRead, HeartbeatTouch, Rejuvenate, OwnsPath, HolderPhases,
      LeasePhases, Phases, fsVars, recoveryVars, Inv, TypeOK,
      NobodyMoves, HolderAtPath, PathHasHolder
<1>3. HolderAtPath'
  BY ProcsAssumption, DirsAssumption
  DEF HeartbeatRead, HeartbeatTouch, Rejuvenate, OwnsPath, HolderPhases,
      LeasePhases, Phases, fsVars, recoveryVars, Inv, TypeOK,
      NobodyMoves, HolderAtPath, PathHasHolder
<1>4. PathHasHolder'
  BY ProcsAssumption, DirsAssumption
  DEF HeartbeatRead, HeartbeatTouch, Rejuvenate, OwnsPath, HolderPhases,
      LeasePhases, Phases, fsVars, recoveryVars, Inv, TypeOK,
      NobodyMoves, HolderAtPath, PathHasHolder
<1>5. SnapshotsGuarded'
  BY ProcsAssumption, DirsAssumption
  DEF HeartbeatRead, HeartbeatTouch, Rejuvenate, OwnsPath, HolderPhases,
      LeasePhases, Phases, fsVars, recoveryVars, Inv, TypeOK,
      NobodyMoves, HolderAtPath, PathHasHolder, SnapshotsGuarded
<1>6. NothingLost'
  BY ProcsAssumption, DirsAssumption
  DEF HeartbeatRead, HeartbeatTouch, Rejuvenate, OwnsPath, HolderPhases,
      LeasePhases, Phases, fsVars, recoveryVars, Inv, TypeOK,
      NobodyMoves, HolderAtPath, PathHasHolder, NothingLost
<1>. QED BY <1>1, <1>2, <1>3, <1>4, <1>5, <1>6 DEF Inv

LEMMA CheckStep ==
  ASSUME OwnersLive, Inv, NEW p \in Procs, Finish(p) \/ ReleaseCheck(p)
  PROVE  Inv'
<1>1. pc[p] \in {"held", "checked"} /\ UNCHANGED <<fsVars, crashes>>
  BY DEF Finish, ReleaseCheck
<1>2. AssertHeld(p)
  BY <1>1 DEF AssertHeld, OwnsPath, Inv, HolderAtPath, PathHasHolder, NothingLost,
      HolderPhases, LeasePhases
<1>3. \E phase \in {"checked", "removing"} :
         /\ pc' = [pc EXCEPT ![p] = phase]
         /\ UNCHANGED <<dirAt, creator, owner, stale, mtime, token, snap, quarantine, beat, lost>>
  BY <1>1, <1>2 DEF Finish, ReleaseCheck, Goto, fsVars, recoveryVars, leaseVars
<1>4. TypeOK'
  BY <1>1, <1>3 DEF Inv, TypeOK, Phases
<1>. QED
  BY <1>1, <1>3, <1>4
 
  DEF Inv, TypeOK, NobodyMoves, HolderAtPath, PathHasHolder, SnapshotsGuarded,
      NothingLost,
      HolderPhases, LeasePhases

LEMMA RemoveStep == ASSUME OwnersLive, Inv, NEW p \in Procs, Remove(p) PROVE Inv'
  BY ProcsAssumption, DirsAssumption
  DEF Remove, Inv, TypeOK, NobodyMoves, HolderAtPath, PathHasHolder,
      SnapshotsGuarded, NothingLost, HolderPhases, LeasePhases, Phases, NoSnap, Goto, Forget

(* Time passes over the path only once its maker has recorded itself. *)
LEMMA ExpireStep == ASSUME OwnersLive, Inv, Expire PROVE Inv'
  BY ProcsAssumption, DirsAssumption
  DEF OwnersLive, Expire, Punctual, Inv, TypeOK, NobodyMoves, HolderAtPath,
      PathHasHolder, SnapshotsGuarded, NothingLost, HolderPhases, LeasePhases,
      Phases, recoveryVars, leaseVars

LEMMA CrashStep == ASSUME OwnersLive, Inv, NEW p \in Procs, Crash(p) PROVE FALSE
  BY DEF OwnersLive, Inv, TypeOK, Crash

LEMMA StutterStep == ASSUME Inv, UNCHANGED vars PROVE Inv'
  BY DEF vars, fsVars, recoveryVars, leaseVars, Inv, TypeOK, NobodyMoves, HolderAtPath,
      PathHasHolder, SnapshotsGuarded, NothingLost, HolderPhases, LeasePhases

LEMMA NextInv == ASSUME OwnersLive, Inv, [Next]_vars PROVE Inv'
<1>1. CASE UNCHANGED vars
  BY <1>1, StutterStep
<1>2. CASE Expire
  BY <1>2, ExpireStep
<1>3. ASSUME NEW p \in Procs, Acquire(p) PROVE Inv'
  BY <1>3, WaitingStep, MkdirStep, WriteOwnerStep, StatInitialStep, ReadOwnerStep,
     ConfirmStep, MovingStep DEF Acquire
<1>4. ASSUME NEW p \in Procs, Lease(p) PROVE Inv'
  BY <1>4, HeartbeatStep, CheckStep, RemoveStep DEF Lease
<1>5. ASSUME NEW p \in Procs, Crash(p) PROVE Inv'
  BY <1>5, CrashStep
<1>. QED BY <1>1, <1>2, <1>3, <1>4, <1>5 DEF Next

-----------------------------------------------------------------------------
(* A process that has made a directory knows it. *)
TokenKnown == \A p \in Procs : pc[p] = "created" => token[p] \in Dirs

LEMMA TypeStep == TypeOK /\ TokenKnown /\ [Next]_vars => TypeOK' /\ TokenKnown'
<1>. SUFFICES ASSUME TypeOK, TokenKnown, [Next]_vars
              PROVE  TypeOK' /\ TokenKnown'
  OBVIOUS
<1>1. ASSUME UNCHANGED vars PROVE TypeOK' /\ TokenKnown'
  BY <1>1 DEF TypeOK, TokenKnown, vars, fsVars, recoveryVars, leaseVars
<1>2. ASSUME NEW p \in Procs, NEW phase \in Phases \ {"created"}, Forget(p, phase),
             dirAt' \in Dirs \cup {NoDir}, crashes' \in 0 .. MaxCrashes,
             UNCHANGED <<creator, owner, stale, mtime>>
      PROVE  TypeOK' /\ TokenKnown'
  BY <1>2, ForgetType DEF TypeOK, TokenKnown, Forget, Goto
<1>3. ASSUME NEW p \in Procs, NEW phase \in Phases \ {"created"}, Goto(p, phase),
             dirAt' \in Dirs \cup {NoDir}, stale' \subseteq Dirs,
             mtime' \in [Dirs -> Nat], owner' \in [Dirs -> Dirs \cup {Torn}],
             snap' \in [Procs -> [dir : Dirs \cup {NoDir}, mtime : Nat]],
             quarantine' \in [Procs -> Dirs \cup {NoDir}],
             UNCHANGED <<creator, leaseVars, crashes>>
      PROVE  TypeOK' /\ TokenKnown'
  BY <1>3 DEF TypeOK, TokenKnown, Goto, leaseVars
<1>4. ASSUME Expire PROVE TypeOK' /\ TokenKnown'
  BY <1>4 DEF Expire, TypeOK, TokenKnown, recoveryVars, leaseVars
<1>5. ASSUME NEW p \in Procs, Acquire(p) PROVE TypeOK' /\ TokenKnown'
  <2>1. CASE Begin(p) \/ MkdirExists(p) \/ ReadOwner(p) \/ Confirm(p) \/ Verify(p)
    <3>1. \E phase \in Phases \ {"created"} : Goto(p, phase)
      BY <2>1 DEF Begin, MkdirExists, ReadOwner, Confirm, Verify, Phases
    <3>2. UNCHANGED <<fsVars, recoveryVars, leaseVars, crashes>>
      BY <2>1 DEF Begin, MkdirExists, ReadOwner, Confirm, Verify
    <3>. QED BY <3>1, <3>2, <1>3 DEF TypeOK, fsVars, recoveryVars
  <2>2. CASE Mkdir(p)
    <3>1. PICK d \in Dirs :
            /\ dirAt' = d /\ creator' = [creator EXCEPT ![d] = p]
            /\ owner' = [owner EXCEPT ![d] = Torn]
            /\ stale' = stale \ {d} /\ mtime' = [mtime EXCEPT ![d] = 0]
            /\ token' = [token EXCEPT ![p] = d]
      BY <2>2 DEF Mkdir
    <3>2. TypeOK'
      BY <2>2, <3>1 DEF Mkdir, Goto, TypeOK, Phases, recoveryVars
    <3>3. TokenKnown'
      BY <2>2, <3>1 DEF Mkdir, Goto, TypeOK, TokenKnown
    <3>. QED BY <3>2, <3>3
  <2>3. CASE WriteOwner(p) /\ dirAt = NoDir
    BY <2>3, <1>3 DEF WriteOwner, TypeOK, Phases, fsVars, recoveryVars
  <2>4. CASE WriteOwner(p) /\ dirAt # NoDir
    <3>1. dirAt \in Dirs /\ token[p] \in Dirs
      BY <2>4 DEF WriteOwner, TypeOK, TokenKnown
    <3>2. mtime' \in [Dirs -> Nat] /\ stale' \subseteq Dirs
      BY <2>4, <3>1, RejuvenateType DEF WriteOwner
    <3>. QED BY <2>4, <3>1, <3>2, <1>3 DEF WriteOwner, TypeOK, Phases, recoveryVars
  <2>5. CASE Cleanup(p) \/ Discard(p) \/ Wait(p)
    BY <2>5, <1>2 DEF Cleanup, Discard, Wait, TypeOK, Phases, fsVars
  <2>6. CASE StatInitial(p)
    <3>1. CASE dirAt \in stale
      <4>1. dirAt \in Dirs /\ mtime[dirAt] \in Nat
        BY <3>1 DEF TypeOK
      <4>2. snap' \in [Procs -> [dir : Dirs \cup {NoDir}, mtime : Nat]]
        BY <2>6, <3>1, <4>1 DEF StatInitial, TypeOK
      <4>. QED BY <2>6, <3>1, <4>2, <1>3 DEF StatInitial, TypeOK, Phases, fsVars
    <3>2. CASE dirAt \notin stale
      BY <2>6, <3>2, <1>3 DEF StatInitial, TypeOK, Phases, fsVars
    <3>. QED BY <3>1, <3>2
  <2>7. CASE Quarantine(p)
    <3>1. \E phase \in Phases \ {"created"} : Goto(p, phase)
      BY <2>7 DEF Quarantine, Phases
    <3>. QED BY <2>7, <3>1, <1>3 DEF Quarantine, TypeOK
  <2>8. CASE Restore(p)
    <3>1. dirAt' \in Dirs \cup {NoDir}
      BY <2>8 DEF Restore, TypeOK
    <3>2. \E phase \in Phases \ {"created"} : Forget(p, phase)
      BY <2>8 DEF Restore, Phases
    <3>. QED BY <2>8, <3>1, <3>2, <1>2 DEF Restore, TypeOK
  <2>. QED BY <1>5, <2>1, <2>2, <2>3, <2>4, <2>5, <2>6, <2>7, <2>8 DEF Acquire
<1>6. ASSUME NEW p \in Procs, Lease(p) PROVE TypeOK' /\ TokenKnown'
  <2>1. CASE HeartbeatRead(p)
    BY <2>1 DEF HeartbeatRead, TypeOK, TokenKnown, fsVars, recoveryVars
  <2>2. CASE HeartbeatTouch(p)
    <3>1. mtime' \in [Dirs -> Nat] /\ stale' \subseteq Dirs
      BY <2>2, RejuvenateType DEF HeartbeatTouch, TypeOK
    <3>. QED BY <2>2, <3>1 DEF HeartbeatTouch, TypeOK, TokenKnown, recoveryVars
  <2>3. CASE Finish(p) \/ ReleaseCheck(p)
    <3>1. CASE AssertHeld(p)
      BY <2>3, <3>1, <1>3 DEF Finish, ReleaseCheck, TypeOK, Phases, fsVars, recoveryVars
    <3>2. CASE ~AssertHeld(p)
      BY <2>3, <3>2, <1>2 DEF Finish, ReleaseCheck, TypeOK, Phases, fsVars
    <3>. QED BY <3>1, <3>2
  <2>4. CASE Remove(p)
    BY <2>4, <1>2 DEF Remove, TypeOK, Phases
  <2>. QED BY <1>6, <2>1, <2>2, <2>3, <2>4 DEF Lease
<1>7. ASSUME NEW p \in Procs, Crash(p) PROVE TypeOK' /\ TokenKnown'
  <2>1. crashes' \in 0 .. MaxCrashes
    BY <1>7, BoundsAssumption DEF Crash, TypeOK
  <2>. QED BY <1>7, <2>1, <1>2 DEF Crash, TypeOK, Phases, fsVars
<1>. QED BY <1>1, <1>4, <1>5, <1>6, <1>7 DEF Next

(* Every state is one the types of resource-lock.ts allow: a lease knows    *)
(* its token, an owner record holds a token or is torn.                    *)
THEOREM TypeCorrect == Spec => []TypeOK
<1>1. Init => TypeOK /\ TokenKnown
  <2>1. AbandonedDir \in Dirs
    BY DirsAssumption DEF AbandonedDir
  <2>2. Init => dirAt \in Dirs \cup {NoDir}
    BY <2>1 DEF Init
  <2>. QED
    BY <2>2, ProcsAssumption, DirsAssumption, BoundsAssumption
    DEF Init, TypeOK, TokenKnown, Phases, NoSnap
<1>. QED BY <1>1, TypeStep, PTL DEF Spec

(* A live owner never loses the path to a contender that finds it overdue, *)
(* for any number of processes (resource-lock.ts:409-472).                 *)
THEOREM LiveOwnerIsKept == ASSUME OwnersLive PROVE Spec => []LiveOwnerKept
<1>1. Init => Inv  BY InitInv
<1>2. Inv /\ [Next]_vars => Inv'  BY NextInv
<1>3. Inv => LiveOwnerKept
  BY DEF Inv, HolderAtPath, PathHasHolder, HolderPhases, LeasePhases,
      LiveOwnerKept, Inside, OwnsPath
<1>. QED BY <1>1, <1>2, <1>3, PTL DEF Spec

(* Nobody else is inside the protected operation while that owner is. *)
THEOREM LiveOwnerExcludes == ASSUME OwnersLive PROVE Spec => []Exclusive
<1>1. Init => Inv  BY InitInv
<1>2. Inv /\ [Next]_vars => Inv'  BY NextInv
<1>3. Inv => Exclusive
  BY DEF Inv, HolderAtPath, HolderPhases, LeasePhases, Exclusive, Inside
<1>. QED BY <1>1, <1>2, <1>3, PTL DEF Spec

-----------------------------------------------------------------------------
(* Two contenders on one host: either may crash, an abandoned lock may wait *)
(* for them, and each may stand still anywhere in recoverStaleLock.  A live *)
(* process writes its owner record and sends its heartbeats in time.        *)
TwoContenders ==
    /\ \A p, q, r \in Procs : p = q \/ p = r \/ q = r
    /\ \A p, q \in Procs : HostOf[p] = HostOf[q]
    /\ MayStall \subseteq {"recovering"}

Busy(p) == pc[p] \in HolderPhases

(* p moved something else than what it had inspected. *)
Astray(p) ==
    \/ pc[p] = "restore"
    \/ pc[p] = "verify" /\ ~SameSnapshot(p, quarantine[p])

(* The directory at the path is fresh, or says that the lock is p's. *)
AtPath(p) ==
    /\ dirAt # NoDir
    /\ pc[p] = "created" => dirAt \notin stale
    /\ pc[p] \in LeasePhases => owner[dirAt] = token[p]

(* It is the one p made, and it stays fresh. *)
Own(p) == AtPath(p) /\ token[p] = dirAt /\ p \notin lost /\ dirAt \notin stale

(* What holds of one process, seen from the other. *)
OneIsBusy(p, o) == Busy(p) => ~Busy(o) /\ pc[o] # "cleanup"

BusyAtPath(p, o) == Busy(o) /\ ~Astray(p) => AtPath(o)

(* A failed acquisition removes what the other has put back, and nothing   *)
(* else can have come to the path.                                         *)
CleanupAtPath(p, o) ==
    pc[o] = "cleanup" /\ ~Astray(p) =>
        /\ dirAt # NoDir /\ dirAt \notin stale
        /\ pc[p] \in {"idle", "try", "stat", "wait"}

(* A recoverer that got past a new holder's record inspected another        *)
(* directory, and the holder has not been disturbed yet.                   *)
Inspected(p, o) ==
    \/ pc[p] = "read" /\ pc[o] = "created"
    \/ pc[p] \in {"confirm", "rename"} /\ Busy(o)
    => Own(o) /\ snap[p].dir # dirAt

(* What it confirmed stays at the path until somebody takes it or moves it. *)
Confirmed(p, o) ==
    pc[p] = "rename" =>
        \/ dirAt = NoDir \/ Busy(o)
        \/ SameSnapshot(p, dirAt) /\ dirAt \in stale

(* What it moved by mistake is fresh, and is the other's lease unless the   *)
(* other has none, or has made another one at the path.                     *)
GoneAstray(p, o) ==
    Astray(p) =>
        /\ quarantine[p] \notin stale
        /\ pc[o] \in {"idle", "try", "cleanup"} \cup HolderPhases
        /\ \/ /\ dirAt = NoDir
              /\ pc[o] \in LeasePhases => owner[quarantine[p]] = token[o]
           \/ Busy(o) /\ Own(o)

Apart(p) ==
    pc[p] \in {"verify", "discard", "restore"} =>
        quarantine[p] # NoDir /\ quarantine[p] # dirAt

Pair(p, o) ==
    /\ OneIsBusy(p, o) /\ BusyAtPath(p, o) /\ CleanupAtPath(p, o)
    /\ Inspected(p, o) /\ Confirmed(p, o) /\ GoneAstray(p, o) /\ Apart(p)

(* Whoever made a directory drew its token; leases alone have heartbeats    *)
(* and are lost.                                                            *)
Tokens ==
    /\ \A p \in Procs : Busy(p) => token[p] \in Dirs /\ creator[token[p]] = p
    /\ \A p \in beat \cup lost : pc[p] \in LeasePhases

PairInv ==
    /\ TypeOK /\ Tokens
    /\ \A p \in Procs : \A o \in Procs \ {p} :
          pc[p] # "dead" /\ pc[o] # "dead" => Pair(p, o)

LEMMA PairInit == ASSUME TwoContenders PROVE Init => PairInv
<1>1. AbandonedDir \in Dirs
  BY DirsAssumption DEF AbandonedDir
<1>2. Init => dirAt \in Dirs \cup {NoDir}
  BY <1>1 DEF Init
<1>3. Init => TypeOK
  BY <1>2, ProcsAssumption, DirsAssumption, BoundsAssumption
  DEF Init, TypeOK, Phases, NoSnap
<1>. QED
  BY <1>3
  DEF Init, PairInv, Tokens, Pair, OneIsBusy, BusyAtPath, CleanupAtPath, Inspected,
     Confirmed, GoneAstray, Apart, Busy, Astray, HolderPhases, LeasePhases

LEMMA TypesKept == ASSUME PairInv, [Next]_vars PROVE TypeOK'
  BY TypeStep DEF PairInv, Tokens, TokenKnown, Busy, HolderPhases

LEMMA TokensKept == ASSUME PairInv, [Next]_vars PROVE Tokens'
<1>. USE DEF PairInv, Tokens, Busy, HolderPhases, LeasePhases
<1>1. ASSUME UNCHANGED <<creator, token, beat, lost>>,
             \A p \in Procs : Busy(p)' => Busy(p),
             \A p \in beat \cup lost : pc'[p] \in LeasePhases
      PROVE  Tokens'
  BY <1>1
<1>2. ASSUME NEW p \in Procs, NEW phase \in Phases \ HolderPhases, Forget(p, phase),
             UNCHANGED creator
      PROVE  Tokens'
  BY <1>2 DEF Forget, Goto, TypeOK
<1>3. CASE UNCHANGED vars
  BY <1>1, <1>3 DEF vars, fsVars, leaseVars
<1>4. CASE Expire
  BY <1>1, <1>4 DEF Expire, leaseVars
<1>5. ASSUME NEW p \in Procs, Acquire(p) PROVE Tokens'
  <2>1. CASE Begin(p) \/ MkdirExists(p) \/ StatInitial(p) \/ ReadOwner(p) \/ Confirm(p)
                      \/ Quarantine(p) \/ Verify(p)
    <3>1. pc[p] \notin HolderPhases /\ UNCHANGED <<creator, token, beat, lost>>
      BY <2>1 DEF Begin, MkdirExists, StatInitial, ReadOwner, Confirm, Quarantine, Verify,
         fsVars, leaseVars
    <3>2. \E phase \in Phases \ HolderPhases : Goto(p, phase)
      BY <2>1 DEF Begin, MkdirExists, StatInitial, ReadOwner, Confirm, Quarantine, Verify,
         Phases
    <3>. QED BY <1>1, <3>1, <3>2 DEF Goto, TypeOK
  <2>2. CASE WriteOwner(p)
    <3>1. pc[p] = "created" /\ UNCHANGED <<creator, token, beat, lost>>
      BY <2>2 DEF WriteOwner, fsVars, leaseVars
    <3>2. \E phase \in Phases : Goto(p, phase)
      BY <2>2 DEF WriteOwner, Phases
    <3>. QED BY <1>1, <3>1, <3>2 DEF Goto, TypeOK
  <2>3. CASE Cleanup(p) \/ Discard(p) \/ Restore(p) \/ Wait(p)
    BY <1>2, <2>3 DEF Cleanup, Discard, Restore, Wait, Phases, fsVars
  <2>4. CASE Mkdir(p)
    <3>1. PICK d \in Dirs :
            /\ Forgotten(d)
            /\ creator' = [creator EXCEPT ![d] = p]
            /\ token' = [token EXCEPT ![p] = d]
      BY <2>4 DEF Mkdir
    <3>2. pc' = [pc EXCEPT ![p] = "created"] /\ UNCHANGED <<beat, lost>> /\ pc[p] = "try"
      BY <2>4 DEF Mkdir, Goto
    <3>3. \A q \in Procs : token[q] # d
      BY <3>1 DEF Forgotten
    <3>. QED BY <3>1, <3>2, <3>3 DEF TypeOK
  <2>. QED BY <1>5, <2>1, <2>2, <2>3, <2>4 DEF Acquire
<1>6. ASSUME NEW p \in Procs, Lease(p) PROVE Tokens'
  <2>1. CASE HeartbeatRead(p) \/ HeartbeatTouch(p)
    BY <2>1 DEF HeartbeatRead, HeartbeatTouch, fsVars, recoveryVars
  <2>2. CASE Finish(p) \/ ReleaseCheck(p)
    <3>1. CASE AssertHeld(p)
      <4>1. UNCHANGED <<creator, token, beat, lost>> /\ pc[p] \in LeasePhases
        BY <2>2, <3>1 DEF Finish, ReleaseCheck, fsVars, leaseVars
      <4>2. \E phase \in LeasePhases : Goto(p, phase)
        BY <2>2, <3>1 DEF Finish, ReleaseCheck
      <4>. QED BY <1>1, <4>1, <4>2 DEF Goto, TypeOK
    <3>2. CASE ~AssertHeld(p)
      BY <1>2, <2>2, <3>2 DEF Finish, ReleaseCheck, Phases, fsVars
    <3>. QED BY <3>1, <3>2
  <2>3. CASE Remove(p)
    BY <1>2, <2>3 DEF Remove, Phases
  <2>. QED BY <1>6, <2>1, <2>2, <2>3 DEF Lease
<1>7. ASSUME NEW p \in Procs, Crash(p) PROVE Tokens'
  BY <1>2, <1>7 DEF Crash, Phases, fsVars
<1>. QED BY <1>3, <1>4, <1>5, <1>6, <1>7 DEF Next
LEMMA Both ==
  ASSUME PairInv, NEW p \in Procs, NEW o \in Procs \ {p}, pc[p] # "dead", pc[o] # "dead"
  PROVE  Pair(p, o) /\ Pair(o, p)
  BY DEF PairInv

USE
  DEF Pair, OneIsBusy, BusyAtPath, CleanupAtPath, Inspected, Confirmed, GoneAstray, Apart,
    Busy, Astray, AtPath, Own, HolderPhases, LeasePhases, SameSnapshot

LEMMA BeginPair ==
  ASSUME TwoContenders, PairInv, TypeOK', NEW p \in Procs, NEW o \in Procs \ {p}, Begin(p),
         pc[o] # "dead"
  PROVE  Pair(p, o)' /\ Pair(o, p)'
<1>1. Pair(p, o) /\ Pair(o, p)
  BY Both DEF Begin, PairInv, Tokens
<1>2. Pair(p, o)'
  BY <1>1, SMTT(20) DEF PairInv, TypeOK, Begin, Goto, fsVars, recoveryVars, leaseVars
<1>3. Pair(o, p)'
  BY <1>1, SMTT(20) DEF PairInv, TypeOK, Begin, Goto, fsVars, recoveryVars, leaseVars
<1>. QED BY <1>2, <1>3

LEMMA MkdirExistsPair ==
  ASSUME TwoContenders, PairInv, TypeOK', NEW p \in Procs, NEW o \in Procs \ {p}, MkdirExists(p),
         pc[o] # "dead"
  PROVE  Pair(p, o)' /\ Pair(o, p)'
<1>1. Pair(p, o) /\ Pair(o, p)
  BY Both DEF MkdirExists, PairInv, Tokens
<1>2. Pair(p, o)'
  BY <1>1, SMTT(20)
  DEF PairInv, TypeOK, MkdirExists, Goto, fsVars, recoveryVars, leaseVars
<1>3. Pair(o, p)'
  BY <1>1, SMTT(20)
  DEF PairInv, TypeOK, MkdirExists, Goto, fsVars, recoveryVars, leaseVars
<1>. QED BY <1>2, <1>3

LEMMA WaitPair ==
  ASSUME TwoContenders, PairInv, TypeOK', NEW p \in Procs, NEW o \in Procs \ {p}, Wait(p),
         pc[o] # "dead"
  PROVE  Pair(p, o)' /\ Pair(o, p)'
<1>1. Pair(p, o) /\ Pair(o, p)
  BY Both DEF Wait, PairInv, Tokens
<1>2. Pair(p, o)'
  BY <1>1, SMTT(20) DEF PairInv, TypeOK, Wait, Forget, Goto, fsVars
<1>3. Pair(o, p)'
  BY <1>1, SMTT(20) DEF PairInv, TypeOK, Wait, Forget, Goto, fsVars
<1>. QED BY <1>2, <1>3

LEMMA WriteOwnerPair ==
  ASSUME TwoContenders, PairInv, TypeOK', NEW p \in Procs, NEW o \in Procs \ {p}, WriteOwner(p),
         pc[o] # "dead"
  PROVE  Pair(p, o)' /\ Pair(o, p)'
<1>1. Pair(p, o) /\ Pair(o, p)
  BY Both DEF WriteOwner, PairInv, Tokens
<1>2. Pair(p, o)'
  BY <1>1, SMTT(20)
  DEF PairInv, TypeOK, WriteOwner, Goto, Rejuvenate, fsVars, recoveryVars, leaseVars
<1>3. Pair(o, p)'
  BY <1>1, SMTT(20)
  DEF PairInv, TypeOK, WriteOwner, Goto, Rejuvenate, fsVars, recoveryVars, leaseVars
<1>. QED BY <1>2, <1>3

LEMMA CleanupPair ==
  ASSUME TwoContenders, PairInv, TypeOK', NEW p \in Procs, NEW o \in Procs \ {p}, Cleanup(p),
         pc[o] # "dead"
  PROVE  Pair(p, o)' /\ Pair(o, p)'
<1>1. Pair(p, o) /\ Pair(o, p)
  BY Both DEF Cleanup, PairInv, Tokens
<1>2. Pair(p, o)'
  BY <1>1, SMTT(20) DEF PairInv, TypeOK, Cleanup, Forget, Goto
<1>3. Pair(o, p)'
  BY <1>1, SMTT(20) DEF PairInv, TypeOK, Cleanup, Forget, Goto
<1>. QED BY <1>2, <1>3

LEMMA StatInitialPair ==
  ASSUME TwoContenders, PairInv, TypeOK', NEW p \in Procs, NEW o \in Procs \ {p}, StatInitial(p),
         pc[o] # "dead"
  PROVE  Pair(p, o)' /\ Pair(o, p)'
<1>1. Pair(p, o) /\ Pair(o, p)
  BY Both DEF StatInitial, PairInv, Tokens
<1>2. Pair(p, o)'
  BY <1>1, SMTT(20) DEF PairInv, TypeOK, StatInitial, Goto, fsVars, leaseVars
<1>3. Pair(o, p)'
  BY <1>1, SMTT(20) DEF PairInv, TypeOK, StatInitial, Goto, fsVars, leaseVars
<1>. QED BY <1>2, <1>3

LEMMA ReadOwnerPair ==
  ASSUME TwoContenders, PairInv, TypeOK', NEW p \in Procs, NEW o \in Procs \ {p}, ReadOwner(p),
         pc[o] # "dead"
  PROVE  Pair(p, o)' /\ Pair(o, p)'
<1>1. Pair(p, o) /\ Pair(o, p)
  BY Both DEF ReadOwner, PairInv, Tokens
<1>2. Pair(p, o)'
  BY <1>1, DirsAssumption, SMTT(20)
  DEF PairInv, TypeOK, ReadOwner, LocalOwnerAlive, Alive, Tokens, TwoContenders, Goto,
      fsVars, recoveryVars, leaseVars
<1>3. Pair(o, p)'
  BY <1>1, DirsAssumption, SMTT(20)
  DEF PairInv, TypeOK, ReadOwner, LocalOwnerAlive, Alive, Tokens, TwoContenders, Goto,
      fsVars, recoveryVars, leaseVars
<1>. QED BY <1>2, <1>3

LEMMA ConfirmPair ==
  ASSUME TwoContenders, PairInv, TypeOK', NEW p \in Procs, NEW o \in Procs \ {p}, Confirm(p),
         pc[o] # "dead"
  PROVE  Pair(p, o)' /\ Pair(o, p)'
<1>1. Pair(p, o) /\ Pair(o, p)
  BY Both DEF Confirm, PairInv, Tokens
<1>2. Pair(p, o)'
  BY <1>1, SMTT(20) DEF PairInv, TypeOK, Confirm, Goto, fsVars, recoveryVars, leaseVars
<1>3. Pair(o, p)'
  BY <1>1, SMTT(20) DEF PairInv, TypeOK, Confirm, Goto, fsVars, recoveryVars, leaseVars
<1>. QED BY <1>2, <1>3

LEMMA QuarantinePair ==
  ASSUME TwoContenders, PairInv, TypeOK', NEW p \in Procs, NEW o \in Procs \ {p}, Quarantine(p),
         pc[o] # "dead"
  PROVE  Pair(p, o)' /\ Pair(o, p)'
<1>1. Pair(p, o) /\ Pair(o, p)
  BY Both DEF Quarantine, PairInv, Tokens
<1>2. Pair(p, o)'
  BY <1>1, SMTT(20) DEF PairInv, TypeOK, Quarantine, Goto, leaseVars
<1>3. Pair(o, p)'
  BY <1>1, SMTT(20) DEF PairInv, TypeOK, Quarantine, Goto, leaseVars
<1>. QED BY <1>2, <1>3

LEMMA VerifyPair ==
  ASSUME TwoContenders, PairInv, TypeOK', NEW p \in Procs, NEW o \in Procs \ {p}, Verify(p),
         pc[o] # "dead"
  PROVE  Pair(p, o)' /\ Pair(o, p)'
<1>1. Pair(p, o) /\ Pair(o, p)
  BY Both DEF Verify, PairInv, Tokens
<1>2. Pair(p, o)'
  BY <1>1, SMTT(20) DEF PairInv, TypeOK, Verify, Goto, fsVars, recoveryVars, leaseVars
<1>3. Pair(o, p)'
  BY <1>1, SMTT(20) DEF PairInv, TypeOK, Verify, Goto, fsVars, recoveryVars, leaseVars
<1>. QED BY <1>2, <1>3

LEMMA DiscardPair ==
  ASSUME TwoContenders, PairInv, TypeOK', NEW p \in Procs, NEW o \in Procs \ {p}, Discard(p),
         pc[o] # "dead"
  PROVE  Pair(p, o)' /\ Pair(o, p)'
<1>1. Pair(p, o) /\ Pair(o, p)
  BY Both DEF Discard, PairInv, Tokens
<1>2. Pair(p, o)'
  BY <1>1, SMTT(20) DEF PairInv, TypeOK, Discard, Forget, Goto, fsVars
<1>3. Pair(o, p)'
  BY <1>1, SMTT(20) DEF PairInv, TypeOK, Discard, Forget, Goto, fsVars
<1>. QED BY <1>2, <1>3

LEMMA RestorePair ==
  ASSUME TwoContenders, PairInv, TypeOK', NEW p \in Procs, NEW o \in Procs \ {p}, Restore(p),
         pc[o] # "dead"
  PROVE  Pair(p, o)' /\ Pair(o, p)'
<1>1. Pair(p, o) /\ Pair(o, p)
  BY Both DEF Restore, PairInv, Tokens
<1>2. Pair(p, o)'
  BY <1>1, DirsAssumption, SMTT(20) DEF PairInv, TypeOK, Restore, Forget, Goto, Tokens
<1>3. Pair(o, p)'
  BY <1>1, DirsAssumption, SMTT(20) DEF PairInv, TypeOK, Restore, Forget, Goto, Tokens
<1>. QED BY <1>2, <1>3

LEMMA HeartbeatReadPair ==
  ASSUME TwoContenders, PairInv, TypeOK', NEW p \in Procs, NEW o \in Procs \ {p}, HeartbeatRead(p),
         pc[o] # "dead"
  PROVE  Pair(p, o)' /\ Pair(o, p)'
<1>1. Pair(p, o) /\ Pair(o, p)
  BY Both DEF HeartbeatRead, PairInv, Tokens
<1>2. Pair(p, o)'
  BY <1>1, SMTT(20)
  DEF PairInv, TypeOK, HeartbeatRead, OwnsPath, fsVars, recoveryVars, AssertHeld
<1>3. Pair(o, p)'
  BY <1>1, SMTT(20)
  DEF PairInv, TypeOK, HeartbeatRead, OwnsPath, fsVars, recoveryVars, AssertHeld
<1>. QED BY <1>2, <1>3

LEMMA HeartbeatTouchPair ==
  ASSUME TwoContenders, PairInv, TypeOK', NEW p \in Procs, NEW o \in Procs \ {p}, HeartbeatTouch(p),
         pc[o] # "dead"
  PROVE  Pair(p, o)' /\ Pair(o, p)'
<1>1. Pair(p, o) /\ Pair(o, p)
  BY Both DEF HeartbeatTouch, PairInv, Tokens
<1>2. Pair(p, o)'
  BY <1>1, SMTT(20) DEF PairInv, TypeOK, HeartbeatTouch, Rejuvenate, Tokens, recoveryVars
<1>3. Pair(o, p)'
  BY <1>1, SMTT(20) DEF PairInv, TypeOK, HeartbeatTouch, Rejuvenate, Tokens, recoveryVars
<1>. QED BY <1>2, <1>3

LEMMA FinishPair ==
  ASSUME TwoContenders, PairInv, TypeOK', NEW p \in Procs, NEW o \in Procs \ {p}, Finish(p),
         pc[o] # "dead"
  PROVE  Pair(p, o)' /\ Pair(o, p)'
<1>1. Pair(p, o) /\ Pair(o, p)
  BY Both DEF Finish, PairInv, Tokens
<1>2. Pair(p, o)'
  BY <1>1, SMTT(20)
  DEF PairInv, TypeOK, Finish, AssertHeld, OwnsPath, Goto, Forget, fsVars, recoveryVars,
      leaseVars
<1>3. Pair(o, p)'
  BY <1>1, SMTT(20)
  DEF PairInv, TypeOK, Finish, AssertHeld, OwnsPath, Goto, Forget, fsVars, recoveryVars,
      leaseVars
<1>. QED BY <1>2, <1>3

LEMMA ReleaseCheckPair ==
  ASSUME TwoContenders, PairInv, TypeOK', NEW p \in Procs, NEW o \in Procs \ {p}, ReleaseCheck(p),
         pc[o] # "dead"
  PROVE  Pair(p, o)' /\ Pair(o, p)'
<1>1. Pair(p, o) /\ Pair(o, p)
  BY Both DEF ReleaseCheck, PairInv, Tokens
<1>2. Pair(p, o)'
  BY <1>1, SMTT(20)
  DEF PairInv, TypeOK, ReleaseCheck, AssertHeld, OwnsPath, Goto, Forget, fsVars,
      recoveryVars, leaseVars
<1>3. Pair(o, p)'
  BY <1>1, SMTT(20)
  DEF PairInv, TypeOK, ReleaseCheck, AssertHeld, OwnsPath, Goto, Forget, fsVars,
      recoveryVars, leaseVars
<1>. QED BY <1>2, <1>3

LEMMA RemovePair ==
  ASSUME TwoContenders, PairInv, TypeOK', NEW p \in Procs, NEW o \in Procs \ {p}, Remove(p),
         pc[o] # "dead"
  PROVE  Pair(p, o)' /\ Pair(o, p)'
<1>1. Pair(p, o) /\ Pair(o, p)
  BY Both DEF Remove, PairInv, Tokens
<1>2. Pair(p, o)'
  BY <1>1, SMTT(20) DEF PairInv, TypeOK, Remove, Forget, Goto
<1>3. Pair(o, p)'
  BY <1>1, SMTT(20) DEF PairInv, TypeOK, Remove, Forget, Goto
<1>. QED BY <1>2, <1>3

(* The new directory is no one's: not at the path, in no snapshot, in no    *)
(* quarantine.                                                              *)
LEMMA MkdirPair ==
  ASSUME TwoContenders, PairInv, TypeOK', NEW p \in Procs, NEW o \in Procs \ {p}, Mkdir(p),
         pc[o] # "dead"
  PROVE  Pair(p, o)' /\ Pair(o, p)'
<1>1. Pair(p, o) /\ Pair(o, p)
  BY Both DEF Mkdir
<1>2. PICK d \in Dirs :
        /\ d \notin {token[o], snap[o].dir, quarantine[o]}
        /\ dirAt' = d
        /\ owner' = [owner EXCEPT ![d] = Torn]
        /\ stale' = stale \ {d}
        /\ mtime' = [mtime EXCEPT ![d] = 0]
        /\ token' = [token EXCEPT ![p] = d]
  BY DEF Mkdir, Forgotten
<1>3. /\ pc[p] = "try" /\ dirAt = NoDir /\ pc' = [pc EXCEPT ![p] = "created"]
      /\ UNCHANGED <<snap, quarantine, beat, lost>>
  BY DEF Mkdir, Goto, recoveryVars
<1>4. p \notin lost
  BY <1>3 DEF PairInv, Tokens
<1>5. Pair(p, o)'
  BY <1>1, <1>2, <1>3, <1>4, DirsAssumption, SMTT(20) DEF PairInv, TypeOK
<1>6. Pair(o, p)'
  BY <1>1, <1>2, <1>3, <1>4, DirsAssumption, SMTT(20) DEF PairInv, TypeOK
<1>. QED BY <1>5, <1>6

(* Time passes over no directory of a process that is punctual.             *)
LEMMA ExpirePair ==
  ASSUME TwoContenders, PairInv, Expire, NEW p \in Procs, NEW o \in Procs \ {p},
         pc[p] # "dead", pc[o] # "dead"
  PROVE  Pair(p, o)'
<1>1. Pair(p, o) /\ Pair(o, p)
  BY Both
<1>. QED
  BY <1>1, SMTT(20)
  DEF TwoContenders, PairInv, TypeOK, Expire, Punctual, recoveryVars, leaseVars

HIDE
  DEF Pair, OneIsBusy, BusyAtPath, CleanupAtPath, Inspected, Confirmed, GoneAstray, Apart,
    Busy, Astray, AtPath, Own, HolderPhases, LeasePhases, SameSnapshot

(* Nobody comes back from the dead. *)
LEMMA DeadStayDead ==
  ASSUME PairInv, [Next]_vars, NEW p \in Procs, pc[p] = "dead"
  PROVE  pc'[p] = "dead"
<1>1. ASSUME NEW q \in Procs, q # p, NEW phase, Goto(q, phase) \/ Forget(q, phase)
      PROVE  pc'[p] = "dead"
  BY <1>1 DEF PairInv, TypeOK, Goto, Forget
<1>2. CASE UNCHANGED vars \/ Expire
  BY <1>2 DEF vars, Expire
<1>3. ASSUME NEW q \in Procs, Acquire(q) PROVE pc'[p] = "dead"
  <2>1. q # p
    BY <1>3 DEF Acquire, Begin, Mkdir, MkdirExists, WriteOwner, Cleanup, StatInitial,
       ReadOwner, Confirm, Quarantine, Verify, Discard, Restore, Wait
  <2>2. \E phase : Goto(q, phase) \/ Forget(q, phase)
    BY <1>3, Zenon
    DEF Acquire, Begin, Mkdir, MkdirExists, WriteOwner, Cleanup, StatInitial,
        ReadOwner, Confirm, Quarantine, Verify, Discard, Restore, Wait
  <2>. QED BY <1>1, <2>1, <2>2
<1>4. ASSUME NEW q \in Procs, Lease(q) PROVE pc'[p] = "dead"
  <2>1. CASE HeartbeatRead(q) \/ HeartbeatTouch(q)
    BY <2>1 DEF HeartbeatRead, HeartbeatTouch
  <2>2. CASE Finish(q) \/ ReleaseCheck(q) \/ Remove(q)
    <3>1. q # p
      BY <2>2 DEF Finish, ReleaseCheck, Remove
    <3>2. \E phase : Goto(q, phase) \/ Forget(q, phase)
      BY <2>2, Zenon DEF Finish, ReleaseCheck, Remove
    <3>. QED BY <1>1, <3>1, <3>2
  <2>. QED BY <1>4, <2>1, <2>2 DEF Lease
<1>5. ASSUME NEW q \in Procs, Crash(q) PROVE pc'[p] = "dead"
  BY <1>1, <1>5 DEF Crash
<1>. QED BY <1>2, <1>3, <1>4, <1>5 DEF Next

LEMMA PairsKept == ASSUME TwoContenders, PairInv, [Next]_vars PROVE PairInv'
<1>1. TypeOK' /\ Tokens'
  BY TypesKept, TokensKept
<1>2. ASSUME NEW p \in Procs, NEW o \in Procs \ {p}, pc'[p] # "dead", pc'[o] # "dead"
      PROVE  Pair(p, o)'
  <2>1. pc[p] # "dead" /\ pc[o] # "dead"
    BY <1>2, DeadStayDead
  <2>2. CASE UNCHANGED vars
    <3>1. Pair(p, o)
      BY <2>1, Both
    <3>2. UNCHANGED <<dirAt, creator, owner, stale, mtime, pc, snap, quarantine, token, beat, lost>>
      BY <2>2 DEF vars, fsVars, recoveryVars, leaseVars
    <3>. QED BY <3>1, <3>2
         DEF Pair, OneIsBusy, BusyAtPath, CleanupAtPath, Inspected, Confirmed, GoneAstray, Apart,
             Busy, Astray, AtPath, Own, SameSnapshot
  <2>3. CASE Expire
    BY <2>1, <2>3, ExpirePair
  <2>4. ASSUME NEW q \in Procs, Acquire(q) \/ Lease(q) \/ Crash(q)
        PROVE  Pair(p, o)'
    <3>1. q = p \/ q = o
      BY DEF TwoContenders
    <3>2. ~Crash(q)
      BY <1>2, <3>1 DEF Crash, Forget, Goto, PairInv, TypeOK
    <3>3. ASSUME Acquire(q) PROVE Pair(p, o)'
      BY <1>1, <2>1, <3>1, <3>3, BeginPair, MkdirPair, MkdirExistsPair, WriteOwnerPair,
         CleanupPair, StatInitialPair, ReadOwnerPair, ConfirmPair, QuarantinePair,
         VerifyPair, DiscardPair, RestorePair, WaitPair, Zenon DEF Acquire
    <3>4. ASSUME Lease(q) PROVE Pair(p, o)'
      BY <1>1, <2>1, <3>1, <3>4, HeartbeatReadPair, HeartbeatTouchPair, FinishPair,
         ReleaseCheckPair, RemovePair, Zenon DEF Lease
    <3>. QED BY <2>4, <3>2, <3>3, <3>4
  <2>. QED BY <2>2, <2>3, <2>4 DEF Next
<1>. QED BY <1>1, <1>2 DEF PairInv

(* Of two contenders, whoever crashes and however long a recovery stands   *)
(* still, at most one is inside (resource-lock.test.ts:184).               *)
THEOREM TwoExclude == ASSUME TwoContenders PROVE Spec => []Exclusive
<1>1. Init => PairInv  BY PairInit
<1>2. PairInv /\ [Next]_vars => PairInv'  BY PairsKept
<1>3. PairInv => Exclusive
  BY DEF PairInv, Pair, OneIsBusy, Busy, HolderPhases, LeasePhases, Exclusive, Inside
<1>. QED BY <1>1, <1>2, <1>3, PTL DEF Spec

(* The recursive rm of a release or of a failed acquisition, by path, never *)
(* takes the directory of the other's lease.                                *)
THEOREM TwoRemoveTheirOwn == ASSUME TwoContenders PROVE Spec => RemovesNoOtherLease
<1>. DEFINE Safe ==
       \A p \in Procs : Remove(p) \/ Cleanup(p) =>
          \A q \in Procs \ {p} : pc[q] \in LeasePhases => ~OwnsPath(q)
<1>1. Init => PairInv  BY PairInit
<1>2. PairInv /\ [Next]_vars => PairInv'  BY PairsKept
<1>3. PairInv => Safe
  BY DEF PairInv, Pair, OneIsBusy, Busy, HolderPhases, LeasePhases, Remove, Cleanup
<1>4. Spec => [][Safe]_vars
  BY <1>1, <1>2, <1>3, PTL DEF Spec
<1>. QED BY <1>4 DEF RemovesNoOtherLease

=============================================================================
