---------------------------- MODULE ResourceLock ----------------------------
(***************************************************************************)
(* The directory lock of src/storage/resource-lock.ts, for one resource.   *)
(*                                                                         *)
(* A lock is a directory at a fixed path; creating it (mkdir) takes the    *)
(* lock, owner.json inside it names the lease by a random token, and the   *)
(* directory's mtime, refreshed by the holder's heartbeat, tells the other *)
(* processes whether it is stale.  A contender that finds the directory    *)
(* stale, and cannot show that its owner lives on this host, renames it    *)
(* away, checks that what it moved is what it had inspected, and deletes   *)
(* it, or moves it back.                                                   *)
(*                                                                         *)
(* Every file-system call is one step, because other processes may run     *)
(* between any two of them.  Calls name the path, not the directory they   *)
(* last saw there: that is where the races are.                            *)
(*                                                                         *)
(* Abstractions.  A token is drawn anew for each mkdir, so it is           *)
(* identified with the directory that mkdir created.  Time is the single   *)
(* bit "older than staleAfterMs" of each directory.  The owner's pid,      *)
(* process.json and process-identity.json together decide exactly whether  *)
(* the owner is alive (pid reuse before the sidecars exist is left out),   *)
(* and are written with it.  A heartbeat under way when the lease ends is   *)
(* dropped.                                                                *)
(***************************************************************************)
EXTENDS Naturals

CONSTANTS
    Procs,      \* processes that use the lock, each for one lease at a time
    Dead,       \* a process that had died before this history began
    NoProc,     \* "no process"
    Dirs,       \* directory incarnations (inodes); a forgotten one is reused
    NoDir,      \* "ENOENT"
    Torn,       \* owner.json is absent or does not parse
    HostOf,     \* the host of every process and of Dead
    MayStall,   \* phases in which a live process may overrun staleAfterMs
    Abandoned,  \* TRUE: the lock directory of Dead is there at the start
    MaxCrashes, \* bound: processes that crash
    MaxTouches  \* bound: heartbeats that rejuvenate one directory

ASSUME ProcsAssumption == Dead \notin Procs /\ NoProc \notin Procs \cup {Dead}
ASSUME DirsAssumption ==
    Dirs # {} /\ NoDir \notin Dirs /\ Torn \notin Dirs /\ NoDir # Torn
ASSUME StallAssumption == MayStall \subseteq {"created", "recovering", "held"}
ASSUME BoundsAssumption ==
    Abandoned \in BOOLEAN /\ MaxCrashes \in Nat /\ MaxTouches \in Nat

VARIABLES
    dirAt,      \* the directory at lockPath, or NoDir
    creator,    \* who drew the token of that name (made that directory)
    owner,      \* the token in a directory's owner.json, or Torn
    stale,      \* the directories whose mtime is at least staleAfterMs old
    mtime,      \* how often a directory's mtime was rejuvenated
    pc,         \* where each process is in acquire, the operation or release
    token,      \* the token of its current attempt or lease
    snap,       \* the stat result recoverStaleLock compares with
    quarantine, \* the directory at its private stalePath
    beat,       \* the processes whose heartbeat is between readOwner and utimes
    lost,       \* the processes whose lease has ownershipLost set
    crashes

fsVars == <<dirAt, creator, owner, stale, mtime>>
recoveryVars == <<snap, quarantine>>
leaseVars == <<token, beat, lost>>
vars == <<fsVars, pc, recoveryVars, leaseVars, crashes>>

NoSnap == [dir |-> NoDir, mtime |-> 0]

Phases == {"idle", "try", "created", "cleanup", "held", "checked", "removing",
           "stat", "read", "confirm", "rename", "verify", "discard",
           "restore", "wait", "dead"}

TypeOK ==
    /\ dirAt \in Dirs \cup {NoDir}
    /\ creator \in [Dirs -> Procs \cup {Dead, NoProc}]
    /\ owner \in [Dirs -> Dirs \cup {Torn}]
    /\ stale \subseteq Dirs
    /\ mtime \in [Dirs -> Nat]
    /\ pc \in [Procs -> Phases]
    /\ token \in [Procs -> Dirs \cup {NoDir}]
    /\ snap \in [Procs -> [dir : Dirs \cup {NoDir}, mtime : Nat]]
    /\ quarantine \in [Procs -> Dirs \cup {NoDir}]
    /\ beat \subseteq Procs
    /\ lost \subseteq Procs
    /\ crashes \in 0 .. MaxCrashes

(* The lock directory an earlier process left behind when it died. *)
AbandonedDir == CHOOSE d \in Dirs : TRUE

Init ==
    /\ dirAt = IF Abandoned THEN AbandonedDir ELSE NoDir
    /\ creator = [d \in Dirs |-> IF d = dirAt THEN Dead ELSE NoProc]
    /\ owner = [d \in Dirs |-> IF d = dirAt THEN d ELSE Torn]
    /\ stale = {dirAt} \ {NoDir}
    /\ mtime = [d \in Dirs |-> 0]
    /\ pc = [p \in Procs |-> "idle"]
    /\ token = [p \in Procs |-> NoDir]
    /\ snap = [p \in Procs |-> NoSnap]
    /\ quarantine = [p \in Procs |-> NoDir]
    /\ beat = {}
    /\ lost = {}
    /\ crashes = 0

Alive(p) == p \in Procs /\ pc[p] # "dead"

(* lockPath/owner.json carries p's token. *)
OwnsPath(p) == dirAt # NoDir /\ owner[dirAt] = token[p]

(* assertHeld: not known to be lost, and the owner record on disk is p's.   *)
AssertHeld(p) == p \notin lost /\ OwnsPath(p)

(* A directory no process can name or compare with any more. *)
Forgotten(d) ==
    /\ d # dirAt
    /\ \A p \in Procs : d \notin {token[p], snap[p].dir, quarantine[p]}
    /\ dirAt # NoDir => owner[dirAt] # d
    /\ \A p \in Procs : quarantine[p] # NoDir => owner[quarantine[p]] # d

(* The directory's mtime becomes now.  Snapshots are only taken of stale     *)
(* directories, so only a stale one needs an mtime that compares different. *)
Rejuvenate(d) ==
    /\ stale' = stale \ {d}
    /\ mtime' = [mtime EXCEPT ![d] = IF d \in stale THEN @ + 1 ELSE @]

Goto(p, phase) == pc' = [pc EXCEPT ![p] = phase]

(* An attempt or a lease ends: its local state goes with it. *)
Forget(p, phase) ==
    /\ Goto(p, phase)
    /\ token' = [token EXCEPT ![p] = NoDir]
    /\ beat' = beat \ {p}
    /\ lost' = lost \ {p}
    /\ snap' = [snap EXCEPT ![p] = NoSnap]
    /\ quarantine' = [quarantine EXCEPT ![p] = NoDir]

-----------------------------------------------------------------------------
(* acquire *)

Begin(p) ==
    /\ pc[p] = "idle"
    /\ Goto(p, "try")
    /\ UNCHANGED <<fsVars, recoveryVars, leaseVars, crashes>>

(* mkdir succeeds: the lock is taken, still without an owner record. *)
Mkdir(p) ==
    /\ pc[p] = "try"
    /\ dirAt = NoDir
    /\ \E d \in Dirs :
        /\ Forgotten(d)
        /\ dirAt' = d
        /\ creator' = [creator EXCEPT ![d] = p]
        /\ owner' = [owner EXCEPT ![d] = Torn]
        /\ stale' = stale \ {d}
        /\ mtime' = [mtime EXCEPT ![d] = 0]
        /\ token' = [token EXCEPT ![p] = d]
    /\ Goto(p, "created")
    /\ UNCHANGED <<recoveryVars, beat, lost, crashes>>

(* mkdir fails with EEXIST. *)
MkdirExists(p) ==
    /\ pc[p] = "try"
    /\ dirAt # NoDir
    /\ Goto(p, "stat")
    /\ UNCHANGED <<fsVars, recoveryVars, leaseVars, crashes>>

(* owner.json is written at the path, into whatever directory is there. *)
WriteOwner(p) ==
    /\ pc[p] = "created"
    /\ IF dirAt = NoDir
         THEN /\ Goto(p, "cleanup")
              /\ UNCHANGED fsVars
         ELSE /\ owner' = [owner EXCEPT ![dirAt] = token[p]]
              /\ Rejuvenate(dirAt)
              /\ Goto(p, "held")
              /\ UNCHANGED <<dirAt, creator>>
    /\ UNCHANGED <<recoveryVars, leaseVars, crashes>>

(* The owner record could not be written: rm(lockPath, force) and throw. *)
Cleanup(p) ==
    /\ pc[p] = "cleanup"
    /\ dirAt' = NoDir
    /\ Forget(p, "idle")
    /\ UNCHANGED <<creator, owner, stale, mtime, crashes>>

-----------------------------------------------------------------------------
(* recoverStaleLock *)

(* stat(lockPath): a missing or a fresh directory is not recovered. *)
StatInitial(p) ==
    /\ pc[p] = "stat"
    /\ IF dirAt \in stale
         THEN /\ snap' = [snap EXCEPT ![p] = [dir |-> dirAt, mtime |-> mtime[dirAt]]]
              /\ Goto(p, "read")
         ELSE /\ Goto(p, "wait")
              /\ UNCHANGED snap
    /\ UNCHANGED <<fsVars, quarantine, leaseVars, crashes>>

(* The owner record names a process of p's host that is alive. *)
LocalOwnerAlive(p) ==
    /\ dirAt # NoDir
    /\ owner[dirAt] # Torn
    /\ LET q == creator[owner[dirAt]] IN HostOf[q] = HostOf[p] /\ Alive(q)

(* Mutant: every recorded owner counts as alive.                            *)
ReadOwnerTrustingRecord(p) ==
    /\ pc[p] = "read"
    /\ Goto(p, IF dirAt # NoDir => owner[dirAt] # Torn THEN "wait" ELSE "confirm")
    /\ UNCHANGED <<fsVars, recoveryVars, leaseVars, crashes>>

(* owner.json is read by path; no owner, or a torn one, does not protect. *)
ReadOwner(p) ==
    /\ pc[p] = "read"
    /\ Goto(p, IF LocalOwnerAlive(p) THEN "wait" ELSE "confirm")
    /\ UNCHANGED <<fsVars, recoveryVars, leaseVars, crashes>>

SameSnapshot(p, d) == d # NoDir /\ snap[p] = [dir |-> d, mtime |-> mtime[d]]

(* The second stat has to equal the first one and still be stale. *)
Confirm(p) ==
    /\ pc[p] = "confirm"
    /\ Goto(p, IF SameSnapshot(p, dirAt) /\ dirAt \in stale THEN "rename" ELSE "wait")
    /\ UNCHANGED <<fsVars, recoveryVars, leaseVars, crashes>>

(* rename(lockPath, stalePath) moves whatever is at the path by now. *)
Quarantine(p) ==
    /\ pc[p] = "rename"
    /\ quarantine' = [quarantine EXCEPT ![p] = dirAt]
    /\ dirAt' = NoDir
    /\ Goto(p, IF dirAt = NoDir THEN "wait" ELSE "verify")
    /\ UNCHANGED <<creator, owner, stale, mtime, snap, leaseVars, crashes>>

(* Mutant: what was moved is not compared with what was inspected.          *)
VerifyNothing(p) ==
    /\ pc[p] = "verify"
    /\ Goto(p, "discard")
    /\ UNCHANGED <<fsVars, recoveryVars, leaseVars, crashes>>

Verify(p) ==
    /\ pc[p] = "verify"
    /\ Goto(p, IF SameSnapshot(p, quarantine[p]) THEN "discard" ELSE "restore")
    /\ UNCHANGED <<fsVars, recoveryVars, leaseVars, crashes>>

(* rm(stalePath); the loop tries mkdir again at once. *)
Discard(p) ==
    /\ pc[p] = "discard"
    /\ Forget(p, "try")
    /\ UNCHANGED <<fsVars, crashes>>

(* rename(stalePath, lockPath) puts the wrong catch back.  It replaces an   *)
(* empty directory; over one that has its owner record it fails, with       *)
(* EEXIST (the catch is deleted) or ENOTEMPTY (acquire throws).             *)
Restore(p) ==
    /\ pc[p] = "restore"
    /\ IF dirAt = NoDir \/ owner[dirAt] = Torn
         THEN /\ dirAt' = quarantine[p]
              /\ Forget(p, "wait")
         ELSE /\ \E phase \in {"wait", "idle"} : Forget(p, phase)
              /\ UNCHANGED dirAt
    /\ UNCHANGED <<creator, owner, stale, mtime, crashes>>

(* The deadline passed (ResourceLockTimeoutError), or another try. *)
Wait(p) ==
    /\ pc[p] = "wait"
    /\ \E phase \in {"idle", "try"} : Forget(p, phase)
    /\ UNCHANGED <<fsVars, crashes>>

-----------------------------------------------------------------------------
(* The lease: heartbeat, the end of the operation, release *)

(* heartbeat reads the owner: another token, or none, ends the lease. *)
HeartbeatRead(p) ==
    /\ pc[p] = "held" /\ p \notin lost \cup beat
    /\ IF OwnsPath(p)
         THEN beat' = beat \cup {p} /\ UNCHANGED lost
         ELSE lost' = lost \cup {p} /\ UNCHANGED beat
    /\ UNCHANGED <<fsVars, pc, recoveryVars, token, crashes>>

(* ... and then utimes(lockPath), whatever is there by then. *)
HeartbeatTouch(p) ==
    /\ p \in beat
    /\ beat' = beat \ {p}
    /\ IF dirAt = NoDir
         THEN /\ lost' = lost \cup {p}
              /\ UNCHANGED <<stale, mtime>>
         ELSE /\ mtime[dirAt] < MaxTouches
              /\ Rejuvenate(dirAt)
              /\ UNCHANGED lost
    /\ UNCHANGED <<dirAt, creator, owner, pc, recoveryVars, token, crashes>>

(* withLock's operation is over: assertHeld decides whether its result      *)
(* is returned, and release's own assertHeld whether the directory goes.    *)
Finish(p) ==
    /\ pc[p] = "held"
    /\ IF AssertHeld(p)
         THEN Goto(p, "checked") /\ UNCHANGED <<recoveryVars, leaseVars>>
         ELSE Forget(p, "idle")
    /\ UNCHANGED <<fsVars, crashes>>

ReleaseCheck(p) ==
    /\ pc[p] = "checked"
    /\ IF AssertHeld(p)
         THEN Goto(p, "removing") /\ UNCHANGED <<recoveryVars, leaseVars>>
         ELSE Forget(p, "idle")
    /\ UNCHANGED <<fsVars, crashes>>

(* rm(lockPath, recursive): ENOENT throws; either way the lease is over. *)
Remove(p) ==
    /\ pc[p] = "removing"
    /\ dirAt' = NoDir
    /\ Forget(p, "idle")
    /\ UNCHANGED <<creator, owner, stale, mtime, crashes>>

-----------------------------------------------------------------------------
(* The environment *)

Crash(p) ==
    /\ pc[p] # "dead" /\ crashes < MaxCrashes
    /\ crashes' = crashes + 1
    /\ Forget(p, "dead")
    /\ UNCHANGED fsVars

LeasePhases == {"held", "checked", "removing"}
RecoveryPhases == {"stat", "read", "confirm", "rename", "verify", "discard", "restore"}

(* A live process is in a phase it may not prolong beyond staleAfterMs: it  *)
(* writes the owner record in time, recovers in time, or heartbeats.        *)
Punctual(p) ==
    \/ pc[p] \in {"created", "cleanup"} /\ "created" \notin MayStall
    \/ pc[p] \in RecoveryPhases /\ "recovering" \notin MayStall
    \/ pc[p] \in LeasePhases /\ token[p] = dirAt /\ "held" \notin MayStall /\ p \notin lost

(* staleAfterMs passes over the directory at the path.                      *)
Expire ==
    /\ dirAt # NoDir /\ dirAt \notin stale
    /\ \A p \in Procs : ~Punctual(p)
    /\ stale' = stale \cup {dirAt}
    /\ UNCHANGED <<dirAt, creator, owner, mtime, pc, recoveryVars, leaseVars, crashes>>

Acquire(p) ==
    \/ Begin(p) \/ Mkdir(p) \/ MkdirExists(p) \/ WriteOwner(p) \/ Cleanup(p)
    \/ StatInitial(p) \/ ReadOwner(p) \/ Confirm(p) \/ Quarantine(p)
    \/ Verify(p) \/ Discard(p) \/ Restore(p) \/ Wait(p)

Lease(p) ==
    \/ HeartbeatRead(p) \/ HeartbeatTouch(p)
    \/ Finish(p) \/ ReleaseCheck(p) \/ Remove(p)

Next ==
    \/ \E p \in Procs : Acquire(p) \/ Lease(p) \/ Crash(p)
    \/ Expire

Spec == Init /\ [][Next]_vars

(* Every process keeps running (a timer, an I/O completion) unless it       *)
(* crashed, operations end, and time passes.  Nobody has to ask for the     *)
(* lock again after giving up, and no heartbeat has to be punctual.         *)
Fairness ==
    /\ \A p \in Procs : WF_vars(Acquire(p)) /\ WF_vars(Finish(p))
                        /\ WF_vars(ReleaseCheck(p)) /\ WF_vars(Remove(p))
    /\ WF_vars(Expire)

FairSpec == Spec /\ Fairness

-----------------------------------------------------------------------------
(* Properties *)

(* p is running the operation withLock protects. *)
Inside(p) == pc[p] = "held"

(* No two processes are inside the protected operation at once, not even    *)
(* while an abandoned lock is being recovered (resource-lock.test.ts:184).  *)
Exclusive == \A p, q \in Procs : Inside(p) /\ Inside(q) => p = q

(* A live owner keeps its lock however long its heartbeat is overdue: the   *)
(* path never stops naming its lease while its operation runs               *)
(* (resource-lock.test.ts:137 and the suspended-process integration test).  *)
LiveOwnerKept == \A p \in Procs : Inside(p) => OwnsPath(p)

(* The recursive rm of the lock path, on release and after a failed         *)
(* acquisition, never removes the directory of another process's lease,     *)
(* although it is done by path after the check of the owner.                *)
RemovesNoOtherLease ==
    [][\A p \in Procs : Remove(p) \/ Cleanup(p) =>
          \A q \in Procs \ {p} : pc[q] \in LeasePhases => ~OwnsPath(q)]_vars

(* A lock whose owner died does not stay: it is removed or taken over.      *)
AbandonedLock(d) == dirAt = d /\ owner[d] # Torn /\ ~Alive(creator[owner[d]])
AbandonedRecovered == \A d \in Dirs : AbandonedLock(d) ~> ~AbandonedLock(d)

=============================================================================
