-------------------------- MODULE MaintenanceDrain --------------------------
(***************************************************************************)
(* The admission gate of an installation (src/src/operations/              *)
(* maintenance.ts): whoever changes something holds an activity, and the   *)
(* installation is in maintenance once a drain has seen the last one       *)
(* released.  Its caller says who acquires and releases activities.        *)
(***************************************************************************)
EXTENDS Integers, FiniteSets

VARIABLES phase,      \* accepting, draining or maintenance
          activities, \* the leases that are active
          drain       \* what the operator was last told

maintenance == <<phase, activities, drain>>

MaintenanceInit ==
  phase = "accepting" /\ activities = {} /\ drain = "none"

MaintenanceTypeOK(Activities) ==
  /\ phase \in {"accepting", "draining", "maintenance"}
  /\ activities \subseteq Activities
  /\ drain \in {"none", "waiting", "entered", "late", "interrupted"}

\* A new activity: only while nobody drains.
Acquire(a) ==
  /\ phase = "accepting"
  /\ activities' = activities \union {a}
  /\ UNCHANGED <<phase, drain>>

\* MUTANT of ReleaseAll: nobody looks whether the drain is complete.
ReleaseAllSilently(S) ==
  activities' = activities \ S /\ UNCHANGED <<phase, drain>>

\* The end of activities, which may complete a drain.
ReleaseAll(S) ==
  /\ activities' = activities \ S
  /\ IF phase = "draining" /\ activities \ S = {}
     THEN /\ phase' = "maintenance"
          /\ drain' = IF drain = "waiting" THEN "entered" ELSE drain
     ELSE UNCHANGED <<phase, drain>>

\* MUTANT of Enter: an operator that asks while others drain does not look
\* whether they still have something to wait for.
EnterAtOnce ==
  /\ drain # "waiting"
  /\ phase' = "maintenance" /\ drain' = "entered"
  /\ UNCHANGED activities

Enter ==
  /\ drain # "waiting"
  /\ IF phase = "maintenance" \/ activities = {}
     THEN phase' = "maintenance" /\ drain' = "entered"
     ELSE phase' = "draining" /\ drain' = "waiting"
  /\ UNCHANGED activities

\* The operator's patience ends; the installation goes on draining.
DrainTimesOut ==
  /\ drain = "waiting"
  /\ drain' = "late"
  /\ UNCHANGED <<phase, activities>>

Resume ==
  /\ phase # "accepting"
  /\ phase' = "accepting"
  /\ drain' = IF drain = "waiting" THEN "interrupted" ELSE "none"
  /\ UNCHANGED activities
=============================================================================
