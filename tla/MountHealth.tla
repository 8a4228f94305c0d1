----------------------------- MODULE MountHealth -----------------------------
(***************************************************************************)
(* What the stuck-mount registry of the filesystem collector promises,     *)
(* without dispatchers, workers, timers or locks.  statfs calls are begun  *)
(* and completed on mount points; a mount point may be declared stuck only *)
(* while a call on it is outstanding, and the completion of any call on it *)
(* withdraws the declaration.                                              *)
(***************************************************************************)

CONSTANTS MountPoints,   \* mount points of the machine
          Calls          \* identities of statfs calls

VARIABLES outstanding,   \* [MountPoints -> SUBSET Calls], the calls not completed
          stuck          \* the mount points declared stuck

healthVars == <<outstanding, stuck>>

HealthInit ==
  /\ outstanding = [m \in MountPoints |-> {}]
  /\ stuck = {}

Begin(m, c) ==
  /\ \A n \in MountPoints : c \notin outstanding[n]
  /\ outstanding' = [outstanding EXCEPT ![m] = @ \cup {c}]
  /\ UNCHANGED stuck

Complete(m, c) ==
  /\ c \in outstanding[m]
  /\ outstanding' = [outstanding EXCEPT ![m] = @ \ {c}]
  /\ stuck' = stuck \ {m}

TimeOut(m) ==
  /\ outstanding[m] # {}
  /\ stuck' = stuck \cup {m}
  /\ UNCHANGED outstanding

HealthNext ==
  \E m \in MountPoints :
    \/ TimeOut(m)
    \/ \E c \in Calls : Begin(m, c) \/ Complete(m, c)

HealthSpec == HealthInit /\ [][HealthNext]_healthVars

(***************************************************************************)
(* A mount point is stuck only while a call is there to withdraw it: no    *)
(* mount point can be excluded from every later scrape for ever.           *)
(***************************************************************************)
StuckIsOutstanding == \A m \in stuck : outstanding[m] # {}
==============================================================================
