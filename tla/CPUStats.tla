------------------------------- MODULE CPUStats -------------------------------
(***************************************************************************)
(* The CPU time counters of the cpu collector: collector/cpu_linux.go.     *)
(*                                                                         *)
(* /proc/stat is read without a lock.  What was read is merged into the    *)
(* map cpuStats under cpuStatsMutex, which is released and taken again to  *)
(* expose the map.  Scrapes overlap, so that what a scrape has read may be *)
(* old when it is merged, and the map may have moved on when it is         *)
(* exposed.  Each of the two critical sections is one step: nothing else   *)
(* reads or writes cpuStats, and the second one only reads it.             *)
(*                                                                         *)
(* Times are whole seconds.                                                *)
(***************************************************************************)
EXTENDS Integers, FiniteSets

CONSTANTS
  Scrapes,           \* goroutines that call Update, again and again
  CPUs,              \* processors
  Modes,             \* the fields of procfs.CPUStat other than Idle
  Idle,              \* the field Idle
  jumpBackSeconds,   \* idle jump back limit
  MaxWobble,         \* by how much a kernel counter falls back without a hotplug
  MaxLag,            \* how far a counter may get ahead of a reading not merged yet
  MaxSeconds         \* bound: how far each counter of the kernel goes, per processor

Fields == Modes \cup {Idle}

ASSUME CPUStatsAssumption ==
  /\ Idle \notin Modes
  /\ IsFiniteSet(CPUs)
  /\ jumpBackSeconds \in Nat \ {0}
  /\ MaxWobble \in Nat
  /\ MaxWobble < jumpBackSeconds
  /\ MaxLag \in Nat
  /\ MaxSeconds \in [CPUs -> [Fields -> Nat]]

VARIABLES
  online,       \* the kernel: processors that are online
  high,         \* the kernel: the highest value of every counter so far
  ticks,        \* the kernel: what /proc/stat shows for the processors online
  hotplugged,   \* history: the processors that have come online again
  cpuStats,     \* the map cpuStats of the collector
  pc,           \* control point of Update, per scrape
  newStats      \* what the scrape has read from /proc/stat

kernelVars == <<online, high, ticks, hotplugged>>
vars == <<online, high, ticks, hotplugged, cpuStats, pc, newStats>>

CPUStat == [Fields -> Nat]
IsStats(m) == DOMAIN m \subseteq CPUs /\ m \in [DOMAIN m -> CPUStat]
ControlPoints == {"idle", "info", "read", "updated"}

ZeroStat == [f \in Fields |-> 0]       \* procfs.CPUStat{}
Nothing == [c \in {} |-> ZeroStat]     \* an empty map

-------------------------------------------------------------------------------
Init ==
  /\ online = CPUs
  /\ high = [c \in CPUs |-> ZeroStat]
  /\ ticks = high
  /\ hotplugged = {}
  /\ cpuStats = Nothing
  /\ pc = [s \in Scrapes |-> "idle"]
  /\ newStats = [s \in Scrapes |-> Nothing]

-------------------------------------------------------------------------------
(* The kernel.                                                               *)

(* A counter goes on, as long as no scrape that has read it and has not      *)
(* merged it yet falls behind by more than MaxLag.                           *)
Tick(c, f) ==
  /\ c \in online
  /\ high[c][f] < MaxSeconds[c][f]
  /\ \A s \in Scrapes :
       pc[s] = "read" /\ c \in DOMAIN newStats[s] =>
         high[c][f] - newStats[s][c][f] < MaxLag
  /\ high' = [high EXCEPT ![c][f] = @ + 1]
  /\ ticks' = [ticks EXCEPT ![c][f] = high'[c][f]]
  /\ UNCHANGED <<online, hotplugged, cpuStats, pc, newStats>>

(* Counters of the kernel are known to fall back a little.                   *)
FallBack(c, f) ==
  /\ c \in online
  /\ \E v \in 0..high[c][f] - 1 :
       /\ high[c][f] - MaxWobble <= v
       /\ ticks' = [ticks EXCEPT ![c][f] = v]
  /\ UNCHANGED <<online, high, hotplugged, cpuStats, pc, newStats>>

Unplug(c) ==
  /\ c \in online
  /\ online # {c}
  /\ online' = online \ {c}
  /\ UNCHANGED <<high, ticks, hotplugged, cpuStats, pc, newStats>>

(* The counters of a processor that comes back go on or start again.         *)
Plug(c) ==
  /\ c \notin online
  /\ online' = online \cup {c}
  /\ hotplugged' = hotplugged \cup {c}
  /\ \/ UNCHANGED <<high, ticks>>
     \/ /\ high' = [high EXCEPT ![c] = ZeroStat]
        /\ ticks' = [ticks EXCEPT ![c] = ZeroStat]
  /\ UNCHANGED <<cpuStats, pc, newStats>>

Kernel ==
  \E c \in CPUs :
    \/ Unplug(c) \/ Plug(c)
    \/ \E f \in Fields : Tick(c, f) \/ FallBack(c, f)

-------------------------------------------------------------------------------
(* Update.                                                                   *)

(* updateInfo reads /proc/cpuinfo.  When it cannot, Update returns the error *)
(* and nothing has changed.                                                  *)
UpdateInfo(s) ==
  /\ pc[s] = "idle"
  /\ pc' = [pc EXCEPT ![s] = "info"]
  /\ UNCHANGED <<online, high, ticks, hotplugged, cpuStats, newStats>>

(* updateStat reads /proc/stat.                                              *)
ReadStat(s) ==
  /\ pc[s] = "info"
  /\ newStats' = [newStats EXCEPT ![s] = [c \in online |-> ticks[c]]]
  /\ pc' = [pc EXCEPT ![s] = "read"]
  /\ UNCHANGED <<online, high, ticks, hotplugged, cpuStats>>

(* updateStat returns the error of the read, and Update with it.             *)
ReadStatFails(s) ==
  /\ pc[s] = "info"
  /\ pc' = [pc EXCEPT ![s] = "idle"]
  /\ UNCHANGED <<online, high, ticks, hotplugged, cpuStats, newStats>>

(* Mutant: what was read replaces the cached counters.                       *)
MergedReplacing(old, n) == n

(* Mutant: the increase is kept instead of the value.                        *)
MergedIncrease(old, n) == [f \in Fields |-> n[f] - old[f]]

(* Mutant: an idle jump resets no field but Idle.                            *)
MergedIdleOnly(old, n) ==
  LET base == IF old[Idle] - n[Idle] >= jumpBackSeconds
              THEN [old EXCEPT ![Idle] = 0] ELSE old
  IN  [f \in Fields |-> IF n[f] >= base[f] THEN n[f] ELSE base[f]]

(* Mutant: any jump back of idle is taken for a hotplug event.               *)
MergedNoLimit(old, n) ==
  LET base == IF old[Idle] > n[Idle] THEN ZeroStat ELSE old
  IN  [f \in Fields |-> IF n[f] >= base[f] THEN n[f] ELSE base[f]]

(* Mutant: the limit itself is not taken for a hotplug, as the comment has it.*)
MergedAboveLimit(old, n) ==
  LET base == IF old[Idle] - n[Idle] > jumpBackSeconds THEN ZeroStat ELSE old
  IN  [f \in Fields |-> IF n[f] >= base[f] THEN n[f] ELSE base[f]]

(* The counters of one processor after n was read: the larger of the cached  *)
(* and the new value, field by field, unless idle jumped back by the limit,  *)
(* which drops the cached ones.                                              *)
Merged(old, n) ==
  LET base == IF old[Idle] - n[Idle] >= jumpBackSeconds THEN ZeroStat ELSE old
  IN  [f \in Fields |-> IF n[f] >= base[f] THEN n[f] ELSE base[f]]

(* c.cpuStats[i]: the zero value when the map has no such key.               *)
Cached(c) == IF c \in DOMAIN cpuStats THEN cpuStats[c] ELSE ZeroStat

(* cpuStats after the loop over what was read.                               *)
AfterLoop(n) ==
  [c \in DOMAIN cpuStats \cup DOMAIN n |->
     IF c \in DOMAIN n THEN Merged(Cached(c), n[c]) ELSE cpuStats[c]]

(* Mutant: the number of CPUs is compared before the loop.                   *)
UpdateCPUStatsComparingEarly(s) ==
  /\ pc[s] = "read"
  /\ LET n == newStats[s]
         all == AfterLoop(n)
     IN  cpuStats' = IF Cardinality(DOMAIN n) # Cardinality(DOMAIN cpuStats)
                     THEN [c \in DOMAIN n |-> all[c]]
                     ELSE all
  /\ pc' = [pc EXCEPT ![s] = "updated"]
  /\ UNCHANGED <<online, high, ticks, hotplugged, newStats>>

(* updateCPUStats, under the mutex: merge every processor that was read, and *)
(* remove the others when there are any, which shows in the lengths.         *)
UpdateCPUStats(s) ==
  /\ pc[s] = "read"
  /\ LET n == newStats[s]
         all == AfterLoop(n)
     IN  cpuStats' = IF Cardinality(DOMAIN n) # Cardinality(DOMAIN all)
                     THEN [c \in DOMAIN n |-> all[c]]
                     ELSE all
  /\ pc' = [pc EXCEPT ![s] = "updated"]
  /\ UNCHANGED <<online, high, ticks, hotplugged, newStats>>

(* updateStat exposes cpuStats, under the mutex again.  updateIsolated and   *)
(* updateThermalThrottle follow; they keep no state and return no error.     *)
ExposeStats(s) ==
  /\ pc[s] = "updated"
  /\ pc' = [pc EXCEPT ![s] = "idle"]
  /\ newStats' = [newStats EXCEPT ![s] = Nothing]
  /\ UNCHANGED <<online, high, ticks, hotplugged, cpuStats>>

Update(s) ==
  \/ UpdateInfo(s) \/ ReadStat(s) \/ ReadStatFails(s) \/ UpdateCPUStats(s)
  \/ ExposeStats(s)

Next == Kernel \/ \E s \in Scrapes : Update(s)

Spec == Init /\ [][Next]_vars

-------------------------------------------------------------------------------
(* Properties.                                                               *)

TypeOK ==
  /\ online \in SUBSET CPUs
  /\ high \in [CPUs -> CPUStat]
  /\ ticks \in [CPUs -> CPUStat]
  /\ hotplugged \in SUBSET CPUs
  /\ IsStats(cpuStats)
  /\ pc \in [Scrapes -> ControlPoints]
  /\ newStats = [s \in Scrapes |-> newStats[s]]
  /\ \A s \in Scrapes : IsStats(newStats[s])

(***************************************************************************)
(* After updateCPUStats the map holds the processors that were read and no *)
(* others, although it compares nothing but the two lengths: a processor   *)
(* that went offline while another came online is removed too.             *)
(***************************************************************************)
OfflineCPUsRemoved ==
  [][\A s \in Scrapes :
       UpdateCPUStats(s) => DOMAIN cpuStats' = DOMAIN newStats[s]]_vars

(***************************************************************************)
(* A counter in the map decreases only in a merge that found idle to have  *)
(* jumped back by the limit, and then all counters of the processor are    *)
(* the ones that were read: never a mixture of old and new.                *)
(***************************************************************************)
DecreaseIsReset ==
  [][\A c \in DOMAIN cpuStats \cap DOMAIN cpuStats' :
       (\E f \in Fields : cpuStats'[c][f] < cpuStats[c][f]) =>
         /\ cpuStats[c][Idle] - cpuStats'[c][Idle] >= jumpBackSeconds
         /\ \E s \in Scrapes :
              c \in DOMAIN newStats[s] /\ cpuStats'[c] = newStats[s][c]]_vars

(***************************************************************************)
(* A counter that starts again is followed and does not stand still until  *)
(* the kernel has caught up: after a merge the cached idle time of every   *)
(* processor that was read is ahead of the reading by less than the limit, *)
(* so that a jump by the limit itself is one, and not only a larger one.   *)
(***************************************************************************)
RestartIsFollowed ==
  [][\A s \in Scrapes :
       UpdateCPUStats(s) =>
         \A c \in DOMAIN newStats[s] :
           cpuStats'[c][Idle] - newStats[s][c][Idle] < jumpBackSeconds]_vars

(***************************************************************************)
(* "If idle jumps backwards by more than X seconds, assume we had a        *)
(* hotplug event": the counters of a processor that was never plugged in   *)
(* again do not decrease, as long as no reading is late by the limit.      *)
(***************************************************************************)
ResetsAreHotplugs ==
  [][\A c \in (DOMAIN cpuStats \cap DOMAIN cpuStats') \ hotplugged :
       \A f \in Fields : cpuStats'[c][f] >= cpuStats[c][f]]_vars

(***************************************************************************)
(* What a scrape is about to expose of a processor that was online all the *)
(* time is not older than what the scrape read itself, although other      *)
(* scrapes may have merged what they read in between.                      *)
(***************************************************************************)
ExposedIsFresh ==
  \A s \in Scrapes :
    pc[s] = "updated" =>
      \A c \in (DOMAIN newStats[s] \cap online) \ hotplugged :
        /\ c \in DOMAIN cpuStats
        /\ \A f \in Fields : cpuStats[c][f] >= newStats[s][c][f]
===============================================================================
