---------------------------- MODULE CPUStatsProofs ----------------------------
(***************************************************************************)
(* Proofs about the CPU time counters, for every set of processors, modes  *)
(* and overlapping scrapes, however far the kernel's counters go.          *)
(***************************************************************************)
EXTENDS CPUStats, FiniteSetTheorems, TLAPS

(* The counters after a merge, without a reset and with one.                 *)
LEMMA MergedValue ==
  ASSUME NEW old \in CPUStat, NEW n \in CPUStat
  PROVE  /\ Merged(old, n) \in CPUStat
         /\ \A f \in Fields : Merged(old, n)[f] >= n[f]
         /\ \A f \in Fields : Merged(old, n)[f] \in {old[f], n[f]}
         /\ old[Idle] - n[Idle] < jumpBackSeconds =>
              \A f \in Fields : Merged(old, n)[f] >= old[f]
         /\ old[Idle] - n[Idle] >= jumpBackSeconds => Merged(old, n) = n
<1> USE DEF CPUStat
<1>1. Idle \in Fields /\ jumpBackSeconds \in Nat
  BY CPUStatsAssumption DEF Fields
<1>2. old[Idle] \in Nat /\ n[Idle] \in Nat
  BY <1>1
<1>3. CASE old[Idle] - n[Idle] >= jumpBackSeconds
  <2>1. Merged(old, n) = [f \in Fields |-> IF n[f] >= 0 THEN n[f] ELSE 0]
    BY <1>3 DEF Merged, ZeroStat
  <2>2. \A f \in Fields : n[f] \in Nat
    OBVIOUS
  <2>3. Merged(old, n) = [f \in Fields |-> n[f]]
    BY <2>1, <2>2
  <2>4. Merged(old, n) = n
    BY <2>3
  <2> QED
    BY <1>1, <1>2, <1>3, <2>4
<1>4. CASE ~(old[Idle] - n[Idle] >= jumpBackSeconds)
  <2>1. Merged(old, n) = [f \in Fields |-> IF n[f] >= old[f] THEN n[f] ELSE old[f]]
    BY <1>4 DEF Merged
  <2>2. \A f \in Fields : n[f] \in Nat /\ old[f] \in Nat
    OBVIOUS
  <2> QED
    BY <1>1, <1>2, <1>4, <2>1, <2>2
<1> QED
  BY <1>3, <1>4

LEMMA CachedType ==
  ASSUME IsStats(cpuStats), NEW c \in CPUs
  PROVE  Cached(c) \in CPUStat
BY DEF IsStats, Cached, CPUStat, ZeroStat

(* The map after the loop of updateCPUStats.                                 *)
LEMMA AfterLoopType ==
  ASSUME IsStats(cpuStats), NEW n, IsStats(n)
  PROVE  /\ IsStats(AfterLoop(n))
         /\ DOMAIN AfterLoop(n) = DOMAIN cpuStats \cup DOMAIN n
         /\ \A c \in DOMAIN n : AfterLoop(n)[c] = Merged(Cached(c), n[c])
         /\ \A c \in DOMAIN cpuStats \ DOMAIN n : AfterLoop(n)[c] = cpuStats[c]
<1>1. DOMAIN AfterLoop(n) = DOMAIN cpuStats \cup DOMAIN n
  BY DEF AfterLoop
<1>2. \A c \in DOMAIN n : AfterLoop(n)[c] = Merged(Cached(c), n[c])
  BY DEF AfterLoop
<1>3. \A c \in DOMAIN cpuStats \ DOMAIN n : AfterLoop(n)[c] = cpuStats[c]
  BY DEF AfterLoop
<1>4. \A c \in DOMAIN n : Merged(Cached(c), n[c]) \in CPUStat
  BY CachedType, MergedValue DEF IsStats
<1>5. \A c \in DOMAIN cpuStats \cup DOMAIN n :
        (IF c \in DOMAIN n THEN Merged(Cached(c), n[c]) ELSE cpuStats[c]) \in CPUStat
  BY <1>4 DEF IsStats
<1>6. AfterLoop(n) \in [DOMAIN cpuStats \cup DOMAIN n -> CPUStat]
  BY <1>5 DEF AfterLoop
<1> QED
  BY <1>1, <1>2, <1>3, <1>6 DEF IsStats

(* updateCPUStats leaves the processors that were read, with their merged    *)
(* counters.  When the lengths are equal there is nothing to remove, for     *)
(* the loop has put every processor that was read into the map.              *)
LEMMA Updated ==
  ASSUME IsStats(cpuStats), NEW s \in Scrapes, IsStats(newStats[s]), UpdateCPUStats(s)
  PROVE  /\ IsStats(cpuStats')
         /\ DOMAIN cpuStats' = DOMAIN newStats[s]
         /\ \A c \in DOMAIN newStats[s] :
              cpuStats'[c] = Merged(Cached(c), newStats[s][c])
<1> DEFINE n == newStats[s]
           all == AfterLoop(n)
<1>1. /\ IsStats(all)
      /\ DOMAIN all = DOMAIN cpuStats \cup DOMAIN n
      /\ \A c \in DOMAIN n : all[c] = Merged(Cached(c), n[c])
  BY AfterLoopType
<1>2. CASE Cardinality(DOMAIN n) # Cardinality(DOMAIN all)
  <2>1. cpuStats' = [c \in DOMAIN n |-> all[c]]
    BY <1>2 DEF UpdateCPUStats
  <2> QED
    BY <1>1, <2>1 DEF IsStats
<1>3. CASE Cardinality(DOMAIN n) = Cardinality(DOMAIN all)
  <2>1. cpuStats' = all
    BY <1>3 DEF UpdateCPUStats
  <2>2. IsFiniteSet(DOMAIN all)
    BY <1>1, CPUStatsAssumption, FS_Subset DEF IsStats
  <2>3. DOMAIN n = DOMAIN all
    BY <1>1, <1>3, <2>2, FS_Subset
  <2> QED
    BY <1>1, <2>1, <2>3
<1> QED
  BY <1>2, <1>3

-------------------------------------------------------------------------------
(* Type correctness.                                                         *)

LEMMA EmptyMap == IsStats(Nothing)
BY DEF IsStats, Nothing

LEMMA InitType == Init => TypeOK
BY EmptyMap DEF Init, TypeOK, ZeroStat, CPUStat, ControlPoints

LEMMA KernelType == TypeOK /\ Kernel => TypeOK'
<1> SUFFICES ASSUME TypeOK, NEW c \in CPUs,
                    \/ Unplug(c) \/ Plug(c)
                    \/ \E f \in Fields : Tick(c, f) \/ FallBack(c, f)
             PROVE  TypeOK'
  BY DEF Kernel
<1> USE DEF TypeOK, IsStats
<1>1. CASE Unplug(c)
  BY <1>1 DEF Unplug
<1>2. CASE Plug(c)
  <2>1. ZeroStat \in CPUStat
    BY DEF ZeroStat, CPUStat
  <2> QED
    BY <1>2, <2>1 DEF Plug
<1>3. ASSUME NEW f \in Fields, Tick(c, f)
      PROVE  TypeOK'
  <2>1. high[c] \in CPUStat /\ ticks[c] \in CPUStat
    OBVIOUS
  <2>2. [high[c] EXCEPT ![f] = @ + 1] \in CPUStat
    BY <2>1 DEF CPUStat
  <2>3. high' = [high EXCEPT ![c] = [high[c] EXCEPT ![f] = @ + 1]]
    BY <1>3 DEF Tick
  <2>4. high' \in [CPUs -> CPUStat]
    BY <2>2, <2>3
  <2>5. high'[c][f] \in Nat
    BY <2>4 DEF CPUStat
  <2>6. [ticks[c] EXCEPT ![f] = high'[c][f]] \in CPUStat
    BY <2>1, <2>5 DEF CPUStat
  <2>7. ticks' \in [CPUs -> CPUStat]
    BY <1>3, <2>6 DEF Tick
  <2> QED
    BY <1>3, <2>4, <2>7 DEF Tick
<1>4. ASSUME NEW f \in Fields, FallBack(c, f)
      PROVE  TypeOK'
  <2>1. high[c] \in CPUStat /\ ticks[c] \in CPUStat
    OBVIOUS
  <2>2. PICK v \in 0..high[c][f] - 1 : ticks' = [ticks EXCEPT ![c][f] = v]
    BY <1>4 DEF FallBack
  <2>3. v \in Nat
    BY <2>1, <2>2 DEF CPUStat
  <2>4. [ticks[c] EXCEPT ![f] = v] \in CPUStat
    BY <2>1, <2>3 DEF CPUStat
  <2>5. ticks' \in [CPUs -> CPUStat]
    BY <2>2, <2>4
  <2> QED
    BY <1>4, <2>5 DEF FallBack
<1> QED
  BY <1>1, <1>2, <1>3, <1>4

LEMMA UpdateType == ASSUME TypeOK, NEW s \in Scrapes, Update(s) PROVE TypeOK'
<1>1. IsStats(cpuStats) /\ \A t \in Scrapes : IsStats(newStats[t])
  BY DEF TypeOK
<1>2. CASE UpdateInfo(s)
  BY <1>2 DEF UpdateInfo, TypeOK, IsStats, ControlPoints
<1>3. CASE ReadStat(s)
  <2>1. IsStats([c \in online |-> ticks[c]])
    BY DEF TypeOK, IsStats
  <2>2. \A t \in Scrapes :
          newStats'[t] = IF t = s THEN [c \in online |-> ticks[c]] ELSE newStats[t]
    BY <1>3 DEF ReadStat, TypeOK
  <2>3. \A t \in Scrapes : IsStats(newStats'[t])
    BY <1>1, <2>1, <2>2
  <2>4. newStats' = [t \in Scrapes |-> newStats'[t]]
    BY <1>3 DEF ReadStat, TypeOK
  <2>5. pc' \in [Scrapes -> ControlPoints]
    BY <1>3 DEF ReadStat, TypeOK, ControlPoints
  <2> QED
    BY <1>3, <2>3, <2>4, <2>5 DEF ReadStat, TypeOK, IsStats
<1>4. CASE ReadStatFails(s)
  BY <1>4 DEF ReadStatFails, TypeOK, IsStats, ControlPoints
<1>5. CASE UpdateCPUStats(s)
  <2>1. IsStats(cpuStats')
    BY <1>1, <1>5, Updated
  <2>2. pc' \in [Scrapes -> ControlPoints]
    BY <1>5 DEF UpdateCPUStats, TypeOK, ControlPoints
  <2>3. UNCHANGED <<online, high, ticks, hotplugged, newStats>>
    BY <1>5 DEF UpdateCPUStats
  <2> QED
    BY <2>1, <2>2, <2>3 DEF TypeOK, IsStats
<1>6. CASE ExposeStats(s)
  <2>1. \A t \in Scrapes : newStats'[t] = IF t = s THEN Nothing ELSE newStats[t]
    BY <1>6 DEF ExposeStats, TypeOK
  <2>2. \A t \in Scrapes : IsStats(newStats'[t])
    BY <1>1, <2>1, EmptyMap
  <2>3. newStats' = [t \in Scrapes |-> newStats'[t]]
    BY <1>6 DEF ExposeStats, TypeOK
  <2>4. pc' \in [Scrapes -> ControlPoints]
    BY <1>6 DEF ExposeStats, TypeOK, ControlPoints
  <2> QED
    BY <1>6, <2>2, <2>3, <2>4 DEF ExposeStats, TypeOK, IsStats
<1> QED
  BY <1>2, <1>3, <1>4, <1>5, <1>6 DEF Update

(***************************************************************************)
(* The map, what the scrapes read and the kernel's counters keep their     *)
(* types: the map always holds whole records of processors that exist.     *)
(***************************************************************************)
THEOREM TypeCorrect == Spec => []TypeOK
<1>1. TypeOK /\ [Next]_vars => TypeOK'
  <2> SUFFICES ASSUME TypeOK, [Next]_vars PROVE TypeOK'
    OBVIOUS
  <2>1. CASE UNCHANGED vars
    BY <2>1 DEF vars, TypeOK, IsStats
  <2> QED
    BY <2>1, KernelType, UpdateType DEF Next
<1> QED
  BY <1>1, InitType, PTL DEF Spec

-------------------------------------------------------------------------------
(* What a step may do to the map.                                            *)

(***************************************************************************)
(* updateCPUStats leaves the processors that were read and no others,      *)
(* although it compares nothing but lengths.                               *)
(***************************************************************************)
THEOREM OnlineCPUsRemain == Spec => OfflineCPUsRemoved
<1>1. ASSUME TypeOK, NEW s \in Scrapes, UpdateCPUStats(s)
      PROVE  DOMAIN cpuStats' = DOMAIN newStats[s]
  <2>1. IsStats(cpuStats) /\ IsStats(newStats[s])
    BY <1>1 DEF TypeOK
  <2> QED
    BY <1>1, <2>1, Updated
<1>2. TypeOK /\ [Next]_vars =>
        [\A s \in Scrapes :
           UpdateCPUStats(s) => DOMAIN cpuStats' = DOMAIN newStats[s]]_vars
  BY <1>1
<1> QED
  BY <1>2, TypeCorrect, PTL DEF Spec, OfflineCPUsRemoved

(* Only updateCPUStats writes the map.                                       *)
LEMMA MapWriters ==
  ASSUME [Next]_vars, cpuStats' # cpuStats
  PROVE  \E s \in Scrapes : UpdateCPUStats(s)
<1>1. cpuStats' # cpuStats => ~UNCHANGED vars
  BY DEF vars
<1>2. CASE Kernel
  BY <1>2 DEF Kernel, Unplug, Plug, Tick, FallBack
<1>3. ASSUME NEW s \in Scrapes, Update(s) PROVE UpdateCPUStats(s)
  BY <1>3 DEF Update, UpdateInfo, ReadStat, ReadStatFails, ExposeStats
<1> QED
  BY <1>1, <1>2, <1>3 DEF Next

(* The statement of DecreaseIsReset about one processor in a step.           *)
ResetIfDecreased(c) ==
  (\E f \in Fields : cpuStats'[c][f] < cpuStats[c][f]) =>
    /\ cpuStats[c][Idle] - cpuStats'[c][Idle] >= jumpBackSeconds
    /\ \E s \in Scrapes : c \in DOMAIN newStats[s] /\ cpuStats'[c] = newStats[s][c]

(***************************************************************************)
(* A counter in the map decreases only where idle jumped back by the       *)
(* limit, and then all counters of the processor are those just read.      *)
(***************************************************************************)
THEOREM DecreasesReset == Spec => DecreaseIsReset
<1>1. ASSUME TypeOK, [Next]_vars, NEW c \in DOMAIN cpuStats \cap DOMAIN cpuStats'
      PROVE  ResetIfDecreased(c)
  <2>1. IsStats(cpuStats) /\ cpuStats[c] \in CPUStat /\ c \in CPUs
    BY <1>1 DEF TypeOK, IsStats
  <2>2. CASE cpuStats' = cpuStats
    <3>1. \A f \in Fields : cpuStats[c][f] \in Nat
      BY <2>1 DEF CPUStat
    <3>2. \A f \in Fields : ~(cpuStats'[c][f] < cpuStats[c][f])
      BY <2>2, <3>1
    <3> QED
      BY <3>2 DEF ResetIfDecreased
  <2>3. ASSUME NEW s \in Scrapes, UpdateCPUStats(s) PROVE ResetIfDecreased(c)
    <3> DEFINE n == newStats[s][c]
    <3>1. IsStats(newStats[s])
      BY <1>1 DEF TypeOK
    <3>2. /\ DOMAIN cpuStats' = DOMAIN newStats[s]
          /\ cpuStats'[c] = Merged(Cached(c), newStats[s][c])
      BY <2>1, <2>3, <3>1, Updated
    <3>3. c \in DOMAIN newStats[s] /\ n \in CPUStat
      BY <3>1, <3>2 DEF IsStats
    <3>4. cpuStats'[c] = Merged(cpuStats[c], n)
      BY <3>2 DEF Cached
    <3>5. /\ Merged(cpuStats[c], n) \in CPUStat
          /\ cpuStats[c][Idle] - n[Idle] < jumpBackSeconds =>
               \A f \in Fields : Merged(cpuStats[c], n)[f] >= cpuStats[c][f]
          /\ cpuStats[c][Idle] - n[Idle] >= jumpBackSeconds => Merged(cpuStats[c], n) = n
      BY <2>1, <3>3, MergedValue
    <3>6. CASE cpuStats[c][Idle] - n[Idle] >= jumpBackSeconds
      <4>1. cpuStats'[c] = n
        BY <3>4, <3>5, <3>6
      <4> QED
        BY <3>3, <3>6, <4>1 DEF ResetIfDecreased
    <3>7. CASE ~(cpuStats[c][Idle] - n[Idle] >= jumpBackSeconds)
      <4>1. cpuStats[c][Idle] \in Nat /\ n[Idle] \in Nat /\ jumpBackSeconds \in Nat
        BY <2>1, <3>3, CPUStatsAssumption DEF CPUStat, Fields
      <4>2. \A f \in Fields : cpuStats'[c][f] >= cpuStats[c][f]
        BY <3>4, <3>5, <3>7, <4>1
      <4>3. \A f \in Fields : cpuStats'[c][f] \in Nat /\ cpuStats[c][f] \in Nat
        BY <2>1, <3>4, <3>5 DEF CPUStat
      <4>4. \A f \in Fields : ~(cpuStats'[c][f] < cpuStats[c][f])
        BY <4>2, <4>3
      <4> QED
        BY <4>4 DEF ResetIfDecreased
    <3> QED
      BY <3>6, <3>7
  <2> QED
    BY <1>1, <2>2, <2>3, MapWriters
<1>2. TypeOK /\ [Next]_vars =>
        [\A c \in DOMAIN cpuStats \cap DOMAIN cpuStats' :
           (\E f \in Fields : cpuStats'[c][f] < cpuStats[c][f]) =>
             /\ cpuStats[c][Idle] - cpuStats'[c][Idle] >= jumpBackSeconds
             /\ \E s \in Scrapes :
                  c \in DOMAIN newStats[s] /\ cpuStats'[c] = newStats[s][c]]_vars
  BY <1>1 DEF ResetIfDecreased
<1> QED
  BY <1>2, TypeCorrect, PTL DEF Spec, DecreaseIsReset

(***************************************************************************)
(* A merge leaves the idle time of a processor ahead of what was read by   *)
(* less than the limit: where the kernel's counters started again, by the  *)
(* limit or more, the cached ones start again with them.                   *)
(***************************************************************************)
THEOREM RestartsFollowed == Spec => RestartIsFollowed
<1>1. ASSUME TypeOK, NEW s \in Scrapes, UpdateCPUStats(s), NEW c \in DOMAIN newStats[s]
      PROVE  cpuStats'[c][Idle] - newStats[s][c][Idle] < jumpBackSeconds
  <2> DEFINE n == newStats[s][c]
             old == Cached(c)
  <2>1. IsStats(cpuStats) /\ IsStats(newStats[s])
    BY <1>1 DEF TypeOK
  <2>2. c \in CPUs /\ n \in CPUStat
    BY <2>1 DEF IsStats
  <2>3. old \in CPUStat
    BY <2>1, <2>2, CachedType
  <2>4. cpuStats'[c] = Merged(old, n)
    BY <1>1, <2>1, Updated
  <2>5. Idle \in Fields /\ jumpBackSeconds \in Nat \ {0}
    BY CPUStatsAssumption DEF Fields
  <2>6. old[Idle] \in Nat /\ n[Idle] \in Nat
    BY <2>2, <2>3, <2>5 DEF CPUStat
  <2>7. /\ Merged(old, n)[Idle] \in {old[Idle], n[Idle]}
        /\ old[Idle] - n[Idle] >= jumpBackSeconds => Merged(old, n) = n
    BY <2>2, <2>3, <2>5, MergedValue
  <2> QED
    BY <2>4, <2>5, <2>6, <2>7
<1>2. TypeOK /\ [Next]_vars =>
        [\A s \in Scrapes :
           UpdateCPUStats(s) =>
             \A c \in DOMAIN newStats[s] :
               cpuStats'[c][Idle] - newStats[s][c][Idle] < jumpBackSeconds]_vars
  BY <1>1
<1> QED
  BY <1>2, TypeCorrect, PTL DEF Spec, RestartIsFollowed

-------------------------------------------------------------------------------
(* Counters that are not reset without a hotplug event.                      *)

(* The readings under way: as long as a processor was never plugged in       *)
(* again, what the kernel shows of it and what a scrape has read and not     *)
(* merged yet are behind the counter by less than the limit, and the map is  *)
(* never ahead of it.                                                        *)
Behind(stat, c) ==
  \A f \in Fields :
    stat[f] <= high[c][f] /\ high[c][f] - stat[f] < jumpBackSeconds

ShownRecently == \A c \in CPUs \ hotplugged : Behind(ticks[c], c)

ReadRecently ==
  \A c \in CPUs \ hotplugged, s \in Scrapes :
    pc[s] = "read" /\ c \in DOMAIN newStats[s] => Behind(newStats[s][c], c)

NotAhead ==
  \A c \in DOMAIN cpuStats \ hotplugged :
    \A f \in Fields : cpuStats[c][f] <= high[c][f]

(* A processor that is online and was never plugged in again was online when *)
(* any scrape under way read the counters.                                   *)
ReadWhileOnline ==
  \A s \in Scrapes :
    pc[s] \in {"read", "updated"} => online \ hotplugged \subseteq DOMAIN newStats[s]

IInv ==
  /\ TypeOK
  /\ ShownRecently
  /\ ReadRecently
  /\ NotAhead
  /\ ReadWhileOnline
  /\ ExposedIsFresh

(* A merge of what a scrape has just read resets nothing.                    *)
LEMMA NotReset ==
  ASSUME IInv, NEW s \in Scrapes, UpdateCPUStats(s), NEW c \in DOMAIN newStats[s] \ hotplugged
  PROVE  /\ c \in DOMAIN cpuStats'
         /\ \A f \in Fields : cpuStats'[c][f] >= newStats[s][c][f]
         /\ \A f \in Fields : cpuStats'[c][f] <= high[c][f]
         /\ c \in DOMAIN cpuStats =>
              \A f \in Fields : cpuStats'[c][f] >= cpuStats[c][f]
<1> DEFINE n == newStats[s][c]
<1>1. IsStats(cpuStats) /\ IsStats(newStats[s]) /\ c \in CPUs
  BY DEF IInv, TypeOK, IsStats
<1>2. n \in CPUStat /\ Cached(c) \in CPUStat /\ high[c] \in CPUStat
  BY <1>1, CachedType DEF IsStats, IInv, TypeOK
<1>3. c \in DOMAIN cpuStats' /\ cpuStats'[c] = Merged(Cached(c), n)
  BY <1>1, Updated
<1>4. \A f \in Fields :
        Cached(c)[f] \in Nat /\ n[f] \in Nat /\ high[c][f] \in Nat
  BY <1>2 DEF CPUStat
<1>5. Behind(n, c)
  BY <1>1 DEF IInv, ReadRecently, UpdateCPUStats
<1>6. \A f \in Fields : Cached(c)[f] <= high[c][f]
  <2>1. CASE c \in DOMAIN cpuStats
    BY <2>1 DEF Cached, IInv, NotAhead
  <2>2. CASE c \notin DOMAIN cpuStats
    BY <2>2, <1>4 DEF Cached, ZeroStat
  <2> QED
    BY <2>1, <2>2
<1>7. Idle \in Fields /\ jumpBackSeconds \in Nat
  BY CPUStatsAssumption DEF Fields
<1>8. Cached(c)[Idle] - n[Idle] < jumpBackSeconds
  BY <1>4, <1>5, <1>6, <1>7 DEF Behind
<1>9. /\ \A f \in Fields : cpuStats'[c][f] >= n[f]
      /\ \A f \in Fields : cpuStats'[c][f] \in {Cached(c)[f], n[f]}
      /\ \A f \in Fields : cpuStats'[c][f] >= Cached(c)[f]
  BY <1>2, <1>3, <1>8, MergedValue
<1>10. \A f \in Fields : cpuStats'[c][f] <= high[c][f]
  BY <1>4, <1>5, <1>6, <1>9 DEF Behind
<1> QED
  BY <1>3, <1>9, <1>10 DEF Cached

LEMMA InitRecent == Init => IInv
<1> SUFFICES ASSUME Init PROVE IInv
  OBVIOUS
<1>1. jumpBackSeconds \in Nat \ {0}
  BY CPUStatsAssumption
<1>2. \A c \in CPUs, f \in Fields : ticks[c][f] = 0 /\ high[c][f] = 0
  BY DEF Init, ZeroStat
<1>3. ShownRecently
  BY <1>1, <1>2 DEF ShownRecently, Behind
<1>4. ReadRecently /\ NotAhead /\ ReadWhileOnline /\ ExposedIsFresh
  BY DEF Init, Nothing, ReadRecently, NotAhead, ReadWhileOnline, ExposedIsFresh
<1> QED
  BY <1>3, <1>4, InitType DEF IInv

(* What the kernel does, as long as no reading is late by the limit.         *)
LEMMA KernelRecent ==
  ASSUME MaxLag < jumpBackSeconds, IInv, Kernel
  PROVE  IInv'
<1>1. TypeOK'
  BY KernelType DEF IInv
<1>2. PICK c \in CPUs : \/ Unplug(c) \/ Plug(c)
                       \/ \E f \in Fields : Tick(c, f) \/ FallBack(c, f)
  BY DEF Kernel
<1>3. /\ jumpBackSeconds \in Nat \ {0}
      /\ MaxWobble \in Nat /\ MaxWobble < jumpBackSeconds
      /\ MaxLag \in Nat
  BY CPUStatsAssumption
<1>4. \A d \in CPUs, f \in Fields : ticks[d][f] \in Nat /\ high[d][f] \in Nat
  BY DEF IInv, TypeOK, CPUStat
<1>5. \A s \in Scrapes : IsStats(newStats[s]) /\ IsStats(cpuStats)
  BY DEF IInv, TypeOK
<1>6. \A s \in Scrapes, d \in CPUs, f \in Fields :
        d \in DOMAIN newStats[s] => newStats[s][d][f] \in Nat
  BY <1>5 DEF IsStats, CPUStat
<1>7. \A d \in CPUs, f \in Fields : d \in DOMAIN cpuStats => cpuStats[d][f] \in Nat
  BY DEF IInv, TypeOK, IsStats, CPUStat
<1>8. CASE Unplug(c)
  <2>1. online' \subseteq online /\ UNCHANGED <<high, ticks, hotplugged, cpuStats, pc, newStats>>
    BY <1>8 DEF Unplug
  <2>2. ShownRecently' /\ ReadRecently' /\ NotAhead'
    BY <2>1 DEF IInv, ShownRecently, ReadRecently, NotAhead, Behind
  <2>3. ReadWhileOnline' /\ ExposedIsFresh'
    BY <2>1 DEF IInv, ReadWhileOnline, ExposedIsFresh
  <2> QED
    BY <1>1, <2>2, <2>3 DEF IInv
<1>9. CASE Plug(c)
  <2>1. /\ online' = online \cup {c}
        /\ hotplugged' = hotplugged \cup {c}
        /\ \A d \in CPUs \ {c} : high'[d] = high[d] /\ ticks'[d] = ticks[d]
        /\ UNCHANGED <<cpuStats, pc, newStats>>
    BY <1>9 DEF Plug, IInv, TypeOK
  <2>2. ShownRecently' /\ ReadRecently'
    BY <2>1 DEF IInv, ShownRecently, ReadRecently, Behind
  <2>3. DOMAIN cpuStats \subseteq CPUs
    BY DEF IInv, TypeOK, IsStats
  <2>4. NotAhead'
    BY <2>1, <2>3 DEF IInv, NotAhead
  <2>5. ReadWhileOnline' /\ ExposedIsFresh'
    BY <2>1 DEF IInv, ReadWhileOnline, ExposedIsFresh
  <2> QED
    BY <1>1, <2>2, <2>4, <2>5 DEF IInv
<1>10. ASSUME NEW f \in Fields, Tick(c, f)
       PROVE  IInv'
  <2>1. UNCHANGED <<online, hotplugged, cpuStats, pc, newStats>>
    BY <1>10 DEF Tick
  <2>2. \A d \in CPUs, g \in Fields :
          IF d = c /\ g = f
          THEN high'[d][g] = high[d][g] + 1 /\ ticks'[d][g] = high'[d][g]
          ELSE high'[d][g] = high[d][g] /\ ticks'[d][g] = ticks[d][g]
    BY <1>10 DEF Tick, IInv, TypeOK, CPUStat
  <2>3. ShownRecently'
    BY <1>3, <1>4, <2>1, <2>2 DEF IInv, ShownRecently, Behind
  <2>4. ASSUME NEW d \in CPUs \ hotplugged, NEW s \in Scrapes,
               pc[s] = "read", d \in DOMAIN newStats[s], NEW g \in Fields
        PROVE  /\ newStats[s][d][g] <= high'[d][g]
               /\ high'[d][g] - newStats[s][d][g] < jumpBackSeconds
    <3>1. newStats[s][d][g] <= high[d][g] /\ high[d][g] - newStats[s][d][g] < jumpBackSeconds
      BY <2>4 DEF IInv, ReadRecently, Behind
    <3>2. d = c /\ g = f => high[d][g] - newStats[s][d][g] < MaxLag
      BY <1>10, <2>4 DEF Tick
    <3> QED
      BY <1>3, <1>4, <1>6, <2>2, <2>4, <3>1, <3>2
  <2>5. ReadRecently'
    BY <2>1, <2>4 DEF ReadRecently, Behind
  <2>6. NotAhead'
    <3>1. DOMAIN cpuStats \subseteq CPUs
      BY DEF IInv, TypeOK, IsStats
    <3> QED
      BY <1>4, <1>7, <2>1, <2>2, <3>1 DEF IInv, NotAhead
  <2>7. ReadWhileOnline' /\ ExposedIsFresh'
    BY <2>1 DEF IInv, ReadWhileOnline, ExposedIsFresh
  <2> QED
    BY <1>1, <2>3, <2>5, <2>6, <2>7 DEF IInv
<1>11. ASSUME NEW f \in Fields, FallBack(c, f)
       PROVE  IInv'
  <2>1. UNCHANGED <<online, high, hotplugged, cpuStats, pc, newStats>>
    BY <1>11 DEF FallBack
  <2>2. PICK v \in 0..high[c][f] - 1 :
          /\ high[c][f] - MaxWobble <= v
          /\ ticks' = [ticks EXCEPT ![c][f] = v]
    BY <1>11 DEF FallBack
  <2>3. \A d \in CPUs, g \in Fields :
          ticks'[d][g] = IF d = c /\ g = f THEN v ELSE ticks[d][g]
    BY <2>2 DEF IInv, TypeOK, CPUStat
  <2>4. ShownRecently'
    BY <1>3, <1>4, <2>1, <2>2, <2>3 DEF IInv, ShownRecently, Behind
  <2>5. ReadRecently' /\ NotAhead' /\ ReadWhileOnline' /\ ExposedIsFresh'
    BY <2>1 DEF IInv, ReadRecently, Behind, NotAhead, ReadWhileOnline, ExposedIsFresh
  <2> QED
    BY <1>1, <2>4, <2>5 DEF IInv
<1> QED
  BY <1>2, <1>8, <1>9, <1>10, <1>11

LEMMA UpdateRecent ==
  ASSUME IInv, NEW s \in Scrapes, Update(s)
  PROVE  IInv'
<1>1. TypeOK'
  BY UpdateType DEF IInv
<1>2. /\ DOMAIN pc = Scrapes /\ DOMAIN newStats = Scrapes
      /\ online \subseteq CPUs
      /\ pc \in [Scrapes -> ControlPoints]
      /\ newStats = [t \in Scrapes |-> newStats[t]]
  BY DEF IInv, TypeOK
<1>3. ASSUME UNCHANGED <<online, high, ticks, hotplugged, cpuStats>>,
             \A t \in Scrapes \ {s} : pc'[t] = pc[t] /\ newStats'[t] = newStats[t],
             pc'[s] \in {"idle", "info"}
      PROVE  IInv'
  <2>1. ShownRecently' /\ NotAhead'
    BY <1>3 DEF IInv, ShownRecently, Behind, NotAhead
  <2>2. ReadRecently' /\ ReadWhileOnline' /\ ExposedIsFresh'
    BY <1>3 DEF IInv, ReadRecently, Behind, ReadWhileOnline, ExposedIsFresh
  <2> QED
    BY <1>1, <2>1, <2>2 DEF IInv
<1>4. CASE UpdateInfo(s)
  BY <1>2, <1>3, <1>4 DEF UpdateInfo
<1>5. CASE ReadStatFails(s)
  BY <1>2, <1>3, <1>5 DEF ReadStatFails
<1>6. CASE ExposeStats(s)
  BY <1>2, <1>3, <1>6 DEF ExposeStats
<1>7. CASE ReadStat(s)
  <2>1. /\ UNCHANGED <<online, high, ticks, hotplugged, cpuStats>>
        /\ \A t \in Scrapes \ {s} : pc'[t] = pc[t] /\ newStats'[t] = newStats[t]
        /\ pc'[s] = "read"
        /\ newStats'[s] = [c \in online |-> ticks[c]]
    BY <1>2, <1>7 DEF ReadStat
  <2>2. ShownRecently' /\ NotAhead'
    BY <2>1 DEF IInv, ShownRecently, Behind, NotAhead
  <2>3. \A c \in DOMAIN newStats'[s] : newStats'[s][c] = ticks[c]
    BY <2>1
  <2>4. ReadRecently'
    BY <2>1, <2>3 DEF IInv, ReadRecently, ShownRecently, Behind
  <2>5. ReadWhileOnline' /\ ExposedIsFresh'
    BY <2>1 DEF IInv, ReadWhileOnline, ExposedIsFresh
  <2> QED
    BY <1>1, <2>2, <2>4, <2>5 DEF IInv
<1>8. CASE UpdateCPUStats(s)
  <2>1. /\ UNCHANGED <<online, high, ticks, hotplugged, newStats>>
        /\ pc[s] = "read" /\ pc'[s] = "updated"
        /\ \A t \in Scrapes \ {s} : pc'[t] = pc[t]
    BY <1>2, <1>8 DEF UpdateCPUStats
  <2>2. DOMAIN cpuStats' = DOMAIN newStats[s]
    BY <1>8, Updated DEF IInv, TypeOK
  <2>3. ShownRecently' /\ ReadRecently' /\ ReadWhileOnline'
    BY <2>1 DEF IInv, ShownRecently, ReadRecently, Behind, ReadWhileOnline
  <2>4. NotAhead'
    BY <1>8, <2>1, <2>2, NotReset DEF NotAhead
  <2>5. ASSUME NEW t \in Scrapes, pc'[t] = "updated",
               NEW c \in (DOMAIN newStats[t] \cap online) \ hotplugged
        PROVE  /\ c \in DOMAIN cpuStats'
               /\ \A f \in Fields : cpuStats'[c][f] >= newStats[t][c][f]
    <3>1. c \in DOMAIN newStats[s] \ hotplugged
      BY <2>1, <2>5 DEF IInv, ReadWhileOnline
    <3>2. CASE t = s
      BY <1>8, <3>1, <3>2, NotReset
    <3>3. CASE t # s
      <4>1. pc[t] = "updated"
        BY <2>1, <2>5, <3>3
      <4>2. /\ c \in DOMAIN cpuStats
            /\ \A f \in Fields : cpuStats[c][f] >= newStats[t][c][f]
        BY <2>5, <4>1 DEF IInv, ExposedIsFresh
      <4>3. /\ c \in DOMAIN cpuStats'
            /\ \A f \in Fields : cpuStats'[c][f] >= cpuStats[c][f]
        BY <1>8, <3>1, <4>2, NotReset
      <4>4. /\ cpuStats[c] \in CPUStat
            /\ cpuStats'[c] \in CPUStat
            /\ newStats[t][c] \in CPUStat
        BY <1>1, <2>5, <4>2, <4>3 DEF IInv, TypeOK, IsStats
      <4>5. \A f \in Fields : /\ cpuStats[c][f] \in Nat /\ cpuStats'[c][f] \in Nat
                              /\ newStats[t][c][f] \in Nat
        BY <4>4 DEF CPUStat
      <4> QED
        BY <4>2, <4>3, <4>5
    <3> QED
      BY <3>2, <3>3
  <2>6. ExposedIsFresh'
    BY <2>1, <2>5 DEF ExposedIsFresh
  <2> QED
    BY <1>1, <2>3, <2>4, <2>6 DEF IInv
<1> QED
  BY <1>4, <1>5, <1>6, <1>7, <1>8 DEF Update

LEMMA Recent ==
  ASSUME MaxLag < jumpBackSeconds
  PROVE  Spec => []IInv
<1>1. IInv /\ [Next]_vars => IInv'
  <2> SUFFICES ASSUME IInv, [Next]_vars PROVE IInv'
    OBVIOUS
  <2>1. CASE UNCHANGED vars
    BY <2>1 DEF vars, IInv, TypeOK, IsStats, ShownRecently, ReadRecently, Behind,
                NotAhead, ReadWhileOnline, ExposedIsFresh
  <2> QED
    BY <2>1, KernelRecent, UpdateRecent DEF Next
<1> QED
  BY <1>1, InitRecent, PTL DEF Spec

(***************************************************************************)
(* As long as no scrape merges a reading that is late by the idle limit, a *)
(* scrape exposes nothing older than it read itself, however many scrapes  *)
(* overlap with it.                                                        *)
(***************************************************************************)
THEOREM ExposedFresh ==
  ASSUME MaxLag < jumpBackSeconds
  PROVE  Spec => []ExposedIsFresh
<1>1. IInv => ExposedIsFresh
  BY DEF IInv
<1> QED
  BY <1>1, Recent, PTL

(***************************************************************************)
(* And then no counter of a processor decreases in the map unless the      *)
(* processor was plugged in again: the limit tells a hotplug event from a  *)
(* late scrape and from counters of the kernel that fall back.             *)
(***************************************************************************)
THEOREM OnlyHotplugsReset ==
  ASSUME MaxLag < jumpBackSeconds
  PROVE  Spec => ResetsAreHotplugs
<1>1. ASSUME IInv, [Next]_vars,
             NEW c \in (DOMAIN cpuStats \cap DOMAIN cpuStats') \ hotplugged, NEW f \in Fields
      PROVE  cpuStats'[c][f] >= cpuStats[c][f]
  <2>1. CASE cpuStats' = cpuStats
    <3>1. cpuStats[c] \in CPUStat
      BY <1>1 DEF IInv, TypeOK, IsStats
    <3> QED
      BY <2>1, <3>1 DEF CPUStat
  <2>2. ASSUME NEW s \in Scrapes, UpdateCPUStats(s)
        PROVE  cpuStats'[c][f] >= cpuStats[c][f]
    <3>1. c \in DOMAIN newStats[s]
      BY <1>1, <2>2, Updated DEF IInv, TypeOK
    <3> QED
      BY <1>1, <2>2, <3>1, NotReset
  <2> QED
    BY <1>1, <2>1, <2>2, MapWriters
<1>2. IInv /\ [Next]_vars =>
        [\A c \in (DOMAIN cpuStats \cap DOMAIN cpuStats') \ hotplugged :
           \A f \in Fields : cpuStats'[c][f] >= cpuStats[c][f]]_vars
  BY <1>1
<1> QED
  BY <1>2, Recent, PTL DEF Spec, ResetsAreHotplugs
===============================================================================
