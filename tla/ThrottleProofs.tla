---------------------------- MODULE ThrottleProofs ----------------------------
(***************************************************************************)
(* Proofs about the thermal throttle counts, for every list of processors, *)
(* every topology and every set of files that is missing, while the kernel *)
(* counts and processors come and go.                                      *)
(***************************************************************************)
EXTENDS StatelessCollectors, TLAPS

(* The types of the variables.                                               *)
TypeOK ==
  /\ shown \in [online : SUBSET ProcessorSet, core : Counts, package : Counts]
  /\ pc \in {"idle", "package_id", "core_id", "core", "package", "exposed"}
  /\ local = [next |-> local.next, packageThrottles |-> local.packageThrottles,
              packageCoreThrottles |-> local.packageCoreThrottles]
  /\ local.next \in 1..Len(CPUs) + 1
  /\ pc \in {"core_id", "core", "package"} => local.next <= Len(CPUs)
  /\ past \in [core : Counts, package : Counts, away : SUBSET ProcessorSet]

cores == local.packageCoreThrottles
packages == local.packageThrottles

(* The entries of the maps were read from a processor of the core (of the    *)
(* package) since the loop began.                                            *)
CoreFrom(k, value) ==
  \E p \in HasCore :
    k = CoreOf(p) /\ past.core[p] <= value /\ value <= shown.core[p]

PackageFrom(k, value) ==
  \E p \in HasPackage :
    k = PackageId[p] /\ past.package[p] <= value /\ value <= shown.package[p]

EntriesOwn ==
  /\ pc = "idle" => local.next = 1 /\ DOMAIN cores = {} /\ DOMAIN packages = {}
  /\ \A k \in DOMAIN cores : cores[k] \in Nat /\ CoreFrom(k, cores[k])
  /\ \A k \in DOMAIN packages : packages[k] \in Nat /\ PackageFrom(k, packages[k])

(* The processors that the loop has been through, as far as they were online *)
(* all the time, have an entry for their core and for their package.         *)
CoreVisited(i) == i < local.next \/ (i = local.next /\ pc = "package")

EntriesCover ==
  pc # "idle" =>
    \A i \in 1..Len(CPUs) : CPUs[i] \notin past.away =>
      /\ CoreVisited(i) /\ CPUs[i] \in HasCore => CoreOf(CPUs[i]) \in DOMAIN cores
      /\ i < local.next /\ CPUs[i] \in HasPackage => PackageId[CPUs[i]] \in DOMAIN packages

OfflineIsAway == pc # "idle" => ProcessorSet \ shown.online \subseteq past.away

CountsGrow ==
  pc # "idle" =>
    \A p \in ProcessorSet :
      past.core[p] <= shown.core[p] /\ past.package[p] <= shown.package[p]

IInv ==
  /\ TypeOK
  /\ CountsGrow
  /\ EntriesOwn
  /\ EntriesCover
  /\ OfflineIsAway
  /\ pc # "exposed" => sent = {}
  /\ ThrottleCountsOwn
  /\ ThrottlesCovered

LEMMA IndexOf ==
  /\ \A i \in 1..Len(CPUs) : CPUs[i] \in ProcessorSet
  /\ Len(CPUs) \in Nat
BY ThrottleAssumption DEF ProcessorSet

LEMMA InitInv == Init => IInv
<1> SUFFICES ASSUME Init PROVE IInv
  OBVIOUS
<1>1. TypeOK
  BY IndexOf DEF Init, TypeOK, Counts
<1>2. EntriesOwn
  BY DEF Init, EntriesOwn, cores, packages, Empty
<1> QED
  BY <1>1, <1>2 DEF Init, IInv, EntriesCover, OfflineIsAway, CountsGrow,
                         ThrottleCountsOwn, ThrottlesCovered

(* A step of the kernel: counts only grow, and a processor that goes offline *)
(* is remembered.                                                            *)
LEMMA KernelStep ==
  ASSUME IInv, pc # "exposed", Kernel
  PROVE  IInv'
<1>1. /\ UNCHANGED <<pc, local, sent>>
      /\ past'.core = past.core /\ past'.package = past.package
      /\ past.away \subseteq past'.away
      /\ past' \in [core : Counts, package : Counts, away : SUBSET ProcessorSet]
      /\ shown' \in [online : SUBSET ProcessorSet, core : Counts, package : Counts]
      /\ \A p \in ProcessorSet : /\ shown.core[p] <= shown'.core[p]
                                 /\ shown.package[p] <= shown'.package[p]
      /\ ProcessorSet \ shown'.online \subseteq (ProcessorSet \ shown.online) \cup past'.away
  <2>1. PICK p \in ProcessorSet : CountCore(p) \/ CountPackage(p) \/ Unplug(p) \/ Plug(p)
    BY DEF Kernel
  <2>2. /\ shown \in [online : SUBSET ProcessorSet, core : Counts, package : Counts]
        /\ past \in [core : Counts, package : Counts, away : SUBSET ProcessorSet]
        /\ \A q \in ProcessorSet : shown.core[q] \in Nat /\ shown.package[q] \in Nat
    BY DEF IInv, TypeOK, Counts
  <2>3. CASE CountCore(p)
    <3>1. /\ shown'.core = [shown.core EXCEPT ![p] = @ + 1]
          /\ shown'.online = shown.online /\ shown'.package = shown.package
          /\ shown' = [online |-> shown'.online, core |-> shown'.core, package |-> shown'.package]
      BY <2>2, <2>3 DEF CountCore
    <3>2. shown'.core \in Counts
      BY <2>2, <3>1 DEF Counts
    <3> QED
      BY <2>2, <2>3, <3>1, <3>2 DEF CountCore, Counts
  <2>4. CASE CountPackage(p)
    <3>1. /\ shown'.package = [shown.package EXCEPT ![p] = @ + 1]
          /\ shown'.online = shown.online /\ shown'.core = shown.core
          /\ shown' = [online |-> shown'.online, core |-> shown'.core, package |-> shown'.package]
      BY <2>2, <2>4 DEF CountPackage
    <3>2. shown'.package \in Counts
      BY <2>2, <3>1 DEF Counts
    <3> QED
      BY <2>2, <2>4, <3>1, <3>2 DEF CountPackage, Counts
  <2>5. CASE Unplug(p)
    BY <2>2, <2>5 DEF Unplug
  <2>6. CASE Plug(p)
    BY <2>2, <2>6 DEF Plug
  <2> QED
    BY <2>1, <2>3, <2>4, <2>5, <2>6
<1>2. TypeOK'
  BY <1>1 DEF IInv, TypeOK
<1>3. \A p \in ProcessorSet :
        /\ past.core[p] \in Nat /\ past.package[p] \in Nat
        /\ shown.core[p] \in Nat /\ shown.package[p] \in Nat
        /\ shown'.core[p] \in Nat /\ shown'.package[p] \in Nat
  BY <1>1 DEF IInv, TypeOK, Counts
<1>4. HasCore \subseteq ProcessorSet /\ HasPackage \subseteq ProcessorSet
  BY ThrottleAssumption
<1>5. /\ \A k, v : v \in Nat /\ CoreFrom(k, v) =>
           \E p \in HasCore : k = CoreOf(p) /\ past'.core[p] <= v /\ v <= shown'.core[p]
      /\ \A k, v : v \in Nat /\ PackageFrom(k, v) =>
           \E p \in HasPackage : k = PackageId[p] /\ past'.package[p] <= v /\ v <= shown'.package[p]
  BY <1>1, <1>3, <1>4 DEF CoreFrom, PackageFrom
<1>6. EntriesOwn'
  <2>1. cores' = cores /\ packages' = packages /\ pc' = pc /\ local' = local
    BY <1>1 DEF cores, packages
  <2>2. \A k, v : v \in Nat /\ CoreFrom(k, v) => CoreFrom(k, v)'
    BY <1>5 DEF CoreFrom
  <2>3. \A k, v : v \in Nat /\ PackageFrom(k, v) => PackageFrom(k, v)'
    BY <1>5 DEF PackageFrom
  <2>4. EntriesOwn
    BY DEF IInv
  <2>5. (\A k \in DOMAIN cores : cores[k] \in Nat /\ CoreFrom(k, cores[k]))'
    BY <2>1, <2>2, <2>4 DEF EntriesOwn
  <2>6. (\A k \in DOMAIN packages : packages[k] \in Nat /\ PackageFrom(k, packages[k]))'
    BY <2>1, <2>3, <2>4 DEF EntriesOwn
  <2>7. (pc = "idle" => local.next = 1 /\ DOMAIN cores = {} /\ DOMAIN packages = {})'
    BY <2>1, <2>4 DEF EntriesOwn
  <2> QED
    BY <2>1, <2>5, <2>6, <2>7 DEF EntriesOwn
<1>7. EntriesCover' /\ OfflineIsAway'
  BY <1>1 DEF IInv, EntriesCover, OfflineIsAway, CoreVisited, cores, packages
<1>8. sent' = {} /\ pc' # "exposed"
  BY <1>1 DEF IInv
<1>9. CountsGrow'
  BY <1>1, <1>3 DEF IInv, CountsGrow
<1> QED
  BY <1>2, <1>6, <1>7, <1>8, <1>9 DEF IInv, ThrottleCountsOwn, ThrottlesCovered

LEMMA GlobStep == IInv /\ Glob => IInv'
<1> SUFFICES ASSUME IInv, Glob PROVE IInv'
  OBVIOUS
<1>1. TypeOK'
  BY DEF IInv, TypeOK, Glob
<1>2. EntriesOwn' /\ OfflineIsAway'
  BY DEF IInv, EntriesOwn, OfflineIsAway, Glob, cores, packages
<1>3. EntriesCover'
  <2>1. local' = local /\ pc' = "package_id" /\ past'.away = ProcessorSet \ shown.online
    BY DEF Glob
  <2>2. local.next = 1
    BY DEF IInv, EntriesOwn, Glob
  <2> QED
    BY <2>1, <2>2 DEF EntriesCover, CoreVisited
<1>4. CountsGrow'
  BY DEF IInv, TypeOK, Counts, CountsGrow, Glob
<1> QED
  BY <1>1, <1>2, <1>3, <1>4 DEF IInv, Glob, ThrottleCountsOwn, ThrottlesCovered

(* What the steps of the loop have in common: they add to the maps what the  *)
(* kernel shows of a processor that is online.                               *)
LEMMA LoopStep ==
  ASSUME IInv, ReadTopology \/ SkipCPU \/ ReadCore \/ ReadPackage
  PROVE  IInv'
<1>1. /\ UNCHANGED <<shown, past, sent>>
      /\ pc \in {"package_id", "core_id", "core", "package"}
      /\ pc' \in {"package_id", "core_id", "core", "package"}
      /\ local.next \in 1..Len(CPUs) /\ Len(CPUs) \in Nat
      /\ CPUs[local.next] \in ProcessorSet
  BY IndexOf DEF IInv, TypeOK, ReadTopology, SkipCPU, ReadCore, ReadPackage
<1> DEFINE p == CPUs[local.next]
<1>2. /\ past.core[p] \in Nat /\ past.package[p] \in Nat
      /\ shown.core[p] \in Nat /\ shown.package[p] \in Nat
  BY <1>1 DEF IInv, TypeOK, Counts
<1>3. past.core[p] <= shown.core[p] /\ past.package[p] <= shown.package[p]
  BY <1>1 DEF IInv, CountsGrow
<1>4. OfflineIsAway' /\ CountsGrow' /\ sent' = {} /\ pc' # "exposed"
  BY <1>1 DEF IInv, OfflineIsAway, CountsGrow
<1>0. CASE ReadTopology
  <2>1. local' = local /\ pc # "package" /\ pc' \in {"core_id", "core"}
    BY <1>0 DEF ReadTopology
  <2>2. TypeOK'
    BY <1>1, <2>1 DEF IInv, TypeOK
  <2>3. EntriesOwn'
    BY <1>1, <2>1 DEF IInv, EntriesOwn, CoreFrom, PackageFrom, cores, packages
  <2>4. EntriesCover'
    BY <1>1, <2>1 DEF IInv, EntriesCover, CoreVisited, cores, packages
  <2> QED
    BY <1>4, <2>2, <2>3, <2>4 DEF IInv, ThrottleCountsOwn, ThrottlesCovered
<1>5. CASE SkipCPU
  <2>1. /\ cores' = cores /\ packages' = packages /\ local'.next = local.next + 1
        /\ pc' = "package_id" /\ pc # "package" /\ p \notin shown.online
        /\ local' = [next |-> local'.next, packageThrottles |-> packages', packageCoreThrottles |-> cores']
    BY <1>5 DEF SkipCPU, IInv, TypeOK, cores, packages
  <2>2. TypeOK'
    BY <1>1, <2>1 DEF IInv, TypeOK, cores, packages
  <2>3. p \in past.away
    BY <1>1, <2>1 DEF IInv, OfflineIsAway
  <2>4. EntriesOwn'
    BY <1>1, <2>1 DEF IInv, EntriesOwn, CoreFrom, PackageFrom
  <2>5. EntriesCover'
    BY <1>1, <2>1, <2>3 DEF IInv, EntriesCover, CoreVisited
  <2> QED
    BY <1>4, <2>2, <2>4, <2>5 DEF IInv, ThrottleCountsOwn, ThrottlesCovered
<1>6. CASE ReadCore
  <2>1. /\ packages' = packages /\ local'.next = local.next
        /\ pc = "core" /\ pc' = "package"
        /\ cores' = IF p \in HasCore \cap shown.online /\ CoreOf(p) \notin DOMAIN cores
                    THEN Put(cores, CoreOf(p), shown.core[p]) ELSE cores
        /\ local' = [next |-> local'.next, packageThrottles |-> packages', packageCoreThrottles |-> cores']
    BY <1>6 DEF ReadCore, IInv, TypeOK, cores, packages
  <2>2. TypeOK'
    BY <1>1, <2>1 DEF IInv, TypeOK, cores, packages
  <2>3. /\ DOMAIN cores \subseteq DOMAIN cores'
        /\ p \in HasCore \cap shown.online => CoreOf(p) \in DOMAIN cores'
        /\ \A k \in DOMAIN cores' : \/ k \in DOMAIN cores /\ cores'[k] = cores[k]
                                    \/ k = CoreOf(p) /\ p \in HasCore /\ cores'[k] = shown.core[p]
    <3>1. CASE p \in HasCore \cap shown.online /\ CoreOf(p) \notin DOMAIN cores
      <4>1. cores' = Put(cores, CoreOf(p), shown.core[p])
        BY <2>1, <3>1
      <4>2. /\ DOMAIN cores' = DOMAIN cores \cup {CoreOf(p)}
            /\ cores'[CoreOf(p)] = shown.core[p]
            /\ \A k \in DOMAIN cores \ {CoreOf(p)} : cores'[k] = cores[k]
        BY <4>1 DEF Put
      <4> QED
        BY <3>1, <4>2
    <3>2. CASE ~(p \in HasCore \cap shown.online /\ CoreOf(p) \notin DOMAIN cores)
      BY <2>1, <3>2
    <3> QED
      BY <3>1, <3>2
  <2>4. EntriesOwn'
    <3>1. (\A k \in DOMAIN cores : cores[k] \in Nat /\ CoreFrom(k, cores[k]))'
      BY <1>1, <1>2, <1>3, <2>3 DEF IInv, EntriesOwn, CoreFrom
    <3>2. (\A k \in DOMAIN packages : packages[k] \in Nat /\ PackageFrom(k, packages[k]))'
      BY <1>1, <2>1 DEF IInv, EntriesOwn, PackageFrom
    <3> QED
      BY <2>1, <3>1, <3>2 DEF EntriesOwn
  <2>5. p \notin past.away => p \in shown.online
    BY <1>1 DEF IInv, OfflineIsAway
  <2>6. EntriesCover'
    BY <1>1, <2>1, <2>3, <2>5 DEF IInv, EntriesCover, CoreVisited
  <2> QED
    BY <1>4, <2>2, <2>4, <2>6 DEF IInv, ThrottleCountsOwn, ThrottlesCovered
<1>7. CASE ReadPackage
  <2> DEFINE pkg == PackageId[p]
  <2>1. /\ cores' = cores /\ local'.next = local.next + 1
        /\ pc = "package" /\ pc' = "package_id"
        /\ packages' = IF p \in HasPackage \cap shown.online /\ pkg \notin DOMAIN packages
                       THEN Put(packages, pkg, shown.package[p]) ELSE packages
        /\ local' = [next |-> local'.next, packageThrottles |-> packages', packageCoreThrottles |-> cores']
    BY <1>7 DEF ReadPackage, IInv, TypeOK, cores, packages
  <2>2. TypeOK'
    BY <1>1, <2>1 DEF IInv, TypeOK, cores, packages
  <2>3. /\ DOMAIN packages \subseteq DOMAIN packages'
        /\ p \in HasPackage \cap shown.online => pkg \in DOMAIN packages'
        /\ \A k \in DOMAIN packages' :
              \/ k \in DOMAIN packages /\ packages'[k] = packages[k]
              \/ k = pkg /\ p \in HasPackage /\ packages'[k] = shown.package[p]
    <3>1. CASE p \in HasPackage \cap shown.online /\ pkg \notin DOMAIN packages
      <4>1. packages' = Put(packages, pkg, shown.package[p])
        BY <2>1, <3>1
      <4>2. /\ DOMAIN packages' = DOMAIN packages \cup {pkg}
            /\ packages'[pkg] = shown.package[p]
            /\ \A k \in DOMAIN packages \ {pkg} : packages'[k] = packages[k]
        BY <4>1 DEF Put
      <4> QED
        BY <3>1, <4>2
    <3>2. CASE ~(p \in HasPackage \cap shown.online /\ pkg \notin DOMAIN packages)
      BY <2>1, <3>2
    <3> QED
      BY <3>1, <3>2
  <2>4. EntriesOwn'
    <3>1. (\A k \in DOMAIN cores : cores[k] \in Nat /\ CoreFrom(k, cores[k]))'
      BY <1>1, <2>1 DEF IInv, EntriesOwn, CoreFrom
    <3>2. (\A k \in DOMAIN packages : packages[k] \in Nat /\ PackageFrom(k, packages[k]))'
      BY <1>1, <1>2, <1>3, <2>3 DEF IInv, EntriesOwn, PackageFrom
    <3> QED
      BY <2>1, <3>1, <3>2 DEF EntriesOwn
  <2>5. p \notin past.away => p \in shown.online
    BY <1>1 DEF IInv, OfflineIsAway
  <2>6. EntriesCover'
    BY <1>1, <2>1, <2>3, <2>5 DEF IInv, EntriesCover, CoreVisited
  <2> QED
    BY <1>4, <2>2, <2>4, <2>6 DEF IInv, ThrottleCountsOwn, ThrottlesCovered
<1> QED
  BY <1>0, <1>5, <1>6, <1>7

(* The maps are exposed when the loop has been through all processors.       *)
LEMMA ExposeStep == IInv /\ ExposeThrottles => IInv'
<1> SUFFICES ASSUME IInv, ExposeThrottles PROVE IInv'
  OBVIOUS
<1>1. /\ UNCHANGED <<shown, local, past>> /\ pc = "package_id" /\ pc' = "exposed"
      /\ local.next = Len(CPUs) + 1 /\ Len(CPUs) \in Nat
  BY IndexOf DEF IInv, TypeOK, ExposeThrottles
<1>2. sent' = {[desc |-> "package_throttles_total", of |-> <<k>>, value |-> packages[k]] : k \in DOMAIN packages}
              \cup {[desc |-> "core_throttles_total", of |-> k, value |-> cores[k]] : k \in DOMAIN cores}
  BY DEF ExposeThrottles, cores, packages
<1>3. TypeOK' /\ CountsGrow' /\ OfflineIsAway' /\ EntriesOwn'
  BY <1>1 DEF IInv, TypeOK, CountsGrow, OfflineIsAway, EntriesOwn, CoreFrom, PackageFrom,
              cores, packages
<1>4. EntriesCover'
  BY <1>1 DEF IInv, EntriesCover, CoreVisited, cores, packages
<1>5. ASSUME NEW m \in sent'
      PROVE  \E p \in ProcessorSet :
               \/ /\ Core(m) /\ p \in HasCore /\ m.of = CoreOf(p)
                  /\ past.core[p] <= m.value /\ m.value <= shown.core[p]
               \/ /\ Package(m) /\ p \in HasPackage /\ m.of = <<PackageId[p]>>
                  /\ past.package[p] <= m.value /\ m.value <= shown.package[p]
  <2>1. HasCore \subseteq ProcessorSet /\ HasPackage \subseteq ProcessorSet
    BY ThrottleAssumption
  <2>2. CASE \E k \in DOMAIN cores : m = [desc |-> "core_throttles_total", of |-> k, value |-> cores[k]]
    <3>1. PICK k \in DOMAIN cores : m = [desc |-> "core_throttles_total", of |-> k, value |-> cores[k]]
      BY <2>2
    <3>2. CoreFrom(k, cores[k])
      BY DEF IInv, EntriesOwn
    <3> QED
      BY <2>1, <3>1, <3>2 DEF CoreFrom, Core
  <2>3. CASE \E k \in DOMAIN packages :
               m = [desc |-> "package_throttles_total", of |-> <<k>>, value |-> packages[k]]
    <3>1. PICK k \in DOMAIN packages :
            m = [desc |-> "package_throttles_total", of |-> <<k>>, value |-> packages[k]]
      BY <2>3
    <3>2. PackageFrom(k, packages[k])
      BY DEF IInv, EntriesOwn
    <3> QED
      BY <2>1, <3>1, <3>2 DEF PackageFrom, Package
  <2> QED
    BY <1>2, <2>2, <2>3
<1>6. ThrottleCountsOwn'
  BY <1>1, <1>5 DEF ThrottleCountsOwn
<1>7. ThrottlesCovered'
  <2>1. ASSUME NEW k \in DOMAIN cores
        PROVE  \E m \in sent' : Core(m) /\ m.of = k
    <3> DEFINE metric == [desc |-> "core_throttles_total", of |-> k, value |-> cores[k]]
    <3>1. metric \in sent'
      BY <1>2
    <3>2. Core(metric) /\ metric.of = k
      BY DEF Core
    <3> QED
      BY <3>1, <3>2
  <2>2. ASSUME NEW k \in DOMAIN packages
        PROVE  \E m \in sent' : Package(m) /\ m.of = <<k>>
    <3> DEFINE metric == [desc |-> "package_throttles_total", of |-> <<k>>, value |-> packages[k]]
    <3>1. metric \in sent'
      BY <1>2
    <3>2. Package(metric) /\ metric.of = <<k>>
      BY DEF Package
    <3> QED
      BY <3>1, <3>2
  <2>3. ASSUME NEW p \in ProcessorSet \ past.away
        PROVE  /\ p \in HasCore => CoreOf(p) \in DOMAIN cores
               /\ p \in HasPackage => PackageId[p] \in DOMAIN packages
    <3>1. PICK i \in 1..Len(CPUs) : p = CPUs[i]
      BY DEF ProcessorSet
    <3>2. i < local.next
      BY <1>1
    <3> QED
      BY <1>1, <3>1, <3>2 DEF IInv, EntriesCover, CoreVisited
  <2> QED
    BY <1>1, <2>1, <2>2, <2>3 DEF ThrottlesCovered
<1> QED
  BY <1>1, <1>3, <1>4, <1>6, <1>7 DEF IInv

LEMMA StepInv == IInv /\ [Next]_vars => IInv'
<1> SUFFICES ASSUME IInv, [Next]_vars PROVE IInv'
  OBVIOUS
<1>1. CASE UNCHANGED vars
  BY <1>1 DEF vars, IInv, TypeOK, CountsGrow, EntriesOwn, CoreFrom, PackageFrom,
              EntriesCover, CoreVisited, OfflineIsAway, ThrottleCountsOwn, ThrottlesCovered,
              cores, packages
<1> QED
  BY <1>1, KernelStep, GlobStep, LoopStep, ExposeStep DEF Next, updateThermalThrottle

-------------------------------------------------------------------------------
(* Among the Updates of all collectors.                                      *)

(* No other collector reaches the control point the properties speak of.     *)
UpdateInv == IF collector = "cpu" THEN IInv ELSE pc # "exposed"

LEMMA UpdateInitInv == UpdateInit => UpdateInv
<1> SUFFICES ASSUME UpdateInit PROVE UpdateInv
  OBVIOUS
<1>1. CASE collector = "cpu"
  BY <1>1, InitInv DEF UpdateInit, UpdateInv
<1>2. CASE collector # "cpu"
  <2>1. pc = "idle"
    BY <1>2 DEF UpdateInit, DiskStats!Init, ThermalZone!Init, MemInfo!InitWith,
                CPUFreq!InitWith, MountTable!InitWith
  <2> QED
    BY <1>2, <2>1 DEF UpdateInv
<1> QED
  BY <1>1, <1>2

LEMMA UpdateStepInv == UpdateInv /\ [UpdateNext]_<<collector, vars>> => UpdateInv'
<1> SUFFICES ASSUME UpdateInv, [UpdateNext]_<<collector, vars>> PROVE UpdateInv'
  OBVIOUS
<1>0. collector' = collector
  BY DEF UpdateNext
<1>1. CASE collector = "cpu"
  <2>1. [Next]_vars
    BY <1>1 DEF UpdateNext
  <2> QED
    BY <1>0, <1>1, <2>1, StepInv DEF UpdateInv
<1>2. CASE collector # "cpu"
  <2> SUFFICES ASSUME pc # "exposed" PROVE pc' # "exposed"
    BY <1>0, <1>2 DEF UpdateInv
  <2>1. CASE UNCHANGED vars
    BY <2>1 DEF vars
  <2>2. CASE DiskStats!Next
    BY <2>2 DEF DiskStats!Next, DiskStats!Change, DiskStats!Attach, DiskStats!Detach,
                DiskStats!UdevFollows, DiskStats!ReadDiskstats, DiskStats!ReadDiskstatsFails,
                DiskStats!ExposeDisk, DiskStats!UpdateReturns
  <2>3. CASE ThermalZone!Next
    BY <2>3 DEF ThermalZone!Next, ThermalZone!Change, ThermalZone!UpdateZones,
                ThermalZone!UpdateZonesFails, ThermalZone!UpdateDevices,
                ThermalZone!UpdateDevicesFails
  <2>4. CASE MemInfo!Next
    BY <2>4 DEF MemInfo!Next, MemInfo!Update, MemInfo!UpdateFails
  <2>5. CASE CPUFreq!Next
    BY <2>5 DEF CPUFreq!Next, CPUFreq!Update, CPUFreq!UpdateFails
  <2>6. CASE MountTable!Next
    BY <2>6 DEF MountTable!Next, MountTable!parseFilesystemLabels,
                MountTable!MountPointDetailsFails
  <2> QED
    BY <1>2, <2>1, <2>2, <2>3, <2>4, <2>5, <2>6 DEF UpdateNext
<1> QED
  BY <1>1, <1>2

(***************************************************************************)
(* A throttle count that is exposed was counted by a processor of that     *)
(* very core (package) and read during the Update, whatever comes and goes *)
(* meanwhile.                                                              *)
(***************************************************************************)
THEOREM CountsOwn == UpdateSpec => []ThrottleCountsOwn
<1>1. UpdateInv => ThrottleCountsOwn
  BY DEF UpdateInv, IInv, ThrottleCountsOwn
<1> QED
  BY <1>1, UpdateInitInv, UpdateStepInv, PTL DEF UpdateSpec

(***************************************************************************)
(* Every core and package with a processor that has the file and stays     *)
(* online is exposed, whatever its siblings lack.                          *)
(***************************************************************************)
THEOREM Covered == UpdateSpec => []ThrottlesCovered
<1>1. UpdateInv => ThrottlesCovered
  BY DEF UpdateInv, IInv, ThrottlesCovered
<1> QED
  BY <1>1, UpdateInitInv, UpdateStepInv, PTL DEF UpdateSpec
===============================================================================
