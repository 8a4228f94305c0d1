------------------------------- MODULE Throttle -------------------------------
(***************************************************************************)
(* The thermal throttle counts of the cpu collector: updateThermalThrottle *)
(* of collector/cpu_linux.go, the last part of its Update.                 *)
(*                                                                         *)
(* The loop over the processors reads one file after another while the     *)
(* kernel counts on and processors go offline, which removes their files.  *)
(* The processors of a core (of a package) count its throttles each for    *)
(* itself; one of them is exposed.                                         *)
(***************************************************************************)
EXTENDS Integers, Sequences

CONSTANTS
  CPUs,             \* processors, in the order in which Glob lists them
  PackageId,        \* topology/physical_package_id of a processor
  CoreId,           \* topology/core_id: unique within the package only
  HasCore,          \* processors with a thermal_throttle/core_throttle_count
  HasPackage,       \* processors with a thermal_throttle/package_throttle_count
  MaxCount          \* bound: how far the kernel counts

ProcessorSet == {CPUs[i] : i \in 1..Len(CPUs)}
CoreOf(p) == <<PackageId[p], CoreId[p]>>

ASSUME ThrottleAssumption ==
  /\ CPUs \in Seq(ProcessorSet)
  /\ HasCore \subseteq ProcessorSet
  /\ HasPackage \subseteq ProcessorSet
  /\ MaxCount \in Nat

VARIABLES
  shown,    \* what sysfs shows: [online, core, package]
  pc,       \* control point: the file of the processor that is read next
  local,    \* [next, packageThrottles, packageCoreThrottles]
  past,     \* history: [core, package] when the loop began, and which
            \* processors have been offline since then
  sent      \* the metrics sent so far

vars == <<shown, pc, local, past, sent>>

Counts == [ProcessorSet -> Nat]
Empty == [key \in {} |-> 0]
Put(map, key, value) ==
  [k \in DOMAIN map \cup {key} |-> IF k = key THEN value ELSE map[k]]

-------------------------------------------------------------------------------
Init ==
  /\ shown \in [online : SUBSET ProcessorSet,
                core : {[p \in ProcessorSet |-> 0]}, package : {[p \in ProcessorSet |-> 0]}]
  /\ pc = "idle"
  /\ local = [next |-> 1, packageThrottles |-> Empty, packageCoreThrottles |-> Empty]
  /\ past = [core |-> shown.core, package |-> shown.package, away |-> {}]
  /\ sent = {}

(* The kernel.                                                               *)

CountCore(p) ==
  /\ p \in shown.online
  /\ shown.core[p] < MaxCount
  /\ shown' = [shown EXCEPT !.core[p] = @ + 1]
  /\ UNCHANGED <<pc, local, past, sent>>

CountPackage(p) ==
  /\ p \in shown.online
  /\ shown.package[p] < MaxCount
  /\ shown' = [shown EXCEPT !.package[p] = @ + 1]
  /\ UNCHANGED <<pc, local, past, sent>>

Unplug(p) ==
  /\ p \in shown.online
  /\ shown' = [shown EXCEPT !.online = @ \ {p}]
  /\ past' = [past EXCEPT !.away = @ \cup {p}]
  /\ UNCHANGED <<pc, local, sent>>

Plug(p) ==
  /\ p \in ProcessorSet \ shown.online
  /\ shown' = [shown EXCEPT !.online = @ \cup {p}]
  /\ UNCHANGED <<pc, local, past, sent>>

-------------------------------------------------------------------------------
(* updateThermalThrottle.                                                    *)

(* Glob lists the processors, those that are offline too.                    *)
Glob ==
  /\ pc = "idle"
  /\ pc' = "package_id"
  /\ past' = [core |-> shown.core, package |-> shown.package,
              away |-> ProcessorSet \ shown.online]
  /\ UNCHANGED <<shown, local, sent>>

(* topology/physical_package_id, then topology/core_id.                      *)
ReadTopology ==
  /\ pc \in {"package_id", "core_id"}
  /\ local.next <= Len(CPUs)
  /\ CPUs[local.next] \in shown.online
  /\ pc' = IF pc = "package_id" THEN "core_id" ELSE "core"
  /\ UNCHANGED <<shown, local, past, sent>>

(* One of the two cannot be read, because the processor is offline: on to    *)
(* the next one.                                                             *)
SkipCPU ==
  /\ pc \in {"package_id", "core_id"}
  /\ local.next <= Len(CPUs)
  /\ CPUs[local.next] \notin shown.online
  /\ pc' = "package_id"
  /\ local' = [local EXCEPT !.next = @ + 1]
  /\ UNCHANGED <<shown, past, sent>>

(* Mutant: the cores of all packages share one map.                          *)
ReadCoreOfAnyPackage ==
  /\ pc = "core"
  /\ LET p == CPUs[local.next]
         key == <<PackageId[CPUs[1]], CoreId[p]>>
     IN  local' = IF p \in HasCore \cap shown.online
                       /\ key \notin DOMAIN local.packageCoreThrottles
                  THEN [local EXCEPT !.packageCoreThrottles = Put(@, key, shown.core[p])]
                  ELSE local
  /\ pc' = "package"
  /\ UNCHANGED <<shown, past, sent>>

(* The count of the core, read once per core of a package, when it can be.   *)
ReadCore ==
  /\ pc = "core"
  /\ LET p == CPUs[local.next]
     IN  local' = IF p \in HasCore \cap shown.online
                       /\ CoreOf(p) \notin DOMAIN local.packageCoreThrottles
                  THEN [local EXCEPT !.packageCoreThrottles =
                          Put(@, CoreOf(p), shown.core[p])]
                  ELSE local
  /\ pc' = "package"
  /\ UNCHANGED <<shown, past, sent>>

(* Mutant: the counts of the processors of a package are added up.           *)
ReadPackageAdding ==
  /\ pc = "package"
  /\ LET p == CPUs[local.next]
         pkg == PackageId[p]
     IN  local' = [local EXCEPT
                     !.next = @ + 1,
                     !.packageThrottles =
                       IF p \notin HasPackage \cap shown.online THEN @
                       ELSE IF pkg \in DOMAIN @ THEN Put(@, pkg, @[pkg] + shown.package[p])
                       ELSE Put(@, pkg, shown.package[p])]
  /\ pc' = "package_id"
  /\ UNCHANGED <<shown, past, sent>>

(* The count of the package, read once per package, when it can be.          *)
ReadPackage ==
  /\ pc = "package"
  /\ LET p == CPUs[local.next]
         pkg == PackageId[p]
     IN  local' = [local EXCEPT
                     !.next = @ + 1,
                     !.packageThrottles =
                       IF p \in HasPackage \cap shown.online /\ pkg \notin DOMAIN @
                       THEN Put(@, pkg, shown.package[p]) ELSE @]
  /\ pc' = "package_id"
  /\ UNCHANGED <<shown, past, sent>>

ExposeThrottles ==
  /\ pc = "package_id"
  /\ local.next > Len(CPUs)
  /\ pc' = "exposed"
  /\ sent' = {[desc |-> "package_throttles_total", of |-> <<k>>, value |-> local.packageThrottles[k]] :
                k \in DOMAIN local.packageThrottles}
             \cup
             {[desc |-> "core_throttles_total", of |-> k, value |-> local.packageCoreThrottles[k]] :
                k \in DOMAIN local.packageCoreThrottles}
  /\ UNCHANGED <<shown, local, past>>

Kernel ==
  \E p \in ProcessorSet : CountCore(p) \/ CountPackage(p) \/ Unplug(p) \/ Plug(p)

updateThermalThrottle ==
  Glob \/ ReadTopology \/ SkipCPU \/ ReadCore \/ ReadPackage \/ ExposeThrottles

Next == (pc # "exposed" /\ Kernel) \/ updateThermalThrottle

Spec == Init /\ [][Next]_vars

-------------------------------------------------------------------------------
(* Properties.                                                               *)

Core(m) == m.desc = "core_throttles_total"
Package(m) == m.desc = "package_throttles_total"

(***************************************************************************)
(* What is exposed of a core (of a package) is what one of its own         *)
(* processors counted while the loop ran: nothing of another core, be it   *)
(* the one with the same number in another package, no sum, no stale value.*)
(***************************************************************************)
ThrottleCountsOwn ==
  pc = "exposed" =>
    \A m \in sent :
      \E p \in ProcessorSet :
        \/ /\ Core(m) /\ p \in HasCore /\ m.of = CoreOf(p)
           /\ past.core[p] <= m.value /\ m.value <= shown.core[p]
        \/ /\ Package(m) /\ p \in HasPackage /\ m.of = <<PackageId[p]>>
           /\ past.package[p] <= m.value /\ m.value <= shown.package[p]

(***************************************************************************)
(* No core and no package is left out as long as one of its processors     *)
(* that has the file stays online: neither when a sibling that comes first *)
(* is offline or lacks the file, nor because the package has no count.     *)
(***************************************************************************)
ThrottlesCovered ==
  pc = "exposed" =>
    \A p \in ProcessorSet \ past.away :
      /\ p \in HasCore => \E m \in sent : Core(m) /\ m.of = CoreOf(p)
      /\ p \in HasPackage => \E m \in sent : Package(m) /\ m.of = <<PackageId[p]>>
===============================================================================
