-------------------------- MODULE StatelessCollectors --------------------------
(***************************************************************************)
(* One Update of a collector that keeps no state of its own: diskstats,    *)
(* meminfo, thermal_zone, cpufreq, the throttle counts of cpu, and the     *)
(* mount table that filesystem starts from.  Such an Update reads files    *)
(* that the kernel changes meanwhile, sends metrics and returns; all that  *)
(* outlives a step are its locals.  Nothing is shared between two Updates, *)
(* so that each collector is checked for itself: the behaviours are those  *)
(* of the six modules, over the variables of Throttle.  It is extended,    *)
(* and not instantiated, because there are theorems about it.              *)
(***************************************************************************)
EXTENDS Throttle

CONSTANTS
  Numbers, Disks, NoDisk, IoStatsCount, UdevLines,            \* DiskStats
  Zones, CoolingDevices,                                      \* ThermalZone
  MemInfoFiles,     \* contents of /proc/meminfo: sequences of lines
  FrequencyFiles,   \* contents of the cpufreq directories of sysfs
  MountPointNames,  \* mount points: sequences of characters
  FieldCounts       \* numbers of fields on a line of the mount table

ASSUME DiskStatsAssumption ==
  /\ NoDisk \notin Disks
  /\ IoStatsCount \in [Disks -> {14, 18, 20}]
  /\ \A d \in Disks : /\ UdevLines[d] \in Seq({UdevLines[d][i] : i \in DOMAIN UdevLines[d]})
                      /\ \A i \in DOMAIN UdevLines[d] : UdevLines[d][i].fields \in Seq(STRING)

(* A frequency is a number, none of a kind has its minimum above its maximum, *)
(* and the governor in use is one of those available, which differ.          *)
ASSUME CPUFreqAssumption ==
  \A files \in FrequencyFiles : \A cpu \in DOMAIN files :
    LET freq == files[cpu].freq
        available == files[cpu].AvailableGovernors
        Ordered(low, high) ==
          low \in DOMAIN freq /\ high \in DOMAIN freq => freq[low] <= freq[high]
    IN  /\ DOMAIN freq \subseteq {"CpuinfoCurrentFrequency", "CpuinfoMinimumFrequency",
                                 "CpuinfoMaximumFrequency", "ScalingCurrentFrequency",
                                 "ScalingMinimumFrequency", "ScalingMaximumFrequency"}
        /\ \A field \in DOMAIN freq : freq[field] \in Nat
        /\ Ordered("CpuinfoMinimumFrequency", "CpuinfoMaximumFrequency")
        /\ Ordered("ScalingMinimumFrequency", "ScalingMaximumFrequency")
        /\ available \in Seq(STRING)
        /\ \A i, j \in 1..Len(available) : available[i] = available[j] => i = j
        /\ files[cpu].Governor # "" =>
             \E i \in 1..Len(available) : available[i] = files[cpu].Governor

(* No two lines of /proc/meminfo with as many fields name one field, be it   *)
(* with parentheses or underscores, and no name without unit ends in bytes.  *)
ASSUME MemInfoAssumption ==
  \A file \in MemInfoFiles :
    LET words == [i \in DOMAIN file |-> file[i].name \o file[i].paren]
        Fields(i) == file[i].fields
    IN  /\ file \in Seq({file[i] : i \in DOMAIN file})
        /\ \A i \in DOMAIN file :
             words[i] \in Seq(STRING) /\ Fields(i) \in Nat /\ file[i].value \in Int
        /\ \A i, j \in DOMAIN file :
             Fields(i) \in {2, 3} /\ Fields(i) = Fields(j) /\ words[i] = words[j] => i = j
        /\ \A i \in DOMAIN file :
             Fields(i) = 2 => words[i] = <<>> \/ words[i][Len(words[i])] # "bytes"

(* A mount point is a sequence of characters.                                *)
ASSUME MountTableAssumption ==
  \A name \in MountPointNames : name \in Seq({name[i] : i \in DOMAIN name})

VARIABLE collector    \* whose Update it is

DiskStats == INSTANCE DiskStats
ThermalZone == INSTANCE ThermalZone
MemInfo == INSTANCE MemInfo
CPUFreq == INSTANCE CPUFreq
MountTable == INSTANCE MountTable

Pairs(S) == {<<x, y>> : x, y \in S}

UpdateInit ==
  \/ collector = "diskstats" /\ DiskStats!Init
  \/ collector = "cpu" /\ Init
  \/ collector = "thermal_zone" /\ ThermalZone!Init
  \/ collector = "meminfo" /\ \E file \in MemInfoFiles : MemInfo!InitWith(file)
  \/ collector = "cpufreq" /\ \E files \in FrequencyFiles : CPUFreq!InitWith(files)
  \/ collector = "filesystem" /\ \E names \in Pairs(MountPointNames), fields \in Pairs(FieldCounts) :
                                   MountTable!InitWith(names, fields)

UpdateNext ==
  /\ \/ collector = "diskstats" /\ DiskStats!Next
     \/ collector = "cpu" /\ Next
     \/ collector = "thermal_zone" /\ ThermalZone!Next
     \/ collector = "meminfo" /\ MemInfo!Next
     \/ collector = "cpufreq" /\ CPUFreq!Next
     \/ collector = "filesystem" /\ MountTable!Next
  /\ UNCHANGED collector

UpdateSpec == UpdateInit /\ [][UpdateNext]_<<collector, vars>>

-------------------------------------------------------------------------------
(* The properties of the modules, each of its own collector.  Those of       *)
(* Throttle speak of its own last control point.                             *)

(* Every value is exposed under its description, in its unit.                *)
ValuesDescribed == collector = "diskstats" => DiskStats!ValuesDescribed

(* Every disk that was read is complete, whether or not udev knows it.       *)
DisksComplete == collector = "diskstats" => DiskStats!DisksComplete

(* The serial and the other properties of a disk are its own, and all.       *)
PropertiesAreOwn == collector = "diskstats" => DiskStats!PropertiesAreOwn

(* nil means complete, and a failing second read costs none of the zones.    *)
ThermalComplete == collector = "thermal_zone" => ThermalZone!ThermalComplete

(* All lines of /proc/meminfo, or none.                                      *)
MemInfoComplete == collector = "meminfo" => MemInfo!MemInfoComplete

(* "invalid line in meminfo" is answered with an error.                      *)
InvalidLineIsError == collector = "meminfo" => MemInfo!InvalidLineIsError

(* The six frequencies are not taken for one another.                        *)
FrequenciesOrdered == collector = "cpufreq" => CPUFreq!FrequenciesOrdered

(* Exactly the governor in use is 1.                                         *)
GovernorOneHot == collector = "cpufreq" => CPUFreq!GovernorOneHot

(* Mount points with spaces and tabs are returned under their names, and     *)
(* different ones under different names.                                     *)
MountPointsKept == collector = "filesystem" => MountTable!MountPointsKept
===============================================================================
