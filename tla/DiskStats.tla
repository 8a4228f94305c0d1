------------------------------- MODULE DiskStats -------------------------------
(***************************************************************************)
(* The diskstats collector: collector/diskstats_linux.go.                  *)
(*                                                                         *)
(* /proc/diskstats is read once.  Then, disk by disk, the file of the udev *)
(* database that bears the disk's numbers is read and the metrics of the   *)
(* disk are sent.  Disks are attached and detached meanwhile, a disk may   *)
(* get the numbers of another, and udev follows later.  Nothing is carried *)
(* from one disk to the next, so that they are taken in any order.         *)
(*                                                                         *)
(* A value is the kernel's field and the factor applied to it.             *)
(***************************************************************************)
EXTENDS Integers, Sequences, FiniteSets, SequencesExt

CONSTANTS
  Numbers,          \* pairs of major and minor number
  Disks,            \* disks that may be attached
  NoDisk,           \* none
  IoStatsCount,     \* per disk: fields of its line of /proc/diskstats
  UdevLines         \* per disk: the lines udev keeps of it

VARIABLES
  shown,    \* [disk, udev]: per pair of numbers, the disk that has it and the
            \* disk that the udev database describes under it
  pc,       \* control point of Update
  local,    \* the lines of /proc/diskstats still to expose: [number, disk]
  past,     \* history: [read, settled], the lines read and the pairs of
            \* numbers that belong to the disk that udev describes since then
  sent      \* the metrics sent so far

Attached(disk) == {n \in Numbers : disk[n] # NoDisk}

Init ==
  /\ shown \in [disk : [Numbers -> Disks \cup {NoDisk}], udev : {[n \in Numbers |-> NoDisk]}]
  /\ \A m, n \in Attached(shown.disk) : shown.disk[m] = shown.disk[n] => m = n
  /\ pc = "idle"
  /\ local = {}
  /\ past = [read |-> {}, settled |-> {}]
  /\ sent = {}

-------------------------------------------------------------------------------
(* The kernel and udev.                                                      *)

Attach(n, d) ==
  /\ shown.disk[n] = NoDisk
  /\ \A m \in Numbers : shown.disk[m] # d
  /\ shown' = [shown EXCEPT !.disk[n] = d]
  /\ past' = [past EXCEPT !.settled = @ \ {n}]
  /\ UNCHANGED <<pc, local, sent>>

Detach(n) ==
  /\ shown.disk[n] # NoDisk
  /\ shown' = [shown EXCEPT !.disk[n] = NoDisk]
  /\ past' = [past EXCEPT !.settled = @ \ {n}]
  /\ UNCHANGED <<pc, local, sent>>

UdevFollows(n) ==
  /\ shown.udev[n] # shown.disk[n]
  /\ shown' = [shown EXCEPT !.udev[n] = shown.disk[n]]
  /\ UNCHANGED <<pc, local, past, sent>>

Change ==
  /\ pc \in {"idle", "loop"}
  /\ \E n \in Numbers : \/ Detach(n) \/ UdevFollows(n)
                        \/ \E d \in Disks : Attach(n, d)

-------------------------------------------------------------------------------
(* The fields of a line of /proc/diskstats in the order of the kernel, as    *)
(* the code lists them: what they count, the unit and the factor.            *)
Field(of, unit, factor) == [of |-> of, unit |-> unit, factor |-> factor]
unixSectorSize == "512"
secondsPerTick == "1/1000"

Values == <<
  Field("reads", "requests", "1"), Field("reads", "merged", "1"),
  Field("reads", "sectors", unixSectorSize), Field("reads", "ticks", secondsPerTick),
  Field("writes", "requests", "1"), Field("writes", "merged", "1"),
  Field("writes", "sectors", unixSectorSize), Field("writes", "ticks", secondsPerTick),
  Field("io", "now", "1"), Field("io", "ticks", secondsPerTick),
  Field("io", "weighted ticks", secondsPerTick),
  Field("discards", "requests", "1"), Field("discards", "merged", "1"),
  Field("discards", "sectors", "1"), Field("discards", "ticks", secondsPerTick),
  Field("flushes", "requests", "1"), Field("flushes", "ticks", secondsPerTick) >>

(* The descriptions: what they are about and the unit in their name.         *)
Desc(of, unit) == [of |-> of, unit |-> unit]
descs == <<
  Desc("reads", "completed"), Desc("reads", "merged"), Desc("reads", "bytes"), Desc("reads", "seconds"),
  Desc("writes", "completed"), Desc("writes", "merged"), Desc("writes", "bytes"), Desc("writes", "seconds"),
  Desc("io", "now"), Desc("io", "seconds"), Desc("io", "weighted seconds"),
  Desc("discards", "completed"), Desc("discards", "merged"), Desc("discards", "sectors"),
  Desc("discards", "seconds"),
  Desc("flushes", "completed"), Desc("flushes", "seconds") >>

(* Mutant: two of the descriptions are exchanged.                            *)
CountersExchanged(line) ==
  {[desc |-> descs[CASE i = 6 -> 7 [] i = 7 -> 6 [] OTHER -> i], disk |-> line.disk,
    field |-> Values[i]] :
     i \in {i \in DOMAIN Values : i - 1 < IoStatsCount[line.disk] - 3}}

(* Mutant: the number is taken away once too few.                            *)
CountersOneMore(line) ==
  {[desc |-> descs[i], disk |-> line.disk, field |-> Values[i]] :
     i \in {i \in DOMAIN Values : i - 1 <= IoStatsCount[line.disk] - 3}}

(* The values of a disk, matched with the descriptions by position, as many  *)
(* as its line has fields besides the numbers and the name.                  *)
Counters(line) ==
  {[desc |-> descs[i], disk |-> line.disk, field |-> Values[i]] :
     i \in {i \in DOMAIN Values : i - 1 < IoStatsCount[line.disk] - 3}}

-------------------------------------------------------------------------------
(* info[name] = value                                                        *)
Put(info, name, value) == [k \in DOMAIN info \cup {name} |-> IF k = name THEN value ELSE info[k]]

(* The properties in a file of the udev database.  A line is a record of its *)
(* prefix and of what an equals sign separates: the first one only.          *)
getUdevDeviceProperties(d) ==
  IF d = NoDisk THEN <<>>
  ELSE FoldLeft(LAMBDA info, line :
                  IF line.prefix = "E:" /\ Len(line.fields) = 2
                  THEN Put(info, line.fields[1], line.fields[2]) ELSE info,
                <<>>, UdevLines[d])

(* info[name], which is empty when there is no such property.                *)
At(info, name) == IF name \in DOMAIN info THEN info[name] ELSE ""

(* Mutant: the other serial is taken if there is no such property at all.    *)
SerialIfAbsent(info) ==
  IF "SCSI_IDENT_SERIAL" \in DOMAIN info THEN info["SCSI_IDENT_SERIAL"] ELSE At(info, "ID_SERIAL_SHORT")

Serial(info) ==
  IF At(info, "SCSI_IDENT_SERIAL") # "" THEN At(info, "SCSI_IDENT_SERIAL")
  ELSE At(info, "ID_SERIAL_SHORT")

ataDescs == {"ID_ATA_WRITE_CACHE", "ID_ATA_WRITE_CACHE_ENABLED", "ID_ATA_ROTATION_RATE_RPM"}
Numerals == {"0", "1", "7200"}      \* what ParseFloat accepts

(* A metric with the property of that name, unless the property is empty.    *)
PropertyMetric(line, info, desc, name) ==
  IF At(info, name) = "" THEN {}
  ELSE {[desc |-> desc, disk |-> line.disk, value |-> At(info, name)]}

(* Mutant: it is not asked whether the disk is an ATA disk.                  *)
PropertiesOfAnyBus(line, info) ==
  PropertyMetric(line, info, Desc("filesystem", "info"), "ID_FS_TYPE")
    \cup PropertyMetric(line, info, Desc("device_mapper", "info"), "DM_NAME")
    \cup UNION {PropertyMetric(line, info, Desc("ata", a), a) : a \in {a \in ataDescs : At(info, a) \in Numerals}}

(* The metrics with the properties of the disk that are not for every disk.  *)
Properties(line, info) ==
  LET ata == IF At(info, "ID_ATA") = "" THEN {} ELSE ataDescs
  IN  PropertyMetric(line, info, Desc("filesystem", "info"), "ID_FS_TYPE")
        \cup PropertyMetric(line, info, Desc("device_mapper", "info"), "DM_NAME")
        \cup UNION {PropertyMetric(line, info, Desc("ata", a), a) : a \in {a \in ata : At(info, a) \in Numerals}}

Info(line, info) ==
  [desc |-> Desc("disk", "info"), disk |-> line.disk, number |-> line.number, value |-> Serial(info)]

-------------------------------------------------------------------------------
(* Update.                                                                   *)

ReadDiskstats ==
  /\ pc = "idle"
  /\ pc' = "loop"
  /\ local' = {[number |-> n, disk |-> shown.disk[n]] : n \in Attached(shown.disk)}
  /\ past' = [read |-> local', settled |-> {n \in Numbers : shown.disk[n] = shown.udev[n]}]
  /\ UNCHANGED <<shown, sent>>

ReadDiskstatsFails ==
  /\ pc = "idle"
  /\ pc' = "failed"
  /\ UNCHANGED <<shown, local, past, sent>>

(* Mutant: a disk that udev does not know yet is left out.                   *)
ExposeDiskKnown(line) ==
  /\ pc = "loop"
  /\ line \in local
  /\ local' = local \ {line}
  /\ LET info == getUdevDeviceProperties(shown.udev[line.number])
     IN  sent' = IF shown.udev[line.number] = NoDisk THEN sent
                 ELSE sent \cup Counters(line) \cup {Info(line, info)} \cup Properties(line, info)
  /\ UNCHANGED <<shown, pc, past>>

(* One iteration.  When the file of the udev database cannot be read, the    *)
(* error is ignored and all properties are empty.                            *)
ExposeDisk(line) ==
  /\ pc = "loop"
  /\ line \in local
  /\ local' = local \ {line}
  /\ LET info == getUdevDeviceProperties(shown.udev[line.number])
     IN  sent' = sent \cup Counters(line) \cup {Info(line, info)} \cup Properties(line, info)
  /\ UNCHANGED <<shown, pc, past>>

UpdateReturns ==
  /\ pc = "loop"
  /\ local = {}
  /\ pc' = "done"
  /\ UNCHANGED <<shown, local, past, sent>>

Next ==
  \/ Change
  \/ ReadDiskstats \/ ReadDiskstatsFails \/ UpdateReturns
  \/ \E line \in local : ExposeDisk(line)

-------------------------------------------------------------------------------
(* Properties.                                                               *)

CountersOf(d) == {m \in sent : m.disk = d /\ m.desc \in ToSet(descs)}

Converted(unit, factor) ==
  CASE unit = "requests" /\ factor = "1" -> "completed"
    [] unit = "sectors" /\ factor = unixSectorSize -> "bytes"
    [] unit = "ticks" /\ factor = secondsPerTick -> "seconds"
    [] unit = "weighted ticks" /\ factor = secondsPerTick -> "weighted seconds"
    [] OTHER -> IF factor = "1" THEN unit ELSE ""

(***************************************************************************)
(* The lists of values and of descriptions are matched by position: each   *)
(* value is exposed under the description of what it counts, and its       *)
(* factor turns the unit of the kernel into the one in the name.           *)
(***************************************************************************)
ValuesDescribed ==
  \A d \in Disks : \A m \in CountersOf(d) :
    m.desc = Desc(m.field.of, Converted(m.field.unit, m.field.factor))

(***************************************************************************)
(* When Update returns nil, every disk it has read is complete, whether or *)
(* not udev knew it: one info metric, and what its kernel counts; discards *)
(* and flushes where its kernel counts them, and no zeros where it does    *)
(* not.                                                                    *)
(***************************************************************************)
DisksComplete ==
  pc = "done" =>
    \A line \in past.read :
      LET count == IoStatsCount[line.disk]
      IN  /\ Cardinality({m \in sent : m.desc = Desc("disk", "info") /\ m.disk = line.disk}) = 1
          /\ Cardinality(CountersOf(line.disk)) = count - 3
          /\ {m.field.of : m \in CountersOf(line.disk)} =
               {"reads", "writes", "io"} \cup (IF count >= 18 THEN {"discards"} ELSE {})
                 \cup (IF count >= 20 THEN {"flushes"} ELSE {})

(* What udev says of a disk: the last line that gives the property.          *)
Says(d, name) ==
  LET given == {i \in DOMAIN UdevLines[d] :
                  UdevLines[d][i].prefix = "E:" /\ Len(UdevLines[d][i].fields) = 2
                    /\ UdevLines[d][i].fields[1] = name}
  IN  IF given = {} THEN "" ELSE UdevLines[d][CHOOSE i \in given : \A j \in given : j <= i].fields[2]

(* "This is usually the serial printed on the disk label.  If it's           *)
(* undefined, fallback".                                                     *)
SerialIsOwn ==
  \A m \in sent :
    m.desc = Desc("disk", "info") /\ m.number \in past.settled =>
      m.value = IF Says(m.disk, "SCSI_IDENT_SERIAL") # "" THEN Says(m.disk, "SCSI_IDENT_SERIAL")
                ELSE Says(m.disk, "ID_SERIAL_SHORT")

Optional == {"filesystem", "device_mapper", "ata"}
PropertyOf(desc) ==
  CASE desc.of = "filesystem" -> "ID_FS_TYPE" [] desc.of = "device_mapper" -> "DM_NAME" [] OTHER -> desc.unit

(***************************************************************************)
(* What is exposed of a disk from udev is what udev gives of this disk,    *)
(* unless the numbers of the disk changed hands during the Update or udev  *)
(* had yet to follow when it began: its serial; its filesystem and its     *)
(* device mapper name when udev gives them; the ATA attributes that are    *)
(* numbers when it is an ATA disk.  None but the serial is empty.          *)
(***************************************************************************)
PropertiesAreOwn ==
  /\ SerialIsOwn
  /\ \A line \in past.read \ local :
      line.number \in past.settled =>
        LET d == line.disk
            given == {m \in sent : m.disk = d /\ m.desc.of \in Optional}
            IsATA == Says(d, "ID_ATA") # ""
        IN  /\ \A m \in given : m.value = Says(d, PropertyOf(m.desc)) /\ m.value # ""
            /\ \A m \in given : m.desc.of = "ata" => IsATA /\ m.value \in Numerals
            /\ Says(d, "ID_FS_TYPE") # "" => \E m \in given : m.desc.of = "filesystem"
            /\ Says(d, "DM_NAME") # "" => \E m \in given : m.desc.of = "device_mapper"
            /\ \A a \in ataDescs : IsATA /\ Says(d, a) \in Numerals =>
                                     \E m \in given : m.desc = Desc("ata", a)
===============================================================================
