CONSTANTS
  sda = sda
  dm0 = dm0
  p0 = p0
  p1 = p1
  p2 = p2
  NoDisk = NoDisk
  Numbers = {1}
  Disks = {sda}
  IoStatsCount <- OneIoStatsCount
  UdevLines <- Lines
  CPUs <- ThreeCPUs
  PackageId <- TwoPackages
  CoreId <- SameCore
  HasCore = {p1, p2}
  HasPackage = {p0, p1}
  MaxCount = 0
  Zones = {z1}
  CoolingDevices = {d1}
  MemInfoFiles <- ShortFiles
  FrequencyFiles <- CPUFreqFiles
  MountPointNames <- Names
  FieldCounts = {3, 6}
SPECIFICATION UpdateSpec
INVARIANT InvalidLineIsError
CHECK_DEADLOCK FALSE
