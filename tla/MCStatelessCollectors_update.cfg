CONSTANTS
  sda = sda
  dm0 = dm0
  p0 = p0
  p1 = p1
  p2 = p2
  NoDisk = NoDisk
  Numbers = {1, 2}
  Disks = {sda, dm0}
  IoStatsCount <- AllIoStatsCounts
  UdevLines <- Lines
  CPUs <- ThreeCPUs
  PackageId <- TwoPackages
  CoreId <- SameCore
  HasCore = {p1, p2}
  HasPackage = {p0, p1}
  MaxCount = 1
  Zones = {z1, z2}
  CoolingDevices = {d1, d2}
  MemInfoFiles <- UsualFiles
  FrequencyFiles <- CPUFreqFiles
  MountPointNames <- Names
  FieldCounts = {3, 6}
SPECIFICATION UpdateSpec
INVARIANTS ValuesDescribed DisksComplete PropertiesAreOwn ThrottleCountsOwn ThrottlesCovered ThermalComplete MemInfoComplete FrequenciesOrdered GovernorOneHot MountPointsKept
CHECK_DEADLOCK FALSE
