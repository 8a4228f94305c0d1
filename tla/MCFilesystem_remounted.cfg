CONSTANTS
  m1 = m1
  m2 = m2
  ext4 = ext4
  tmpfs = tmpfs
  NoScrape = NoScrape
  Scrapes = {s1}
  MountPoints = {m1, m2}
  Sources = {ext4, tmpfs}
  MountOptions = {"rw", "ro"}
  Tables <- Remounted
  MaxLines = 2
  StatfsErrors = {}
  statWorkerCount = 4
SPECIFICATION Spec
INVARIANT ExposedAtMostOnce
CHECK_DEADLOCK FALSE
