CONSTANTS
  m1 = m1
  m2 = m2
  ext4 = ext4
  tmpfs = tmpfs
  NoScrape = NoScrape
  Scrapes = {s1}
  MountPoints = {m1, m2}
  Sources = {ext4, tmpfs}
  MountOptions = {"rw", "ro"}
  Tables <- RepeatedMount
  MaxLines = 3
  StatfsErrors = {"EIO"}
  statWorkerCount = 2
SPECIFICATION FairSpec
INVARIANTS CompleteUnlessMixed ExposedAtMostOnce
PROPERTIES ImplementsHealth OthersAnswered
CHECK_DEADLOCK FALSE
