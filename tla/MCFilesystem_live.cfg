CONSTANTS
  m1 = m1
  m2 = m2
  ext4 = ext4
  tmpfs = tmpfs
  NoScrape = NoScrape
  Scrapes = {s1, s2}
  MountPoints = {m1, m2}
  Sources = {ext4, tmpfs}
  MountOptions = {"rw", "ro"}
  Tables <- TwoMounts
  MaxLines = 2
  StatfsErrors = {}
  statWorkerCount = 0
SPECIFICATION SteadySpec
PROPERTIES StuckMountsDoNotBlock HungGetsMarked ScrapesEnd StuckClears
CHECK_DEADLOCK FALSE
