CONSTANTS
  c1 = c1
  c2 = c2
  CPUs = {c1, c2}
  Scrapes = {s1, s2}
  Modes = {"user"}
  Idle = "idle"
  jumpBackSeconds = 2
  MaxWobble = 0
  MaxLag = 2
  MaxSeconds <- ThreeIdleSeconds
SPECIFICATION Spec
PROPERTY ResetsAreHotplugs
CHECK_DEADLOCK FALSE
