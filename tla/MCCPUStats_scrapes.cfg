CONSTANTS
  c1 = c1
  c2 = c2
  CPUs = {c1, c2}
  Scrapes = {s1, s2}
  Modes = {"user"}
  Idle = "idle"
  jumpBackSeconds = 2
  MaxWobble = 1
  MaxLag = 1
  MaxSeconds <- ThreeIdleSeconds
SPECIFICATION Spec
INVARIANTS TypeOK ExposedIsFresh
PROPERTIES ResetsAreHotplugs DecreaseIsReset  OfflineCPUsRemoved
SYMMETRY Symmetric
CHECK_DEADLOCK FALSE
