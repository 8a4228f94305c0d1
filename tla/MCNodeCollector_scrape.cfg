CONSTANTS
  Registered = {"meminfo", "diskstats", "systemd"}
  Filters <- PlainFilters
  Metrics <- PlainMetrics
  Exposes <- PlainExposes
  Capacity = 2
SPECIFICATION FairSpec
INVARIANTS TypeOK NoSendAfterCollect EveryCollectorReports NothingLost
PROPERTIES ImplementsReports GatherEnds
CHECK_DEADLOCK FALSE
