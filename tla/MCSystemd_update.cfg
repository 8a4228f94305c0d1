CONSTANTS
  Units <- AllUnits
  UnitLists <- Lists
  Versions = {0, 211, 212}
SPECIFICATION FairSpec
INVARIANTS TypeOK GoroutinesWithinUpdate LoadedUnitsExposed SummaryCountsAll ValuesAreOwn GatedByVersion
PROPERTY UpdateEnds
CHECK_DEADLOCK FALSE
