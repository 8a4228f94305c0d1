CONSTANTS
  Registered = {"cpu", "cpufreq"}
  Filters = {{}}
  Metrics <- FrequencyMetrics
  Exposes <- FrequencyExposes
  Capacity = 2
SPECIFICATION Spec
INVARIANT GathersByDefault
CHECK_DEADLOCK FALSE
