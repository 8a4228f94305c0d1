--------------------------- MODULE MCNodeCollector ---------------------------
(***************************************************************************)
(* Instances of NodeCollector for TLC.                                     *)
(***************************************************************************)
EXTENDS NodeCollector, TLC

(* Three collectors with metrics of their own.                               *)
Plain(name, i) == Metric(name, name, i)
PlainMetrics == { Plain(n, i) : n \in {"meminfo", "diskstats"}, i \in {1, 2} }
PlainExposes ==
  ("meminfo" :> {{Plain("meminfo", 1)}, {Plain("meminfo", 1), Plain("meminfo", 2)}})
  @@ ("diskstats" :> {{Plain("diskstats", 1), Plain("diskstats", 2)}})
  @@ ("systemd" :> {{}})

(* No filter, one, two, and one that is not registered.                      *)
PlainFilters == { {}, {"meminfo"}, {"meminfo", "systemd"}, {"meminfo", "zfs"} }

(* The collectors cpu and cpufreq on a machine with one processor, whose     *)
(* cpuinfo_cur_freq may or may not be readable.                              *)
FrequencyMetrics == {CPUFrequency("0"), CPUFreqHertz("0")}
FrequencyExposes ==
  ("cpu" :> {{CPUFrequency("0")}}) @@ ("cpufreq" :> {{}, {CPUFreqHertz("0")}})
===============================================================================
