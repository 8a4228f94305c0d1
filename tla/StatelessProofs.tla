---------------------------- MODULE StatelessProofs ----------------------------
(***************************************************************************)
(* Proofs about the collectors that keep no state, for any disks, zones,   *)
(* processors, files and mount points.                                     *)
(***************************************************************************)
EXTENDS StatelessCollectors, FoldTheorems

(* An Update of another collector says nothing of this one's properties.     *)
LEMMA CollectorStays ==
  ASSUME [UpdateNext]_<<collector, vars>>
  PROVE  collector' = collector
  BY DEF UpdateNext

-------------------------------------------------------------------------------
(* thermal_zone.                                                             *)

(* Nothing is read before the zones are.                                     *)
ThermalInv ==
  collector = "thermal_zone" =>
    /\ pc \in {"idle", "zones", "done", "failed", "no data"}
    /\ pc = "idle" => sent = {}
    /\ pc \in {"idle", "no data"} => past.zones = {}
    /\ past = [zones |-> past.zones, devices |-> past.devices]
    /\ ThermalZone!ThermalComplete

LEMMA ThermalInit == UpdateInit => ThermalInv
  BY DEF UpdateInit, ThermalInv, ThermalZone!Init, ThermalZone!ThermalComplete, ThermalZone!Series

LEMMA ThermalStep == ThermalInv /\ [UpdateNext]_<<collector, vars>> => ThermalInv'
<1> SUFFICES ASSUME ThermalInv, [UpdateNext]_<<collector, vars>>, collector = "thermal_zone"
             PROVE  ThermalInv'
  BY CollectorStays DEF ThermalInv
<1> USE DEF ThermalInv, ThermalZone!ThermalComplete
<1>1. CASE ThermalZone!Change
  BY <1>1, CollectorStays DEF ThermalZone!Change
<1>2. CASE ThermalZone!UpdateZones
  BY <1>2, CollectorStays DEF ThermalZone!UpdateZones
<1>3. ASSUME NEW err \in ThermalZone!ReadErrors, ThermalZone!UpdateZonesFails(err)
      PROVE  ThermalInv'
  BY <1>3, CollectorStays DEF ThermalZone!UpdateZonesFails, ThermalZone!Series
<1>4. CASE ThermalZone!UpdateDevices
  BY <1>4, CollectorStays DEF ThermalZone!UpdateDevices
<1>5. CASE ThermalZone!UpdateDevicesFails
  BY <1>5, CollectorStays DEF ThermalZone!UpdateDevicesFails
<1>6. CASE UNCHANGED <<collector, vars>>
  BY <1>6 DEF vars
<1> QED
  BY <1>1, <1>2, <1>3, <1>4, <1>5, <1>6 DEF UpdateNext, ThermalZone!Next

(***************************************************************************)
(* thermal_zone returns nil only when all zones and both states of all     *)
(* cooling devices have been sent, and the failure of the second read      *)
(* costs none of the zones.                                                *)
(***************************************************************************)
THEOREM ThermalZonesComplete == UpdateSpec => []ThermalComplete
<1>1. ThermalInv => ThermalComplete
  BY DEF ThermalInv, ThermalComplete
<1> QED
  BY <1>1, ThermalInit, ThermalStep, PTL DEF UpdateSpec

-------------------------------------------------------------------------------
(* cpufreq.                                                                  *)

(* What a module that is instantiated counts is what this one counts.        *)
LEMMA SameCardinality ==
  \A S : CPUFreq!Cardinality(S) = Cardinality(S)
  BY Zenon DEF CPUFreq!Cardinality, Cardinality

(* The files are read once, and all that is sent is made of them.            *)
FrequencyInv ==
  collector = "cpufreq" =>
    /\ shown \in FrequencyFiles
    /\ pc = "done" =>
         sent = UNION {CPUFreq!Frequencies(cpu) \cup CPUFreq!Governors(cpu) :
                         cpu \in DOMAIN shown}

LEMMA FrequencyInit == UpdateInit => FrequencyInv
  BY DEF UpdateInit, FrequencyInv, CPUFreq!InitWith

LEMMA FrequencyStep == FrequencyInv /\ [UpdateNext]_<<collector, vars>> => FrequencyInv'
<1> SUFFICES ASSUME FrequencyInv, [UpdateNext]_<<collector, vars>>, collector = "cpufreq"
             PROVE  FrequencyInv'
  BY CollectorStays DEF FrequencyInv
<1> USE DEF FrequencyInv
<1>0. ASSUME shown' = shown
      PROVE  \A cpu : /\ CPUFreq!Frequencies(cpu)' = CPUFreq!Frequencies(cpu)
                      /\ CPUFreq!Governors(cpu)' = CPUFreq!Governors(cpu)
  <2> TAKE cpu
  <2>1. CPUFreq!Frequencies(cpu)' = CPUFreq!Frequencies(cpu)
    BY <1>0 DEF CPUFreq!Frequencies
  <2>2. CPUFreq!Governors(cpu)' = CPUFreq!Governors(cpu)
    BY <1>0, Zenon DEF CPUFreq!Governors
  <2> QED
    BY <2>1, <2>2
<1>1. CASE CPUFreq!Update
  BY <1>0, <1>1 DEF CPUFreq!Update
<1>2. CASE CPUFreq!UpdateFails
  BY <1>2 DEF CPUFreq!UpdateFails
<1>3. CASE UNCHANGED <<collector, vars>>
  BY <1>0, <1>3 DEF vars
<1> QED
  BY <1>1, <1>2, <1>3 DEF UpdateNext, CPUFreq!Next

(* The series of a processor are those made of its own files.                *)
LEMMA SeriesOfCPU ==
  ASSUME FrequencyInv, collector = "cpufreq", pc = "done", NEW cpu \in DOMAIN shown
  PROVE  /\ {m \in sent : m.cpu = cpu /\ m.desc # "scaling_governor"} =
              CPUFreq!Frequencies(cpu)
         /\ CPUFreq!InFamily("scaling_governor", cpu) = CPUFreq!Governors(cpu)
<1> DEFINE Of(c) == CPUFreq!Frequencies(c) \cup CPUFreq!Governors(c)
<1>1. sent = UNION {Of(c) : c \in DOMAIN shown}
  BY DEF FrequencyInv
<1>2. ASSUME NEW c \in DOMAIN shown, NEW m \in CPUFreq!Frequencies(c)
      PROVE  m.cpu = c /\ m.desc # "scaling_governor"
  <2>1. DOMAIN shown[c].freq \subseteq
          {"CpuinfoCurrentFrequency", "CpuinfoMinimumFrequency",
           "CpuinfoMaximumFrequency", "ScalingCurrentFrequency",
           "ScalingMinimumFrequency", "ScalingMaximumFrequency"}
    BY CPUFreqAssumption DEF FrequencyInv
  <2>2. PICK f \in DOMAIN shown[c].freq :
          m = [desc |-> CPUFreq!Desc(f), cpu |-> c, value |-> 1000 * shown[c].freq[f]]
    BY DEF CPUFreq!Frequencies
  <2> QED
    BY <2>1, <2>2 DEF CPUFreq!Desc
<1>3. ASSUME NEW c \in DOMAIN shown, NEW m \in CPUFreq!Governors(c)
      PROVE  m.cpu = c /\ m.desc = "scaling_governor"
  <2>1. shown[c].Governor # ""
    BY DEF CPUFreq!Governors
  <2>2. PICK g \in CPUFreq!ToSet(shown[c].AvailableGovernors) :
          m = [desc |-> "scaling_governor", cpu |-> c, governor |-> g,
               value |-> IF g = shown[c].Governor THEN 1 ELSE 0]
    BY <2>1 DEF CPUFreq!Governors
  <2> QED
    BY <2>2
<1>4. \A m \in sent : \E c \in DOMAIN shown : m \in CPUFreq!Frequencies(c) \/ m \in CPUFreq!Governors(c)
  BY <1>1
<1>5. CPUFreq!Frequencies(cpu) \cup CPUFreq!Governors(cpu) \subseteq sent
  BY <1>1
<1> QED
  BY <1>2, <1>3, <1>4, <1>5 DEF CPUFreq!InFamily

(***************************************************************************)
(* Every frequency that could be read has a series of its own, and no      *)
(* minimum is exposed above the maximum of its kind.                       *)
(***************************************************************************)
THEOREM FrequenciesNotExchanged == UpdateSpec => []FrequenciesOrdered
<1>1. ASSUME FrequencyInv, collector = "cpufreq", pc = "done", NEW cpu \in DOMAIN shown
      PROVE  /\ Cardinality({m \in sent : m.cpu = cpu /\ m.desc # "scaling_governor"})
                  = Cardinality(DOMAIN shown[cpu].freq)
             /\ \A low \in CPUFreq!InFamily("frequency_min_hertz", cpu),
                   high \in CPUFreq!InFamily("frequency_max_hertz", cpu) :
                  low.value <= high.value
             /\ \A low \in CPUFreq!InFamily("scaling_frequency_min_hertz", cpu),
                   high \in CPUFreq!InFamily("scaling_frequency_max_hertz", cpu) :
                  low.value <= high.value
  <2> DEFINE freq == shown[cpu].freq
             fields == {"CpuinfoCurrentFrequency", "CpuinfoMinimumFrequency",
                        "CpuinfoMaximumFrequency", "ScalingCurrentFrequency",
                        "ScalingMinimumFrequency", "ScalingMaximumFrequency"}
             Series(f) == [desc |-> CPUFreq!Desc(f), cpu |-> cpu, value |-> 1000 * freq[f]]
  <2>1. /\ DOMAIN freq \subseteq fields
        /\ \A f \in DOMAIN freq : freq[f] \in Nat
    BY <1>1, CPUFreqAssumption DEF FrequencyInv
  <2>2. /\ {"CpuinfoMinimumFrequency", "CpuinfoMaximumFrequency"} \subseteq DOMAIN freq =>
             freq["CpuinfoMinimumFrequency"] <= freq["CpuinfoMaximumFrequency"]
        /\ {"ScalingMinimumFrequency", "ScalingMaximumFrequency"} \subseteq DOMAIN freq =>
             freq["ScalingMinimumFrequency"] <= freq["ScalingMaximumFrequency"]
    BY <1>1, CPUFreqAssumption DEF FrequencyInv
  <2>3. {m \in sent : m.cpu = cpu /\ m.desc # "scaling_governor"} = {Series(f) : f \in DOMAIN freq}
    BY <1>1, SeriesOfCPU DEF CPUFreq!Frequencies
  <2>4. Cardinality({Series(f) : f \in DOMAIN freq}) = Cardinality(DOMAIN freq)
    <3> DEFINE bijection == [f \in DOMAIN freq |-> Series(f)]
    <3>1. \A f, g \in fields : CPUFreq!Desc(f) = CPUFreq!Desc(g) => f = g
      BY DEF CPUFreq!Desc
    <3>2. \A f, g \in DOMAIN freq : bijection[f] = bijection[g] => f = g
      BY <2>1, <3>1
    <3>3. bijection \in [DOMAIN freq -> {Series(f) : f \in DOMAIN freq}]
      OBVIOUS
    <3>4. \A m \in {Series(f) : f \in DOMAIN freq} : \E f \in DOMAIN freq : bijection[f] = m
      OBVIOUS
    <3>5. IsFiniteSet(DOMAIN freq)
      BY <2>1, EnumeratedFinite, FS_Subset
    <3> HIDE DEF bijection, Series
    <3> QED
      BY <3>2, <3>3, <3>4, <3>5, OneToOne
  <2>5. ASSUME NEW desc, NEW m \in CPUFreq!InFamily(desc, cpu), desc # "scaling_governor"
        PROVE  \E f \in DOMAIN freq : CPUFreq!Desc(f) = desc /\ m.value = 1000 * freq[f]
    BY <2>3, <2>5 DEF CPUFreq!InFamily
  <2>6. \A f \in fields :
          /\ CPUFreq!Desc(f) = "frequency_min_hertz" => f = "CpuinfoMinimumFrequency"
          /\ CPUFreq!Desc(f) = "frequency_max_hertz" => f = "CpuinfoMaximumFrequency"
          /\ CPUFreq!Desc(f) = "scaling_frequency_min_hertz" => f = "ScalingMinimumFrequency"
          /\ CPUFreq!Desc(f) = "scaling_frequency_max_hertz" => f = "ScalingMaximumFrequency"
    BY DEF CPUFreq!Desc
  <2>7. ASSUME NEW low \in CPUFreq!InFamily("frequency_min_hertz", cpu),
               NEW high \in CPUFreq!InFamily("frequency_max_hertz", cpu)
        PROVE  low.value <= high.value
    BY <2>1, <2>2, <2>5, <2>6
  <2>8. ASSUME NEW low \in CPUFreq!InFamily("scaling_frequency_min_hertz", cpu),
               NEW high \in CPUFreq!InFamily("scaling_frequency_max_hertz", cpu)
        PROVE  low.value <= high.value
    BY <2>1, <2>2, <2>5, <2>6
  <2> QED
    BY <2>3, <2>4, <2>7, <2>8
<1>2. FrequencyInv => FrequenciesOrdered
  BY <1>1, SameCardinality DEF FrequenciesOrdered, CPUFreq!FrequenciesOrdered
<1> QED
  BY <1>2, FrequencyInit, FrequencyStep, PTL DEF UpdateSpec

(***************************************************************************)
(* Of the series of the governors of a processor exactly one is 1, that of *)
(* the governor in use, and each governor available has one.               *)
(***************************************************************************)
THEOREM OneGovernor == UpdateSpec => []GovernorOneHot
<1>1. ASSUME FrequencyInv, collector = "cpufreq", pc = "done", NEW cpu \in DOMAIN shown,
             shown[cpu].Governor # ""
      PROVE  LET series == CPUFreq!InFamily("scaling_governor", cpu)
                 set == {m \in series : m.value = 1}
             IN  /\ {m.governor : m \in set} = {shown[cpu].Governor}
                 /\ Cardinality(set) = 1
                 /\ Cardinality(series) = Len(shown[cpu].AvailableGovernors)
  <2> DEFINE available == shown[cpu].AvailableGovernors
             governor == shown[cpu].Governor
             Series(g) == [desc |-> "scaling_governor", cpu |-> cpu, governor |-> g,
                           value |-> IF g = governor THEN 1 ELSE 0]
             series == {Series(available[i]) : i \in 1..Len(available)}
             set == {m \in series : m.value = 1}
  <2>1. /\ Len(available) \in Nat /\ DOMAIN available = 1..Len(available)
        /\ \A i, j \in 1..Len(available) : available[i] = available[j] => i = j
        /\ \E i \in 1..Len(available) : available[i] = governor
    <3>1. available \in Seq(STRING)
      BY <1>1, CPUFreqAssumption DEF FrequencyInv
    <3>2. /\ \A i, j \in 1..Len(available) : available[i] = available[j] => i = j
          /\ \E i \in 1..Len(available) : available[i] = governor
      BY <1>1, CPUFreqAssumption DEF FrequencyInv
    <3> QED
      BY <3>1, <3>2
  <2>2. CPUFreq!InFamily("scaling_governor", cpu) = series
    <3>1. CPUFreq!ToSet(available) = {available[i] : i \in 1..Len(available)}
      BY <2>1 DEF CPUFreq!ToSet
    <3>2. CPUFreq!Governors(cpu) = {Series(g) : g \in CPUFreq!ToSet(available)}
      BY <1>1 DEF CPUFreq!Governors
    <3>3. CPUFreq!Governors(cpu) = series
      BY <3>1, <3>2
    <3> QED
      BY <1>1, <3>3, SeriesOfCPU
  <2>3. set = {Series(governor)}
    BY <2>1
  <2>4. Cardinality(set) = 1 /\ {m.governor : m \in set} = {governor}
    <3>1. Series(governor).governor = governor
      OBVIOUS
    <3> HIDE DEF Series, set
    <3> QED
      BY <2>3, <3>1, FS_Singleton
  <2>5. Cardinality(series) = Len(available)
    <3> DEFINE indices == 1..Len(available)
               bijection == [i \in indices |-> Series(available[i])]
    <3>1. \A i, j \in indices : bijection[i] = bijection[j] => i = j
      BY <2>1
    <3>2. bijection \in [indices -> series]
      OBVIOUS
    <3>3. \A m \in series : \E i \in indices : bijection[i] = m
      OBVIOUS
    <3>4. IsFiniteSet(indices) /\ Cardinality(indices) = Len(available)
      BY <2>1, FS_Interval
    <3> HIDE DEF bijection, series, indices
    <3>5. Cardinality(series) = Cardinality(indices)
      BY <3>1, <3>2, <3>3, <3>4, OneToOne
    <3> QED
      BY <3>4, <3>5
  <2> HIDE DEF series
  <2> QED
    BY <2>2, <2>4, <2>5
<1>2. ASSUME FrequencyInv, collector = "cpufreq", pc = "done", NEW cpu \in DOMAIN shown,
             shown[cpu].Governor = ""
      PROVE  CPUFreq!InFamily("scaling_governor", cpu) = {}
  BY <1>2, SeriesOfCPU DEF CPUFreq!Governors
<1>3. FrequencyInv => GovernorOneHot
  BY <1>1, <1>2, SameCardinality DEF GovernorOneHot, CPUFreq!GovernorOneHot
<1> QED
  BY <1>3, FrequencyInit, FrequencyStep, PTL DEF UpdateSpec

-------------------------------------------------------------------------------
(* The mount table.                                                          *)

(* What the kernel shows of the character c when it escapes those of S.      *)
Escape(S, c) ==
  IF c \in S THEN <<MountTable!Backslash, MountTable!Octal[c]>> ELSE <<c>>

(* run[i] is what it shows of the first i characters of a name.              *)
Escapes(run, S, name) ==
  /\ run[0] = <<>>
  /\ \A i \in 1..Len(name) : run[i] = run[i - 1] \o Escape(S, name[i])

(* What strings.Replace does with the next character.                        *)
ReplaceNext(out, d, c) ==
  IF d = MountTable!Octal[c] /\ out # <<>> /\ MountTable!Last(out) = MountTable!Backslash
  THEN Append(MountTable!Front(out), c)
  ELSE Append(out, d)

Replaces(run, c, name) ==
  /\ run[0] = <<>>
  /\ \A i \in 1..Len(name) : run[i] = ReplaceNext(run[i - 1], name[i], c)

Escaped == DOMAIN MountTable!Octal
Digits == {MountTable!Octal[c] : c \in Escaped}

LEMMA EscapedFacts ==
  /\ Escaped = {" ", "\t", "\n", "\\"}
  /\ MountTable!Backslash = "\\"
  /\ \A c \in Escaped : MountTable!Octal[c] \in {"040", "011", "012", "134"}
  /\ \A c, d \in Escaped : MountTable!Octal[c] = MountTable!Octal[d] => c = d
  BY DEF Escaped, MountTable!Octal, MountTable!Backslash

LEMMA EndOfSequence ==
  ASSUME NEW C, NEW s \in Seq(C), NEW d \in C
  PROVE  /\ Append(s, d) \in Seq(C) /\ Append(s, d) # <<>>
         /\ MountTable!Last(Append(s, d)) = d
         /\ MountTable!Front(Append(s, d)) = s
         /\ s \o <<d>> = Append(s, d)
<1>1. Append(s, d) \in Seq(C) /\ Len(Append(s, d)) = Len(s) + 1 /\ Len(s) \in Nat
  OBVIOUS
<1>2. Append(s, d) # <<>>
  BY <1>1
<1>3. Append(s, d)[Len(s) + 1] = d /\ SubSeq(Append(s, d), 1, Len(s)) = s
  OBVIOUS
<1>4. (Len(s) + 1) - 1 = Len(s)
  BY <1>1
<1> QED
  BY <1>1, <1>2, <1>3, <1>4 DEF MountTable!Last, MountTable!Front

LEMMA EscapeFacts ==
  ASSUME NEW C, Escaped \cup Digits \subseteq C, NEW S \in SUBSET Escaped, NEW c \in C,
         NEW s \in Seq(C)
  PROVE  /\ Escape(S, c) \in Seq(C)
         /\ c \notin S => s \o Escape(S, c) = Append(s, c)
         /\ c \in S => s \o Escape(S, c) =
                         Append(Append(s, MountTable!Backslash), MountTable!Octal[c])
<1>1. MountTable!Backslash \in C /\ (c \in S => MountTable!Octal[c] \in C)
  BY EscapedFacts DEF Digits
<1> QED
  BY <1>1 DEF Escape

(* The fold of Mangle over any set of indices.                               *)
Mangles(it, name) ==
  it = [s \in SUBSET DOMAIN name |->
          IF s = {} THEN <<>>
          ELSE it[s \ {MountTable!Max(s)}] \o
                 (IF name[MountTable!Max(s)] \in Escaped
                  THEN <<MountTable!Backslash, MountTable!Octal[name[MountTable!Max(s)]]>>
                  ELSE <<name[MountTable!Max(s)]>>)]

(* The fold of Replace.                                                      *)
ReplacesAll(it, name, c) ==
  it = [s \in SUBSET DOMAIN name |->
          IF s = {} THEN <<>>
          ELSE IF /\ name[MountTable!Max(s)] = MountTable!Octal[c]
                  /\ it[s \ {MountTable!Max(s)}] # <<>>
                  /\ MountTable!Last(it[s \ {MountTable!Max(s)}]) = MountTable!Backslash
               THEN Append(MountTable!Front(it[s \ {MountTable!Max(s)}]), c)
               ELSE Append(it[s \ {MountTable!Max(s)}], name[MountTable!Max(s)])]

LEMMA MangleFold ==
  ASSUME NEW name
  PROVE  MountTable!Mangle(name) = (CHOOSE it : Mangles(it, name))[DOMAIN name]
  BY DEF MountTable!Mangle, MountTable!FoldLeft, MountTable!MapThenFoldSet, Mangles, Escaped

LEMMA ReplaceFold ==
  ASSUME NEW name, NEW c
  PROVE  MountTable!Replace(name, c) = (CHOOSE it : ReplacesAll(it, name, c))[DOMAIN name]
  BY DEF MountTable!Replace, MountTable!FoldLeft, MountTable!MapThenFoldSet, ReplacesAll

LEMMA SameMax == \A s : MountTable!Max(s) = Max(s)
  BY DEF MountTable!Max, Max

(* There is what is shown of a name when the characters of S are escaped.    *)
LEMMA EscapesExists ==
  ASSUME NEW C, Escaped \cup Digits \subseteq C, NEW S \in SUBSET Escaped, NEW name \in Seq(C)
  PROVE  \E run : Escapes(run, S, name)
<1> DEFINE n == Len(name)
           step == [x \in Seq(C) \X (1..n) |-> x[1] \o Escape(S, name[x[2]])]
<1>1. n \in Nat /\ DOMAIN name = 1..n /\ <<>> \in Seq(C)
  OBVIOUS
<1>2. step \in [Seq(C) \X (1..n) -> Seq(C)]
  <2> SUFFICES ASSUME NEW s \in Seq(C), NEW i \in 1..n
               PROVE  s \o Escape(S, name[i]) \in Seq(C)
    OBVIOUS
  <2>1. name[i] \in C
    OBVIOUS
  <2>2. Escape(S, name[i]) \in Seq(C)
    BY <2>1, EscapeFacts
  <2> QED
    BY <2>2
<1>3. PICK run \in [0..n -> Seq(C)] : Runs(run, <<>>, step, n)
  <2> HIDE DEF n, step
  <2> QED
    BY <1>1, <1>2, RunExists
<1>4. ASSUME NEW i \in 1..n
      PROVE  run[i] = run[i - 1] \o Escape(S, name[i])
  <2>1. run[i - 1] \in Seq(C) /\ run[i] = step[<<run[i - 1], i>>]
    <3>1. i - 1 \in 0..n
      BY <1>1
    <3> HIDE DEF step, n
    <3> QED
      BY <1>3, <3>1 DEF Runs
  <2> QED
    BY <2>1
<1>5. Escapes(run, S, name)
  BY <1>3, <1>4 DEF Escapes, Runs
<1> QED
  BY <1>5

LEMMA MangleEscapes ==
  ASSUME NEW C, Escaped \cup Digits \subseteq C, NEW name \in Seq(C)
  PROVE  \E run : Escapes(run, Escaped, name) /\ MountTable!Mangle(name) = run[Len(name)]
<1> DEFINE n == Len(name)
           step == [x \in Seq(C) \X (1..n) |-> x[1] \o Escape(Escaped, name[x[2]])]
           fold == CHOOSE it : Mangles(it, name)
<1>1. n \in Nat /\ DOMAIN name = 1..n /\ <<>> \in Seq(C)
  OBVIOUS
<1>2. step \in [Seq(C) \X (1..n) -> Seq(C)]
  <2> SUFFICES ASSUME NEW s \in Seq(C), NEW i \in 1..n
               PROVE  s \o Escape(Escaped, name[i]) \in Seq(C)
    OBVIOUS
  <2>1. name[i] \in C
    OBVIOUS
  <2>2. Escape(Escaped, name[i]) \in Seq(C)
    BY <2>1, EscapeFacts
  <2> QED
    BY <2>2
<1>3. PICK it \in [SUBSET (1..n) -> Seq(C)] : Folds(it, <<>>, step, n)
  <2> HIDE DEF n, step
  <2> QED
    BY <1>1, <1>2, FoldExists
<1>4. ASSUME NEW s \in SUBSET (1..n), s # {}
      PROVE  step[<<it[s \ {Max(s)}], Max(s)>>] =
               it[s \ {Max(s)}] \o Escape(Escaped, name[Max(s)])
  <2>1. Max(s) \in 1..n /\ s \ {Max(s)} \in SUBSET (1..n)
    <3>1. Max(s) \in s
      BY <1>1, <1>4, MaxInSubset
    <3> QED
      BY <3>1
  <2> QED
    BY <1>3, <2>1
<1> HIDE DEF step
<1>5. Mangles(it, name)
  BY <1>1, <1>3, <1>4, SameMax DEF Mangles, Folds, Escape
<1>6. Mangles(fold, name)
  BY <1>5
<1> HIDE DEF fold
<1> DEFINE run == [i \in 0..n |-> fold[1..i]]
<1>7. run[0] = <<>>
  BY <1>1, <1>6 DEF Mangles
<1>8. ASSUME NEW i \in 1..n
      PROVE  run[i] = run[i - 1] \o Escape(Escaped, name[i])
  <2>1. /\ 1..i \in SUBSET DOMAIN name /\ 1..i # {}
        /\ MountTable!Max(1..i) = i /\ (1..i) \ {i} = 1..(i - 1)
    BY <1>1, FirstNumbers, SameMax
  <2>2. fold[1..i] = fold[1..(i - 1)] \o Escape(Escaped, name[i])
    BY <1>6, <2>1 DEF Mangles, Escape
  <2>3. run[i] = fold[1..i] /\ run[i - 1] = fold[1..(i - 1)]
    BY <1>1
  <2> QED
    BY <2>2, <2>3
<1>9. MountTable!Mangle(name) = run[n]
  BY <1>1, MangleFold DEF fold
<1> HIDE DEF run
<1> QED
  BY <1>7, <1>8, <1>9 DEF Escapes

(* What Replace does with the next character leaves a sequence.              *)
LEMMA NextTyped ==
  ASSUME NEW C, NEW s \in Seq(C), NEW c \in C, NEW d \in C
  PROVE  ReplaceNext(s, d, c) \in Seq(C)
<1>1. Len(s) \in Nat /\ Append(s, d) \in Seq(C)
  OBVIOUS
<1>2. CASE s # <<>>
  <2>1. Len(s) > 0
    BY <1>1, <1>2
  <2>2. SubSeq(s, 1, Len(s) - 1) \in Seq(C)
    BY <1>1, <2>1
  <2>3. Append(SubSeq(s, 1, Len(s) - 1), c) \in Seq(C)
    BY <2>2
  <2> QED
    BY <1>1, <2>3 DEF ReplaceNext, MountTable!Front
<1> QED
  BY <1>1, <1>2 DEF ReplaceNext

LEMMA ReplaceRuns ==
  ASSUME NEW C, NEW c \in C, NEW name \in Seq(C)
  PROVE  \E run : Replaces(run, c, name) /\ MountTable!Replace(name, c) = run[Len(name)]
<1> DEFINE n == Len(name)
           step == [x \in Seq(C) \X (1..n) |-> ReplaceNext(x[1], name[x[2]], c)]
           fold == CHOOSE it : ReplacesAll(it, name, c)
<1>1. n \in Nat /\ DOMAIN name = 1..n /\ <<>> \in Seq(C)
  OBVIOUS
<1>2. step \in [Seq(C) \X (1..n) -> Seq(C)]
  <2> SUFFICES ASSUME NEW s \in Seq(C), NEW i \in 1..n
               PROVE  ReplaceNext(s, name[i], c) \in Seq(C)
    OBVIOUS
  <2>1. name[i] \in C
    OBVIOUS
  <2> QED
    BY <2>1, NextTyped
<1>3. PICK it \in [SUBSET (1..n) -> Seq(C)] : Folds(it, <<>>, step, n)
  <2> HIDE DEF n, step
  <2> QED
    BY <1>1, <1>2, FoldExists
<1>4. ASSUME NEW s \in SUBSET (1..n), s # {}
      PROVE  step[<<it[s \ {Max(s)}], Max(s)>>] =
               ReplaceNext(it[s \ {Max(s)}], name[Max(s)], c)
  <2>1. Max(s) \in 1..n /\ s \ {Max(s)} \in SUBSET (1..n)
    <3>1. Max(s) \in s
      BY <1>1, <1>4, MaxInSubset
    <3> QED
      BY <3>1
  <2> QED
    BY <1>3, <2>1
<1> HIDE DEF step
<1>5. ReplacesAll(it, name, c)
  BY <1>1, <1>3, <1>4, SameMax DEF ReplacesAll, Folds, ReplaceNext
<1>6. ReplacesAll(fold, name, c)
  BY <1>5
<1> HIDE DEF fold
<1> DEFINE run == [i \in 0..n |-> fold[1..i]]
<1>7. run[0] = <<>>
  BY <1>1, <1>6 DEF ReplacesAll
<1>8. ASSUME NEW i \in 1..n
      PROVE  run[i] = ReplaceNext(run[i - 1], name[i], c)
  <2>1. /\ 1..i \in SUBSET DOMAIN name /\ 1..i # {}
        /\ MountTable!Max(1..i) = i /\ (1..i) \ {i} = 1..(i - 1)
    BY <1>1, FirstNumbers, SameMax
  <2>2. fold[1..i] = ReplaceNext(fold[1..(i - 1)], name[i], c)
    BY <1>6, <2>1 DEF ReplacesAll, ReplaceNext
  <2>3. run[i] = fold[1..i] /\ run[i - 1] = fold[1..(i - 1)]
    BY <1>1
  <2> QED
    BY <2>2, <2>3
<1>9. MountTable!Replace(name, c) = run[n]
  BY <1>1, ReplaceFold DEF fold
<1> HIDE DEF run
<1> QED
  BY <1>7, <1>8, <1>9 DEF Replaces

(* Replace goes on from what it has made of the name so far.                 *)
LEMMA ReplaceAppend ==
  ASSUME NEW C, NEW c \in C, NEW name \in Seq(C), NEW d \in C
  PROVE  MountTable!Replace(Append(name, d), c) = ReplaceNext(MountTable!Replace(name, c), d, c)
<1> DEFINE n == Len(name)
           more == Append(name, d)
<1>1. /\ n \in Nat /\ more \in Seq(C) /\ Len(more) = n + 1
      /\ more[n + 1] = d /\ \A i \in 1..n : more[i] = name[i]
  OBVIOUS
<1>2. PICK run : Replaces(run, c, name) /\ MountTable!Replace(name, c) = run[n]
  BY ReplaceRuns
<1>3. PICK longer : Replaces(longer, c, more) /\ MountTable!Replace(more, c) = longer[n + 1]
  <2> HIDE DEF more, n
  <2> QED
    BY <1>1, ReplaceRuns
<1> HIDE DEF more, n
<1> DEFINE P == {i \in 0..n : longer[i] = run[i]}
<1>4. 0 \in P
  BY <1>1, <1>2, <1>3 DEF Replaces
<1>5. ASSUME NEW i \in 1..n, i - 1 \in P
      PROVE  i \in P
  <2>1. longer[i] = ReplaceNext(longer[i - 1], more[i], c)
    BY <1>1, <1>3 DEF Replaces
  <2>2. run[i] = ReplaceNext(run[i - 1], name[i], c)
    BY <1>2 DEF Replaces, n
  <2> QED
    BY <1>1, <1>5, <2>1, <2>2
<1>6. longer[n] = run[n]
  <2>1. 0..n \subseteq P
    <3> HIDE DEF P
    <3> QED
      BY <1>1, <1>4, <1>5, IntervalInduction
  <2> QED
    BY <1>1, <2>1
<1>7. longer[n + 1] = ReplaceNext(longer[n], d, c)
  BY <1>1, <1>3 DEF Replaces
<1> QED
  BY <1>2, <1>3, <1>6, <1>7 DEF more

(* A sequence that does not end in a backslash.                              *)
Closed(s, C) ==
  /\ s \in Seq(C)
  /\ s # <<>> => MountTable!Last(s) # MountTable!Backslash

(* What is shown is one when backslashes are escaped.                        *)
LEMMA EscapesClosed ==
  ASSUME NEW C, Escaped \cup Digits \subseteq C, NEW S \in SUBSET Escaped,
         MountTable!Backslash \in S, NEW name \in Seq(C), NEW run, Escapes(run, S, name)
  PROVE  \A i \in 0..Len(name) : Closed(run[i], C)
<1> DEFINE n == Len(name)
           P == {i \in 0..n : Closed(run[i], C)}
<1>1. n \in Nat /\ <<>> \in Seq(C)
  OBVIOUS
<1>2. 0 \in P
  <2>1. Closed(run[0], C)
    BY <1>1 DEF Escapes, Closed
  <2> QED
    BY <1>1, <2>1
<1>3. ASSUME NEW i \in 1..n, i - 1 \in P
      PROVE  i \in P
  <2>1. PICK s \in Seq(C) : s = run[i - 1]
    BY <1>3 DEF Closed
  <2>2. PICK x \in C : x = name[i]
    OBVIOUS
  <2>3. run[i] = s \o Escape(S, x)
    BY <2>1, <2>2 DEF Escapes
  <2>4. /\ x \notin S => s \o Escape(S, x) = Append(s, x)
        /\ x \in S => s \o Escape(S, x) =
                        Append(Append(s, MountTable!Backslash), MountTable!Octal[x])
    BY EscapeFacts
  <2> HIDE DEF P
  <2>5. Closed(run[i], C)
    <3>1. CASE x \notin S
      <4>1. run[i] = Append(s, x) /\ x # MountTable!Backslash
        BY <2>3, <2>4, <3>1
      <4>2. run[i] \in Seq(C) /\ MountTable!Last(run[i]) = x
        BY <4>1, EndOfSequence
      <4> QED
        BY <4>1, <4>2 DEF Closed
    <3>2. CASE x \in S
      <4>1. run[i] = Append(Append(s, MountTable!Backslash), MountTable!Octal[x])
        BY <2>3, <2>4, <3>2
      <4>2. /\ MountTable!Backslash \in C /\ MountTable!Octal[x] \in C
            /\ MountTable!Octal[x] # MountTable!Backslash
        BY <3>2, EscapedFacts DEF Digits
      <4>3. Append(s, MountTable!Backslash) \in Seq(C)
        BY <4>2
      <4>4. PICK t \in Seq(C) : t = Append(s, MountTable!Backslash)
        BY <4>3
      <4>5. PICK o \in C : o = MountTable!Octal[x]
        BY <4>2
      <4>6. run[i] = Append(t, o)
        BY <4>1, <4>4, <4>5
      <4>7. Append(t, o) \in Seq(C) /\ MountTable!Last(Append(t, o)) = o
        BY EndOfSequence
      <4> QED
        BY <4>2, <4>5, <4>6, <4>7 DEF Closed
    <3> QED
      BY <3>1, <3>2
  <2> QED
    BY <2>5 DEF P
<1>4. 0..n \subseteq P
  <2> HIDE DEF P, n
  <2> QED
    BY <1>1, <1>2, <1>3, IntervalInduction
<1> QED
  BY <1>4

LEMMA ReplaceEmpty ==
  ASSUME NEW C, NEW c \in C
  PROVE  MountTable!Replace(<<>>, c) = <<>>
<1>1. <<>> \in Seq(C) /\ Len(<<>>) = 0
  OBVIOUS
<1>2. PICK run : Replaces(run, c, <<>>) /\ MountTable!Replace(<<>>, c) = run[Len(<<>>)]
  BY <1>1, ReplaceRuns
<1> QED
  BY <1>1, <1>2 DEF Replaces

(* Replace undoes the escaping of its character and of no other.             *)
LEMMA ReplaceUnescapes ==
  ASSUME NEW C, Escaped \cup Digits \subseteq C, NEW S \in SUBSET Escaped,
         MountTable!Backslash \in S, NEW c \in S, c # MountTable!Backslash,
         NEW name \in Seq(C), NEW before, Escapes(before, S, name),
         NEW after, Escapes(after, S \ {c}, name)
  PROVE  MountTable!Replace(before[Len(name)], c) = after[Len(name)]
<1> DEFINE n == Len(name)
           P == {i \in 0..n : MountTable!Replace(before[i], c) = after[i]}
           b == MountTable!Backslash
<1>1. n \in Nat /\ c \in C
  OBVIOUS
<1>2. \A i \in 0..n : Closed(before[i], C)
  BY EscapesClosed
<1>3. \A i \in 0..n : Closed(after[i], C)
  <2> DEFINE T == S \ {c}
  <2>1. T \in SUBSET Escaped /\ MountTable!Backslash \in T
    OBVIOUS
  <2> HIDE DEF T
  <2> QED
    BY <2>1, EscapesClosed DEF T
<1>4. 0 \in P
  <2>1. MountTable!Replace(before[0], c) = after[0]
    BY <1>1, ReplaceEmpty DEF Escapes
  <2> QED
    BY <1>1, <2>1
<1>5. ASSUME NEW i \in 1..n, i - 1 \in P
      PROVE  i \in P
  <2>1. i - 1 \in 0..n
    OBVIOUS
  <2>2. PICK s \in Seq(C) : s = before[i - 1]
    BY <1>2, <2>1 DEF Closed
  <2>3. PICK t \in Seq(C) : /\ t = after[i - 1] /\ t = MountTable!Replace(s, c)
                            /\ t # <<>> => MountTable!Last(t) # b
    BY <1>3, <1>5, <2>1, <2>2 DEF Closed
  <2>4. PICK x \in C : x = name[i]
    OBVIOUS
  <2>5. before[i] = s \o Escape(S, x) /\ after[i] = t \o Escape(S \ {c}, x)
    BY <2>2, <2>3, <2>4 DEF Escapes
  <2>6. /\ x \notin S => s \o Escape(S, x) = Append(s, x)
        /\ x \in S => s \o Escape(S, x) = Append(Append(s, b), MountTable!Octal[x])
    BY EscapeFacts
  <2>7. /\ x \notin S \ {c} => t \o Escape(S \ {c}, x) = Append(t, x)
        /\ x \in S \ {c} => t \o Escape(S \ {c}, x) = Append(Append(t, b), MountTable!Octal[x])
    <3>1. PICK T \in SUBSET Escaped : T = S \ {c}
      OBVIOUS
    <3>2. /\ x \notin T => t \o Escape(T, x) = Append(t, x)
          /\ x \in T => t \o Escape(T, x) = Append(Append(t, b), MountTable!Octal[x])
      <4>1. b \in C /\ (x \in T => MountTable!Octal[x] \in C)
        BY EscapedFacts DEF Digits
      <4> QED
        BY <4>1 DEF Escape
    <3> QED
      BY <3>1, <3>2
  <2> HIDE DEF P, b
  <2>8. MountTable!Replace(before[i], c) = after[i]
    <3>1. CASE x \notin S
      <4>1. before[i] = Append(s, x) /\ after[i] = Append(t, x)
        BY <2>5, <2>6, <2>7, <3>1
      <4>2. MountTable!Replace(before[i], c) = ReplaceNext(t, x, c)
        BY <1>1, <2>3, <4>1, ReplaceAppend
      <4>3. t = <<>> \/ MountTable!Last(t) # MountTable!Backslash
        BY <2>3 DEF b
      <4> QED
        BY <4>1, <4>2, <4>3 DEF ReplaceNext
    <3>2. CASE x \in S
      <4> DEFINE o == MountTable!Octal[x]
      <4>1. b \in C /\ o \in C /\ b # MountTable!Octal[c] /\ (o = MountTable!Octal[c] => x = c)
        BY <3>2, EscapedFacts DEF Digits, b
      <4>2. before[i] = Append(Append(s, b), o) /\ Append(s, b) \in Seq(C)
        BY <2>5, <2>6, <3>2, <4>1
      <4>3. MountTable!Replace(before[i], c) =
              ReplaceNext(MountTable!Replace(Append(s, b), c), o, c)
        BY <1>1, <4>1, <4>2, ReplaceAppend
      <4>4. MountTable!Replace(Append(s, b), c) = ReplaceNext(t, b, c)
        BY <1>1, <2>3, <4>1, ReplaceAppend
      <4>5. ReplaceNext(t, b, c) = Append(t, b)
        BY <4>1 DEF ReplaceNext
      <4>6. /\ Append(t, b) # <<>> /\ MountTable!Last(Append(t, b)) = b
            /\ MountTable!Front(Append(t, b)) = t
        BY <4>1, EndOfSequence
      <4>7. CASE x = c
        <5>1. after[i] = Append(t, c)
          BY <2>5, <2>7, <4>7
        <5>2. ReplaceNext(Append(t, b), o, c) = Append(t, c)
          BY <4>6, <4>7 DEF ReplaceNext, b
        <5> QED
          BY <4>3, <4>4, <4>5, <5>1, <5>2
      <4>8. CASE x # c
        <5>1. after[i] = Append(Append(t, b), o)
          BY <2>5, <2>7, <3>2, <4>8
        <5>2. ReplaceNext(Append(t, b), o, c) = Append(Append(t, b), o)
          BY <4>1, <4>8 DEF ReplaceNext
        <5> QED
          BY <4>3, <4>4, <4>5, <5>1, <5>2
      <4> QED
        BY <4>7, <4>8
    <3> QED
      BY <3>1, <3>2
  <2> QED
    BY <2>8 DEF P
<1>6. 0..n \subseteq P
  <2> HIDE DEF P, n
  <2> QED
    BY <1>1, <1>4, <1>5, IntervalInduction
<1> QED
  BY <1>1, <1>6

(* What is shown of a name of C, when backslashes are among what is escaped. *)
Shows(run, S, name, C) ==
  /\ Escaped \cup Digits \subseteq C
  /\ S \in SUBSET Escaped
  /\ MountTable!Backslash \in S
  /\ name \in Seq(C)
  /\ Escapes(run, S, name)

LEMMA ReplaceShown ==
  ASSUME NEW C, NEW S, NEW name, NEW c, c # MountTable!Backslash, c \in S,
         NEW before, Shows(before, S, name, C),
         NEW T, T = S \ {c}, NEW after, Escapes(after, T, name)
  PROVE  MountTable!Replace(before[Len(name)], c) = after[Len(name)]
<1> USE DEF Shows
<1>1. Escaped \cup Digits \subseteq C /\ S \in SUBSET Escaped /\ name \in Seq(C)
  OBVIOUS
<1>2. /\ MountTable!Backslash \in S /\ Escapes(before, S, name)
      /\ Escapes(after, S \ {c}, name)
  OBVIOUS
<1> QED
  BY <1>1, <1>2, ReplaceUnescapes

(* What remains escaped of a name when it has been translated.               *)
Kept == Escaped \ {" ", "\t"}

LEMMA TranslateUnescapes ==
  ASSUME NEW C, Escaped \cup Digits \subseteq C, NEW name \in Seq(C)
  PROVE  \E run : /\ Escapes(run, Kept, name)
                  /\ MountTable!Translate(MountTable!Mangle(name)) = run[Len(name)]
<1>1. PICK all : Escapes(all, Escaped, name) /\ MountTable!Mangle(name) = all[Len(name)]
  BY MangleEscapes
<1>2. PICK S \in SUBSET Escaped : S = Escaped \ {" "}
  OBVIOUS
<1>3. PICK T \in SUBSET Escaped : T = Kept
  BY DEF Kept
<1>4. PICK some : Escapes(some, S, name)
  BY EscapesExists
<1>5. PICK run : Escapes(run, T, name)
  BY EscapesExists
<1>6. /\ " " \in Escaped /\ "\t" \in S /\ " " # MountTable!Backslash
      /\ "\t" # MountTable!Backslash
      /\ MountTable!Backslash \in Escaped /\ MountTable!Backslash \in S
      /\ T = S \ {"\t"}
  BY <1>2, <1>3, EscapedFacts DEF Kept
<1>7. MountTable!Replace(all[Len(name)], " ") = some[Len(name)]
  <2>1. PICK c : c = " "
    OBVIOUS
  <2>2. /\ Shows(all, Escaped, name, C) /\ S = Escaped \ {c}
        /\ c \in Escaped /\ c # MountTable!Backslash
    BY <1>1, <1>2, <1>6, <2>1 DEF Shows
  <2>3. MountTable!Replace(all[Len(name)], c) = some[Len(name)]
    BY <1>4, <2>2, ReplaceShown
  <2> QED
    BY <2>1, <2>3
<1>8. MountTable!Replace(some[Len(name)], "\t") = run[Len(name)]
  <2>1. PICK c : c = "\t"
    OBVIOUS
  <2>2. Shows(some, S, name, C) /\ T = S \ {c} /\ c \in S /\ c # MountTable!Backslash
    BY <1>4, <1>6, <2>1 DEF Shows
  <2>3. MountTable!Replace(some[Len(name)], c) = run[Len(name)]
    BY <1>5, <2>2, ReplaceShown
  <2> QED
    BY <2>1, <2>3
<1> QED
  BY <1>1, <1>3, <1>5, <1>7, <1>8 DEF MountTable!Translate

(* A name none of whose characters is escaped is shown as it is.             *)
LEMMA PlainUnchanged ==
  ASSUME NEW C, NEW S, NEW name \in Seq(C), \A i \in 1..Len(name) : name[i] \notin S,
         NEW run, Escapes(run, S, name)
  PROVE  run[Len(name)] = name
<1> DEFINE n == Len(name)
           Same(i) == /\ run[i] \in Seq(C) /\ Len(run[i]) = i
                      /\ \A k \in 1..i : run[i][k] = name[k]
           P == {i \in 0..n : Same(i)}
<1>1. n \in Nat /\ <<>> \in Seq(C)
  OBVIOUS
<1>2. 0 \in P
  <2>1. run[0] = <<>> /\ Len(<<>>) = 0 /\ 1..0 = {}
    BY DEF Escapes
  <2>2. Same(0)
    BY <1>1, <2>1
  <2> HIDE DEF Same
  <2> QED
    BY <1>1, <2>2
<1>3. ASSUME NEW i \in 1..n, i - 1 \in P
      PROVE  i \in P
  <2>1. PICK s \in Seq(C) : s = run[i - 1] /\ Len(s) = i - 1 /\ \A k \in 1..(i - 1) : s[k] = name[k]
    BY <1>3
  <2>2. PICK x \in C : x = name[i] /\ x \notin S
    OBVIOUS
  <2>3. run[i] = s \o <<x>>
    BY <2>1, <2>2 DEF Escapes, Escape
  <2>4. s \o <<x>> = Append(s, x)
    OBVIOUS
  <2>5. Append(s, x) \in Seq(C) /\ Len(Append(s, x)) = i
    BY <2>1
  <2>6. ASSUME NEW k \in 1..i
        PROVE  Append(s, x)[k] = name[k]
    BY <2>1, <2>2
  <2>7. Same(i)
    BY <2>3, <2>4, <2>5, <2>6
  <2> HIDE DEF Same
  <2> QED
    BY <2>7
<1>4. 0..n \subseteq P
  <2> HIDE DEF P, n
  <2> QED
    BY <1>1, <1>2, <1>3, IntervalInduction
<1>5. PICK s \in Seq(C) : s = run[n] /\ Len(s) = n /\ \A k \in 1..n : s[k] = name[k]
  BY <1>1, <1>4
<1> QED
  BY <1>5

LEMMA AppendSame ==
  ASSUME NEW C, NEW s \in Seq(C), NEW t \in Seq(C), NEW x \in C, NEW y \in C,
         Append(s, x) = Append(t, y)
  PROVE  s = t /\ x = y
<1>1. /\ MountTable!Last(Append(s, x)) = x /\ MountTable!Front(Append(s, x)) = s
      /\ MountTable!Last(Append(t, y)) = y /\ MountTable!Front(Append(t, y)) = t
  BY EndOfSequence
<1> QED
  BY <1>1

(* The last character of a name, as it is shown.                             *)
ShownLast(run, S, name, C, i) ==
  /\ Closed(run[i - 1], C) /\ name[i] \in C
  /\ name[i] \notin S => run[i] = Append(run[i - 1], name[i])
  /\ name[i] \in S =>
       /\ MountTable!Octal[name[i]] \in C /\ MountTable!Backslash \in C
       /\ Append(run[i - 1], MountTable!Backslash) \in Seq(C)
       /\ run[i] = Append(Append(run[i - 1], MountTable!Backslash), MountTable!Octal[name[i]])

LEMMA LastShown ==
  ASSUME NEW C, NEW S, NEW name, NEW run, Shows(run, S, name, C), NEW i \in 1..Len(name)
  PROVE  ShownLast(run, S, name, C, i)
<1> USE DEF Shows
<1>1. i - 1 \in 0..Len(name)
  OBVIOUS
<1>2. Closed(run[i - 1], C)
  BY <1>1, EscapesClosed
<1>3. PICK s \in Seq(C) : s = run[i - 1]
  BY <1>2 DEF Closed
<1>4. PICK x \in C : x = name[i]
  OBVIOUS
<1>5. run[i] = s \o Escape(S, x)
  BY <1>3, <1>4 DEF Escapes
<1>6. /\ x \notin S => s \o Escape(S, x) = Append(s, x)
      /\ x \in S => s \o Escape(S, x) =
                      Append(Append(s, MountTable!Backslash), MountTable!Octal[x])
  BY EscapeFacts
<1>7. MountTable!Backslash \in C /\ (x \in S => MountTable!Octal[x] \in C)
  BY EscapedFacts DEF Digits
<1>8. Append(s, MountTable!Backslash) \in Seq(C)
  BY <1>7
<1> QED
  BY <1>2, <1>3, <1>4, <1>5, <1>6, <1>7, <1>8 DEF ShownLast

(* Names that are shown alike while backslashes are escaped are the same.    *)
LEMMA EscapesDistinct ==
  ASSUME NEW C, NEW S, NEW p, NEW q, NEW runP, Shows(runP, S, p, C),
         NEW runQ, Shows(runQ, S, q, C), runP[Len(p)] = runQ[Len(q)]
  PROVE  p = q
<1> DEFINE m == Len(p)
           n == Len(q)
           b == MountTable!Backslash
           Same(i, j) == i = j /\ \A k \in 1..i : p[k] = q[k]
           P == {i \in 0..m : \A j \in 0..n : runP[i] = runQ[j] => Same(i, j)}
<1>1. /\ p \in Seq(C) /\ q \in Seq(C) /\ m \in Nat /\ n \in Nat
      /\ runP[0] = <<>> /\ runQ[0] = <<>> /\ S \subseteq Escaped
  BY DEF Shows, Escapes
<1>2. ASSUME NEW name, NEW run, Shows(run, S, name, C), NEW i \in 1..Len(name)
      PROVE  run[i] # <<>>
  <2>1. ShownLast(run, S, name, C, i)
    BY <1>2, LastShown
  <2>2. \E s \in Seq(C), x \in C : run[i] = Append(s, x)
    BY <2>1 DEF ShownLast, Closed
  <2> QED
    BY <2>2, EndOfSequence
<1>3. 0 \in P
  <2> SUFFICES ASSUME NEW j \in 0..n, runP[0] = runQ[j] PROVE j = 0
    BY <1>1
  <2>1. CASE j \in 1..n
    <3>1. runQ[j] # <<>>
      BY <1>2, <2>1
    <3> QED
      BY <1>1, <3>1
  <2> QED
    BY <1>1, <2>1
<1>4. ASSUME NEW i \in 1..m, i - 1 \in P, NEW j \in 1..n, runP[i] = runQ[j]
      PROVE  runP[i - 1] = runQ[j - 1] /\ p[i] = q[j]
  <2>0. ShownLast(runP, S, p, C, i) /\ ShownLast(runQ, S, q, C, j)
    BY LastShown
  <2>1. PICK s \in Seq(C) : s = runP[i - 1] /\ (s # <<>> => MountTable!Last(s) # b)
    BY <2>0 DEF ShownLast, Closed
  <2>2. PICK t \in Seq(C) : t = runQ[j - 1] /\ (t # <<>> => MountTable!Last(t) # b)
    BY <2>0 DEF ShownLast, Closed
  <2>3. PICK x \in C : x = p[i]
    BY <2>0 DEF ShownLast
  <2>4. PICK y \in C : y = q[j]
    BY <2>0 DEF ShownLast
  <2>5. /\ x \notin S => runP[i] = Append(s, x)
        /\ x \in S => /\ MountTable!Octal[x] \in C /\ b \in C /\ Append(s, b) \in Seq(C)
                      /\ runP[i] = Append(Append(s, b), MountTable!Octal[x])
    BY <2>0, <2>1, <2>3 DEF ShownLast
  <2>6. /\ y \notin S => runQ[j] = Append(t, y)
        /\ y \in S => /\ MountTable!Octal[y] \in C /\ b \in C /\ Append(t, b) \in Seq(C)
                      /\ runQ[j] = Append(Append(t, b), MountTable!Octal[y])
    BY <2>0, <2>2, <2>4 DEF ShownLast
  <2>7. b \in C => /\ Append(s, b) # <<>> /\ MountTable!Last(Append(s, b)) = b
                   /\ Append(t, b) # <<>> /\ MountTable!Last(Append(t, b)) = b
    BY EndOfSequence
  <2> HIDE DEF b
  <2>8. CASE x \notin S /\ y \notin S
    <3>1. s = t /\ x = y
      BY <1>4, <2>5, <2>6, <2>8, AppendSame
    <3> QED
      BY <2>1, <2>2, <2>3, <2>4, <3>1
  <2>9. CASE x \notin S /\ y \in S
    <3>1. s = Append(t, b)
      <4>1. PICK u \in Seq(C) : u = Append(t, b)
        BY <2>6, <2>9
      <4>2. PICK o \in C : o = MountTable!Octal[y]
        BY <2>6, <2>9
      <4>3. Append(s, x) = Append(u, o)
        BY <1>4, <2>5, <2>6, <2>9, <4>1, <4>2
      <4>4. s = u
        BY <4>3, AppendSame
      <4> QED
        BY <4>1, <4>4
    <3> QED
      BY <2>1, <2>6, <2>7, <2>9, <3>1
  <2>10. CASE x \in S /\ y \notin S
    <3>1. t = Append(s, b)
      <4>1. PICK u \in Seq(C) : u = Append(s, b)
        BY <2>5, <2>10
      <4>2. PICK o \in C : o = MountTable!Octal[x]
        BY <2>5, <2>10
      <4>3. Append(t, y) = Append(u, o)
        BY <1>4, <2>5, <2>6, <2>10, <4>1, <4>2
      <4>4. t = u
        BY <4>3, AppendSame
      <4> QED
        BY <4>1, <4>4
    <3> QED
      BY <2>2, <2>5, <2>7, <2>10, <3>1
  <2>11. CASE x \in S /\ y \in S
    <3>1. PICK u \in Seq(C) : u = Append(s, b)
      BY <2>5, <2>11
    <3>2. PICK v \in Seq(C) : v = Append(t, b)
      BY <2>6, <2>11
    <3>3. PICK o \in C : o = MountTable!Octal[x]
      BY <2>5, <2>11
    <3>4. PICK w \in C : w = MountTable!Octal[y]
      BY <2>6, <2>11
    <3>5. Append(u, o) = Append(v, w)
      BY <1>4, <2>5, <2>6, <2>11, <3>1, <3>2, <3>3, <3>4
    <3>6. u = v /\ o = w
      BY <3>5, AppendSame
    <3>7. s = t
      <4>1. PICK c \in C : c = b
        BY <2>5, <2>11
      <4>2. Append(s, c) = Append(t, c)
        BY <3>1, <3>2, <3>6, <4>1
      <4> QED
        BY <4>2, AppendSame
    <3>8. x = y
      BY <1>1, <2>11, <3>3, <3>4, <3>6, EscapedFacts
    <3> QED
      BY <2>1, <2>2, <2>3, <2>4, <3>7, <3>8
  <2> QED
    BY <2>8, <2>9, <2>10, <2>11
<1>5. ASSUME NEW i \in 1..m, i - 1 \in P
      PROVE  i \in P
  <2> SUFFICES ASSUME NEW j \in 0..n, runP[i] = runQ[j]
               PROVE  Same(i, j)
    OBVIOUS
  <2>1. j # 0
    BY <1>1, <1>2, <1>5
  <2>2. runP[i - 1] = runQ[j - 1] /\ p[i] = q[j]
    BY <1>4, <1>5, <2>1
  <2>3. i - 1 = j - 1 /\ \A k \in 1..(i - 1) : p[k] = q[k]
    BY <1>1, <1>5, <2>1, <2>2
  <2> QED
    BY <1>1, <2>2, <2>3
<1>6. 0..m \subseteq P
  <2> HIDE DEF P, m, n
  <2> QED
    BY <1>1, <1>3, <1>5, IntervalInduction
<1>7. m = n /\ \A k \in 1..m : p[k] = q[k]
  BY <1>1, <1>6
<1> QED
  BY <1>1, <1>7

-------------------------------------------------------------------------------
(* The table is read once, and what is sent is translated line by line.      *)
MountInv ==
  collector = "filesystem" =>
    /\ past \in Pairs(MountPointNames)
    /\ DOMAIN shown = DOMAIN past
    /\ \A i \in DOMAIN past : shown[i].mountPoint = MountTable!Mangle(past[i])
    /\ pc = "done" =>
         \A i \in DOMAIN past : sent[i] = MountTable!Translate(MountTable!Mangle(past[i]))

LEMMA MountInit == UpdateInit => MountInv
<1> SUFFICES ASSUME UpdateInit, collector = "filesystem" PROVE MountInv
  BY DEF MountInv
<1>1. PICK names \in Pairs(MountPointNames), fields \in Pairs(FieldCounts) :
        MountTable!InitWith(names, fields)
  BY DEF UpdateInit
<1> QED
  BY <1>1 DEF MountInv, MountTable!InitWith

LEMMA MountStep == MountInv /\ [UpdateNext]_<<collector, vars>> => MountInv'
<1> SUFFICES ASSUME MountInv, [UpdateNext]_<<collector, vars>>, collector' = "filesystem"
             PROVE  MountInv'
  BY DEF MountInv
<1>1. CASE UNCHANGED <<collector, vars>>
  <2>1. /\ collector' = collector /\ shown' = shown /\ pc' = pc /\ past' = past
        /\ sent' = sent
    BY <1>1 DEF vars
  <2> QED
    BY <2>1 DEF MountInv
<1>2. CASE UpdateNext
  <2>1. collector = "filesystem" /\ MountTable!Next
    BY <1>2 DEF UpdateNext
  <2>2. shown' = shown /\ past' = past /\ pc = "idle" /\ collector' = collector
    BY <1>2, <2>1 DEF UpdateNext, MountTable!Next, MountTable!parseFilesystemLabels,
                      MountTable!MountPointDetailsFails
  <2>3. pc' = "done" => sent' = [i \in DOMAIN shown |-> MountTable!Translate(shown[i].mountPoint)]
    BY <2>1 DEF MountTable!Next, MountTable!parseFilesystemLabels,
                MountTable!MountPointDetailsFails
  <2> QED
    BY <2>1, <2>2, <2>3 DEF MountInv
<1> QED
  BY <1>1, <1>2

(* The characters of a mount point are those of its name.                    *)
LEMMA NamesTyped ==
  ASSUME NEW names \in Pairs(MountPointNames), NEW i \in DOMAIN names
  PROVE  /\ names[i] \in Seq({names[i][k] : k \in DOMAIN names[i]})
         /\ DOMAIN names[i] = 1..Len(names[i])
<1>1. names[i] \in MountPointNames
  BY DEF Pairs
<1>2. PICK name : name = names[i]
  OBVIOUS
<1>3. name \in Seq({name[k] : k \in DOMAIN name})
  BY <1>1, <1>2, MountTableAssumption
<1>4. DOMAIN name = 1..Len(name)
  BY <1>3
<1> QED
  BY <1>2, <1>3, <1>4

LEMMA KeptFacts == Kept = {"\n", MountTable!Backslash} /\ Kept \in SUBSET Escaped
  BY EscapedFacts DEF Kept

(* A mount point is returned under the name it was mounted on.               *)
LEMMA MountPointsReturned ==
  ASSUME MountInv, collector = "filesystem", pc = "done", NEW i \in DOMAIN past,
         MountTable!Plain(past[i])
  PROVE  sent[i] = past[i]
<1>1. past \in Pairs(MountPointNames)
  BY DEF MountInv
<1>2. PICK name : name = past[i]
  OBVIOUS
<1> DEFINE C == {name[k] : k \in DOMAIN name} \cup Escaped \cup Digits
<1>3. name \in Seq({name[k] : k \in DOMAIN name}) /\ DOMAIN name = 1..Len(name)
  BY <1>1, <1>2, NamesTyped
<1>4. name \in Seq(C) /\ Escaped \cup Digits \subseteq C
  BY <1>3
<1>5. \A k \in 1..Len(name) : name[k] \notin Kept
  BY <1>2, <1>3, KeptFacts DEF MountTable!Plain
<1> HIDE DEF C
<1>6. PICK run : /\ Escapes(run, Kept, name)
                 /\ MountTable!Translate(MountTable!Mangle(name)) = run[Len(name)]
  BY <1>4, TranslateUnescapes
<1>7. run[Len(name)] = name
  BY <1>4, <1>5, <1>6, PlainUnchanged
<1> QED
  BY <1>2, <1>6, <1>7 DEF MountInv

(* Mount points that are returned under one name are one and the same.       *)
LEMMA MountPointsApart ==
  ASSUME MountInv, collector = "filesystem", pc = "done",
         NEW i \in DOMAIN past, NEW j \in DOMAIN past, sent[i] = sent[j]
  PROVE  past[i] = past[j]
<1>1. past \in Pairs(MountPointNames)
  BY DEF MountInv
<1>2. PICK p : p = past[i]
  OBVIOUS
<1>3. PICK q : q = past[j]
  OBVIOUS
<1> DEFINE A == {p[k] : k \in DOMAIN p}
           B == {q[k] : k \in DOMAIN q}
           C == A \cup B \cup Escaped \cup Digits
<1>4. p \in Seq(A) /\ q \in Seq(B)
  BY <1>1, <1>2, <1>3, NamesTyped
<1>5. p \in Seq(C) /\ q \in Seq(C) /\ Escaped \cup Digits \subseteq C
  BY <1>4
<1> HIDE DEF C
<1>6. PICK runP : /\ Escapes(runP, Kept, p)
                  /\ MountTable!Translate(MountTable!Mangle(p)) = runP[Len(p)]
  BY <1>5, TranslateUnescapes
<1>7. PICK runQ : /\ Escapes(runQ, Kept, q)
                  /\ MountTable!Translate(MountTable!Mangle(q)) = runQ[Len(q)]
  BY <1>5, TranslateUnescapes
<1>8. runP[Len(p)] = runQ[Len(q)]
  BY <1>2, <1>3, <1>6, <1>7 DEF MountInv
<1>9. Kept \in SUBSET Escaped /\ MountTable!Backslash \in Kept
  BY KeptFacts
<1>10. Shows(runP, Kept, p, C) /\ Shows(runQ, Kept, q, C)
  BY <1>5, <1>6, <1>7, <1>9 DEF Shows
<1>11. p = q
  BY <1>8, <1>10, EscapesDistinct
<1> QED
  BY <1>2, <1>3, <1>11

(***************************************************************************)
(* A mount point is returned under the name it was mounted on, spaces and  *)
(* tabs included, whatever its characters are, unless one of them is a     *)
(* newline or a backslash; and, with these too, no two are returned under  *)
(* one name: the translation takes nothing in a name for an escaped space  *)
(* or tab that the kernel did not escape (parseFilesystemLabels).          *)
(***************************************************************************)
THEOREM MountPointsReturn == UpdateSpec => []MountPointsKept
<1>1. MountInv => MountPointsKept
  BY MountPointsReturned, MountPointsApart DEF MountPointsKept, MountTable!MountPointsKept
<1> QED
  BY <1>1, MountInit, MountStep, PTL DEF UpdateSpec

-------------------------------------------------------------------------------
(* meminfo.                                                                  *)

LEMMA SameMemInfoCardinality == \A S : MemInfo!Cardinality(S) = Cardinality(S)
  BY Zenon DEF MemInfo!Cardinality, Cardinality

(* What parseMemInfo does with the next line.                                *)
ParseNext(acc, line) == IF acc.err = "" THEN MemInfo!ParseLine(acc.info, line) ELSE acc

(* run[i] is what it has made of the first i lines.                          *)
Parses(run, file) ==
  /\ run[0] = MemInfo!Parsed(<<>>)
  /\ \A i \in 1..Len(file) : run[i] = ParseNext(run[i - 1], file[i])

(* The fold of parseMemInfo over any set of lines.                           *)
ParsesAll(it, file) ==
  it = [s \in SUBSET DOMAIN file |->
          IF s = {} THEN MemInfo!Parsed(<<>>)
          ELSE IF it[s \ {MemInfo!Max(s)}].err = ""
               THEN MemInfo!ParseLine(it[s \ {MemInfo!Max(s)}].info, file[MemInfo!Max(s)])
               ELSE it[s \ {MemInfo!Max(s)}]]

LEMMA ParseFold ==
  ASSUME NEW file
  PROVE  MemInfo!parseMemInfo(file) = (CHOOSE it : ParsesAll(it, file))[DOMAIN file]
  BY DEF MemInfo!parseMemInfo, MemInfo!FoldLeft, MemInfo!MapThenFoldSet, ParsesAll

LEMMA SameMemInfoMax == \A s : MemInfo!Max(s) = Max(s)
  BY DEF MemInfo!Max, Max

(* The name of the metric of a line.                                         *)
MetricName(line) ==
  IF line.fields = 3 THEN Append(MemInfo!Key(line), "bytes") ELSE MemInfo!Key(line)

MetricNames == Seq(STRING \cup {"bytes"})

(* What parseMemInfo may have made so far.                                   *)
Infos == UNION {[names -> Int] : names \in SUBSET MetricNames}
ParseErrors == {"index out of range", "invalid value", "invalid line"}
ParseStates == [err : {""} \cup ParseErrors, info : Infos]

LEMMA StatesTyped ==
  /\ \A info \in Infos : MemInfo!Parsed(info) \in ParseStates
  /\ \A err \in ParseErrors : MemInfo!Failed(err) \in ParseStates
  /\ \A acc \in ParseStates : acc.info \in Infos
<1>1. <<>> \in Infos
  <2>1. <<>> \in [{} -> Int] /\ {} \in SUBSET MetricNames
    OBVIOUS
  <2> QED
    BY <2>1 DEF Infos
<1> QED
  BY <1>1 DEF ParseStates, MemInfo!Parsed, MemInfo!Failed

Good(line) == line.fields \in Nat /\ line.value \in Int /\ MemInfo!Key(line) \in Seq(STRING)

(* A line is added to what has been parsed, or ends the parsing.             *)
LineAdded(info, line, parsed) ==
  \/ line.fields = 0 /\ parsed = MemInfo!Parsed(info)
  \/ /\ line.fields \in {2, 3}
     /\ \E value \in Int : parsed = MemInfo!Parsed(MemInfo!Put(info, MetricName(line), value))
  \/ \E err \in ParseErrors : parsed = MemInfo!Failed(err)

LEMMA LineParsed ==
  ASSUME NEW info, NEW line, Good(line)
  PROVE  LineAdded(info, line, MemInfo!ParseLine(info, line))
<1> DEFINE parsed == MemInfo!ParseLine(info, line)
<1>1. line.fields \in Nat /\ line.value \in Int /\ 1024 * line.value \in Int
  BY DEF Good
<1>2. CASE line.fields = 0
  <2>1. parsed = MemInfo!Parsed(info)
    BY <1>2 DEF MemInfo!ParseLine
  <2> QED
    BY <1>2, <2>1 DEF LineAdded
<1>3. CASE line.fields = 2 /\ line.value # -1
  <2>1. parsed = MemInfo!Parsed(MemInfo!Put(info, MetricName(line), line.value))
    BY <1>3 DEF MemInfo!ParseLine, MetricName, MemInfo!NotANumber
  <2> QED
    BY <1>1, <1>3, <2>1 DEF LineAdded
<1>4. CASE line.fields = 3 /\ line.value # -1
  <2>1. parsed = MemInfo!Parsed(MemInfo!Put(info, MetricName(line), 1024 * line.value))
    BY <1>4 DEF MemInfo!ParseLine, MetricName, MemInfo!NotANumber
  <2> QED
    BY <1>1, <1>4, <2>1 DEF LineAdded
<1>5. CASE line.fields = 1
  <2>1. parsed = MemInfo!Failed("index out of range")
    BY <1>5 DEF MemInfo!ParseLine
  <2> HIDE DEF parsed
  <2> QED
    BY <2>1 DEF LineAdded, ParseErrors, parsed
<1>6. CASE line.fields > 1 /\ line.value = -1
  <2>1. line.fields # 0 /\ line.fields # 1
    BY <1>1, <1>6
  <2>2. parsed = MemInfo!Failed("invalid value")
    BY <1>6, <2>1 DEF MemInfo!ParseLine, MemInfo!NotANumber
  <2> HIDE DEF parsed
  <2> QED
    BY <2>2 DEF LineAdded, ParseErrors, parsed
<1>7. CASE line.fields \notin {0, 1, 2, 3} /\ line.value # -1
  <2>1. parsed = MemInfo!Failed("invalid line")
    BY <1>1, <1>7 DEF MemInfo!ParseLine, MemInfo!NotANumber
  <2> HIDE DEF parsed
  <2> QED
    BY <2>1 DEF LineAdded, ParseErrors, parsed
<1> HIDE DEF parsed
<1>8. line.fields \in {0, 1, 2, 3} \/ line.fields > 1
  BY <1>1
<1>9. LineAdded(info, line, parsed)
  BY <1>1, <1>2, <1>3, <1>4, <1>5, <1>6, <1>7, <1>8 DEF parsed
<1> QED
  BY <1>9 DEF parsed

LEMMA PutTyped ==
  ASSUME NEW names \in SUBSET MetricNames, NEW info \in [names -> Int], NEW line, Good(line),
         NEW value \in Int
  PROVE  /\ names \cup {MetricName(line)} \in SUBSET MetricNames
         /\ MemInfo!Put(info, MetricName(line), value) \in [names \cup {MetricName(line)} -> Int]
<1>1. MetricName(line) \in MetricNames
  <2>1. PICK key \in Seq(STRING) : key = MemInfo!Key(line)
    BY DEF Good
  <2>2. key \in MetricNames /\ Append(key, "bytes") \in MetricNames
    BY DEF MetricNames
  <2> QED
    BY <2>1, <2>2 DEF MetricName
<1> QED
  BY <1>1 DEF MemInfo!Put

LEMMA ParseTyped ==
  ASSUME NEW acc \in ParseStates, NEW line, Good(line)
  PROVE  ParseNext(acc, line) \in ParseStates
<1> DEFINE parsed == MemInfo!ParseLine(acc.info, line)
<1>1. acc.info \in Infos
  BY StatesTyped
<1>2. ASSUME NEW value \in Int
      PROVE  MemInfo!Put(acc.info, MetricName(line), value) \in Infos
  <2>1. PICK names \in SUBSET MetricNames : acc.info \in [names -> Int]
    BY <1>1 DEF Infos
  <2>2. PICK more \in SUBSET MetricNames :
          MemInfo!Put(acc.info, MetricName(line), value) \in [more -> Int]
    BY <2>1, PutTyped
  <2> QED
    BY <2>2 DEF Infos
<1>3. LineAdded(acc.info, line, parsed)
  BY LineParsed
<1> HIDE DEF parsed
<1>4. parsed \in ParseStates
  BY <1>1, <1>2, <1>3, StatesTyped DEF LineAdded
<1> QED
  BY <1>4 DEF ParseNext, parsed

LEMMA ParseRuns ==
  ASSUME NEW L, NEW file \in Seq(L), \A line \in L : Good(line)
  PROVE  \E run : Parses(run, file) /\ MemInfo!parseMemInfo(file) = run[Len(file)]
<1> DEFINE n == Len(file)
           step == [x \in ParseStates \X (1..n) |-> ParseNext(x[1], file[x[2]])]
           fold == CHOOSE it : ParsesAll(it, file)
           base == MemInfo!Parsed(<<>>)
<1>1. n \in Nat /\ DOMAIN file = 1..n
  OBVIOUS
<1>2. base \in ParseStates
  <2>1. <<>> \in [{} -> Int] /\ {} \in SUBSET MetricNames
    OBVIOUS
  <2>2. <<>> \in Infos
    BY <2>1 DEF Infos
  <2> QED
    BY <2>2, StatesTyped
<1>3. step \in [ParseStates \X (1..n) -> ParseStates]
  <2> SUFFICES ASSUME NEW acc \in ParseStates, NEW i \in 1..n
               PROVE  ParseNext(acc, file[i]) \in ParseStates
    OBVIOUS
  <2>1. Good(file[i])
    OBVIOUS
  <2> QED
    BY <2>1, ParseTyped
<1>4. PICK it \in [SUBSET (1..n) -> ParseStates] : Folds(it, base, step, n)
  <2> HIDE DEF n, step, base
  <2> QED
    BY <1>1, <1>2, <1>3, FoldExists
<1>5. ASSUME NEW s \in SUBSET (1..n), s # {}
      PROVE  step[<<it[s \ {Max(s)}], Max(s)>>] = ParseNext(it[s \ {Max(s)}], file[Max(s)])
  <2>1. Max(s) \in 1..n /\ s \ {Max(s)} \in SUBSET (1..n)
    <3>1. Max(s) \in s
      BY <1>1, <1>5, MaxInSubset
    <3> QED
      BY <3>1
  <2> QED
    BY <1>4, <2>1
<1> HIDE DEF step
<1>6. ParsesAll(it, file)
  BY <1>1, <1>4, <1>5, SameMemInfoMax DEF ParsesAll, Folds, ParseNext
<1>7. ParsesAll(fold, file)
  BY <1>6
<1> HIDE DEF fold
<1> DEFINE run == [i \in 0..n |-> fold[1..i]]
<1>8. run[0] = base
  <2>1. 1..0 = {} /\ {} \in SUBSET DOMAIN file
    OBVIOUS
  <2>2. fold[{}] = base
    BY <1>7, <2>1 DEF ParsesAll
  <2>3. run[0] = fold[1..0]
    BY <1>1
  <2> HIDE DEF run
  <2> QED
    BY <2>1, <2>2, <2>3
<1>9. ASSUME NEW i \in 1..n
      PROVE  run[i] = ParseNext(run[i - 1], file[i])
  <2>1. /\ 1..i \in SUBSET DOMAIN file /\ 1..i # {}
        /\ MemInfo!Max(1..i) = i /\ (1..i) \ {i} = 1..(i - 1)
    BY <1>1, FirstNumbers, SameMemInfoMax
  <2>2. fold[1..i] = ParseNext(fold[1..(i - 1)], file[i])
    BY <1>7, <2>1 DEF ParsesAll, ParseNext
  <2>3. run[i] = fold[1..i] /\ run[i - 1] = fold[1..(i - 1)]
    BY <1>1
  <2> QED
    BY <2>2, <2>3
<1>10. MemInfo!parseMemInfo(file) = run[n]
  BY <1>1, ParseFold DEF fold
<1> HIDE DEF run
<1> QED
  BY <1>8, <1>9, <1>10 DEF Parses

(* The lines among the first i that have a metric.                           *)
Given(file, i) == {k \in 1..i : file[k].fields \in {2, 3}}

(* The first i lines have all been parsed, or nothing is returned of them.   *)
AllOrNothing(acc, file, i) ==
  IF acc.err = ""
  THEN /\ \A k \in 1..i : file[k].fields \in {0, 2, 3}
       /\ DOMAIN acc.info = {MetricName(file[k]) : k \in Given(file, i)}
  ELSE DOMAIN acc.info = {}

LEMMA NextWhole ==
  ASSUME NEW file, NEW i \in Nat \ {0}, NEW acc, AllOrNothing(acc, file, i - 1), Good(file[i])
  PROVE  AllOrNothing(ParseNext(acc, file[i]), file, i)
<1> DEFINE line == file[i]
           next == ParseNext(acc, line)
<1>1. 1..i = (1..(i - 1)) \cup {i} /\ DOMAIN <<>> = {}
  OBVIOUS
<1>2. acc.err # "" => next = acc
  BY DEF ParseNext
<1>3. acc.err = "" => LineAdded(acc.info, line, next)
  BY LineParsed DEF ParseNext
<1> HIDE DEF next
<1>4. CASE acc.err # ""
  BY <1>2, <1>4 DEF AllOrNothing, next
<1>5. CASE acc.err = "" /\ line.fields = 0 /\ next = MemInfo!Parsed(acc.info)
  <2>1. next.err = "" /\ next.info = acc.info
    BY <1>5 DEF MemInfo!Parsed
  <2>2. Given(file, i) = Given(file, i - 1)
    <3>1. file[i].fields = 0
      BY <1>5
    <3>2. file[i].fields \notin {2, 3}
      BY <3>1
    <3> QED
      BY <1>1, <3>2 DEF Given
  <2> QED
    BY <1>1, <1>5, <2>1, <2>2 DEF AllOrNothing, next
<1>6. ASSUME acc.err = "", line.fields \in {2, 3}, NEW value \in Int,
             next = MemInfo!Parsed(MemInfo!Put(acc.info, MetricName(line), value))
      PROVE  AllOrNothing(next, file, i)
  <2>1. next.err = "" /\ DOMAIN next.info = DOMAIN acc.info \cup {MetricName(line)}
    BY <1>6 DEF MemInfo!Parsed, MemInfo!Put
  <2>2. Given(file, i) = Given(file, i - 1) \cup {i}
    BY <1>1, <1>6 DEF Given
  <2>3. \A k \in 1..i : file[k].fields \in {0, 2, 3}
    BY <1>1, <1>6 DEF AllOrNothing
  <2>4. DOMAIN acc.info = {MetricName(file[k]) : k \in Given(file, i - 1)}
    BY <1>6 DEF AllOrNothing
  <2> QED
    BY <2>1, <2>2, <2>3, <2>4 DEF AllOrNothing
<1>7. ASSUME NEW err \in ParseErrors, next = MemInfo!Failed(err)
      PROVE  AllOrNothing(next, file, i)
  <2>1. next.err = err /\ next.info = <<>> /\ err # ""
    BY <1>7 DEF MemInfo!Failed, ParseErrors
  <2> QED
    BY <1>1, <2>1 DEF AllOrNothing
<1>8. AllOrNothing(next, file, i)
  BY <1>3, <1>4, <1>5, <1>6, <1>7 DEF LineAdded, next
<1> QED
  BY <1>8 DEF next

LEMMA ParsedWhole ==
  ASSUME NEW L, NEW file \in Seq(L), \A line \in L : Good(line)
  PROVE  AllOrNothing(MemInfo!parseMemInfo(file), file, Len(file))
<1> DEFINE n == Len(file)
<1>1. n \in Nat
  OBVIOUS
<1>2. PICK run : Parses(run, file) /\ MemInfo!parseMemInfo(file) = run[n]
  BY ParseRuns
<1> DEFINE P == {i \in 0..n : AllOrNothing(run[i], file, i)}
<1>3. 0 \in P
  <2>1. 1..0 = {} /\ DOMAIN <<>> = {}
    OBVIOUS
  <2>2. run[0].err = "" /\ run[0].info = <<>>
    <3>1. \A info : MemInfo!Parsed(info).err = "" /\ MemInfo!Parsed(info).info = info
      BY DEF MemInfo!Parsed
    <3>2. run[0] = MemInfo!Parsed(<<>>)
      BY <1>2 DEF Parses
    <3> QED
      BY <3>1, <3>2
  <2>3. Given(file, 0) = {}
    BY <2>1 DEF Given
  <2>4. DOMAIN run[0].info = {MetricName(file[k]) : k \in Given(file, 0)}
    BY <2>1, <2>2, <2>3
  <2>5. AllOrNothing(run[0], file, 0)
    BY <2>1, <2>2, <2>4 DEF AllOrNothing
  <2> QED
    BY <1>1, <2>5
<1>4. ASSUME NEW i \in 1..n, i - 1 \in P
      PROVE  i \in P
  <2>1. AllOrNothing(run[i - 1], file, i - 1) /\ Good(file[i]) /\ i \in Nat \ {0}
    BY <1>4
  <2>2. run[i] = ParseNext(run[i - 1], file[i])
    BY <1>2 DEF Parses
  <2>3. AllOrNothing(run[i], file, i)
    BY <2>1, <2>2, NextWhole
  <2> QED
    BY <2>3
<1>5. 0..n \subseteq P
  <2> HIDE DEF P, n
  <2> QED
    BY <1>1, <1>3, <1>4, IntervalInduction
<1> QED
  BY <1>1, <1>2, <1>5

(* Two lines do not have one name.                                           *)
LEMMA NamesDiffer ==
  ASSUME NEW file \in MemInfoFiles, NEW i \in DOMAIN file, NEW j \in DOMAIN file,
         file[i].fields \in {2, 3}, file[j].fields \in {2, 3},
         MetricName(file[i]) = MetricName(file[j])
  PROVE  i = j
<1> DEFINE Key(k) == file[k].name \o file[k].paren
<1>1. /\ \A k \in DOMAIN file : Key(k) \in Seq(STRING)
      /\ \A k, l \in DOMAIN file : file[k].fields \in {2, 3} /\ file[k].fields = file[l].fields
                                     /\ Key(k) = Key(l) => k = l
      /\ \A k \in DOMAIN file : file[k].fields = 2 =>
           Key(k) = <<>> \/ Key(k)[Len(Key(k))] # "bytes"
  BY MemInfoAssumption
<1>2. \A k \in DOMAIN file :
        MetricName(file[k]) = IF file[k].fields = 3 THEN Append(Key(k), "bytes") ELSE Key(k)
  BY DEF MetricName, MemInfo!Key
<1> HIDE DEF Key
<1>3. PICK p \in Seq(STRING \cup {"bytes"}) : p = Key(i)
  BY <1>1
<1>4. PICK q \in Seq(STRING \cup {"bytes"}) : q = Key(j)
  BY <1>1
<1>5. ASSUME NEW s \in Seq(STRING \cup {"bytes"})
      PROVE  /\ Append(s, "bytes") # <<>>
             /\ Append(s, "bytes")[Len(Append(s, "bytes"))] = "bytes"
             /\ SubSeq(Append(s, "bytes"), 1, Len(Append(s, "bytes")) - 1) = s
  OBVIOUS
<1>6. CASE file[i].fields = 3 /\ file[j].fields = 3
  <2>1. Append(p, "bytes") = Append(q, "bytes")
    BY <1>2, <1>3, <1>4, <1>6
  <2>2. p = q
    BY <1>5, <2>1
  <2> QED
    BY <1>1, <1>3, <1>4, <1>6, <2>2
<1>7. CASE file[i].fields = 2 /\ file[j].fields = 2
  BY <1>1, <1>2, <1>7
<1>8. CASE file[i].fields = 3 /\ file[j].fields = 2
  <2>1. Append(p, "bytes") = q /\ (q = <<>> \/ q[Len(q)] # "bytes")
    BY <1>1, <1>2, <1>3, <1>4, <1>8
  <2> QED
    BY <1>5, <2>1
<1>9. CASE file[i].fields = 2 /\ file[j].fields = 3
  <2>1. Append(q, "bytes") = p /\ (p = <<>> \/ p[Len(p)] # "bytes")
    BY <1>1, <1>2, <1>3, <1>4, <1>9
  <2> QED
    BY <1>5, <2>1
<1> QED
  BY <1>6, <1>7, <1>8, <1>9

(* The file is read once, and all that is sent is what is parsed of it.      *)
MemInfoInv ==
  collector = "meminfo" =>
    /\ shown \in MemInfoFiles
    /\ pc # "done" => sent = {}
    /\ pc = "done" => LET result == MemInfo!parseMemInfo(shown)
                      IN  /\ result.err = ""
                          /\ sent = {[key |-> k, value |-> result.info[k]] : k \in DOMAIN result.info}

LEMMA FileGood ==
  ASSUME NEW file \in MemInfoFiles
  PROVE  /\ file \in Seq({file[i] : i \in DOMAIN file}) /\ DOMAIN file = 1..Len(file)
         /\ \A line \in {file[i] : i \in DOMAIN file} : Good(line)
<1> DEFINE L == {file[i] : i \in DOMAIN file}
<1>1. file \in Seq(L)
  BY MemInfoAssumption
<1>2. ASSUME NEW i \in DOMAIN file
      PROVE  Good(file[i])
  BY MemInfoAssumption DEF Good, MemInfo!Key
<1>3. DOMAIN file = 1..Len(file)
  <2> HIDE DEF L
  <2> QED
    BY <1>1
<1> QED
  BY <1>1, <1>2, <1>3

LEMMA MemInfoInit == UpdateInit => MemInfoInv
<1> SUFFICES ASSUME UpdateInit, collector = "meminfo" PROVE MemInfoInv
  BY DEF MemInfoInv
<1>1. PICK file \in MemInfoFiles : MemInfo!InitWith(file)
  BY DEF UpdateInit
<1> QED
  BY <1>1 DEF MemInfoInv, MemInfo!InitWith

LEMMA MemInfoStep == MemInfoInv /\ [UpdateNext]_<<collector, vars>> => MemInfoInv'
<1> SUFFICES ASSUME MemInfoInv, [UpdateNext]_<<collector, vars>>, collector' = "meminfo"
             PROVE  MemInfoInv'
  BY DEF MemInfoInv
<1>1. CASE UNCHANGED <<collector, vars>>
  <2>1. /\ collector' = collector /\ shown' = shown /\ pc' = pc /\ sent' = sent
    BY <1>1 DEF vars
  <2> QED
    BY <2>1 DEF MemInfoInv
<1>2. CASE UpdateNext
  <2>1. collector = "meminfo" /\ MemInfo!Next
    BY <1>2 DEF UpdateNext
  <2> DEFINE result == MemInfo!parseMemInfo(shown)
  <2>2. shown' = shown /\ shown \in MemInfoFiles /\ pc = "idle" /\ sent = {}
    BY <2>1 DEF MemInfo!Next, MemInfo!Update, MemInfo!UpdateFails, MemInfoInv
  <2>3. CASE MemInfo!Update
    <3>1. /\ pc' = "done" <=> result.err = ""
          /\ sent' = {[key |-> k, value |-> result.info[k]] :
                        k \in DOMAIN result.info}
      BY <2>3 DEF MemInfo!Update
    <3>2. result.err # "" => DOMAIN result.info = {}
      <4>1. AllOrNothing(result, shown, Len(shown))
        BY <2>2, FileGood, ParsedWhole
      <4> QED
        BY <4>1 DEF AllOrNothing
    <3> HIDE DEF result
    <3>3. pc' # "done" => sent' = {}
      BY <3>1, <3>2
    <3> QED
      BY <2>2, <3>1, <3>3 DEF MemInfoInv, result
  <2>4. CASE MemInfo!UpdateFails
    BY <2>2, <2>4 DEF MemInfo!UpdateFails, MemInfoInv
  <2> QED
    BY <2>1, <2>3, <2>4 DEF MemInfo!Next
<1> QED
  BY <1>1, <1>2

(***************************************************************************)
(* An Update of meminfo that returns nil has sent a series of its own for  *)
(* every line with two fields or three, and there are no others but empty  *)
(* ones; any other Update has sent nothing (parseMemInfo, Update).         *)
(***************************************************************************)
THEOREM MemInfoWhole == UpdateSpec => []MemInfoComplete
<1>1. ASSUME MemInfoInv, collector = "meminfo", pc = "done"
      PROVE  /\ Cardinality(sent) = Cardinality(MemInfo!Lines({2, 3}))
             /\ MemInfo!Lines({0, 2, 3}) = DOMAIN shown
  <2> DEFINE info == MemInfo!parseMemInfo(shown).info
             Series(k) == [key |-> k, value |-> info[k]]
             given == MemInfo!Lines({2, 3})
  <2>1. shown \in MemInfoFiles /\ DOMAIN shown = 1..Len(shown) /\ Len(shown) \in Nat
    <3>1. shown \in MemInfoFiles
      BY <1>1 DEF MemInfoInv
    <3>2. shown \in Seq({shown[i] : i \in DOMAIN shown}) /\ DOMAIN shown = 1..Len(shown)
      BY <3>1, FileGood
    <3>3. Len(shown) \in Nat
      BY <3>2
    <3> QED
      BY <3>1, <3>2, <3>3
  <2>2. /\ \A k \in 1..Len(shown) : shown[k].fields \in {0, 2, 3}
        /\ DOMAIN info = {MetricName(shown[k]) : k \in Given(shown, Len(shown))}
    <3>1. AllOrNothing(MemInfo!parseMemInfo(shown), shown, Len(shown))
      BY <2>1, FileGood, ParsedWhole
    <3> QED
      BY <1>1, <3>1 DEF AllOrNothing, MemInfoInv
  <2>3. given = Given(shown, Len(shown))
    BY <2>1 DEF MemInfo!Lines, Given
  <2>4. sent = {Series(MetricName(shown[k])) : k \in given}
    <3>1. sent = {Series(k) : k \in DOMAIN info}
      BY <1>1 DEF MemInfoInv
    <3> HIDE DEF info, given
    <3> QED
      BY <2>2, <2>3, <3>1
  <2>5. IsFiniteSet(given)
    <3>1. IsFiniteSet(1..Len(shown))
      BY <2>1, FS_Interval
    <3>2. given \subseteq 1..Len(shown)
      BY <2>3 DEF Given
    <3> QED
      BY <3>1, <3>2, FS_Subset
  <2>6. Cardinality(sent) = Cardinality(given)
    <3> DEFINE bijection == [k \in given |-> Series(MetricName(shown[k]))]
    <3>1. \A i, j \in given : bijection[i] = bijection[j] => i = j
      <4> SUFFICES ASSUME NEW i \in given, NEW j \in given,
                          Series(MetricName(shown[i])) = Series(MetricName(shown[j]))
                   PROVE  i = j
        OBVIOUS
      <4>1. MetricName(shown[i]) = MetricName(shown[j])
        OBVIOUS
      <4>2. /\ i \in DOMAIN shown /\ j \in DOMAIN shown
            /\ shown[i].fields \in {2, 3} /\ shown[j].fields \in {2, 3}
        BY DEF MemInfo!Lines
      <4> QED
        BY <2>1, <4>1, <4>2, NamesDiffer
    <3>2. bijection \in [given -> sent]
      BY <2>4
    <3>3. \A m \in sent : \E k \in given : bijection[k] = m
      BY <2>4
    <3> HIDE DEF bijection, given
    <3> QED
      BY <2>5, <3>1, <3>2, <3>3, OneToOne
  <2>7. MemInfo!Lines({0, 2, 3}) = DOMAIN shown
    BY <2>1, <2>2 DEF MemInfo!Lines
  <2> QED
    BY <2>6, <2>7
<1>2. MemInfoInv => MemInfoComplete
  BY <1>1, SameMemInfoCardinality DEF MemInfoComplete, MemInfo!MemInfoComplete, MemInfoInv
<1> QED
  BY <1>2, MemInfoInit, MemInfoStep, PTL DEF UpdateSpec

-------------------------------------------------------------------------------
(* diskstats: the properties of udev.                                        *)

(* What getUdevDeviceProperties does with the next line.                     *)
IsProperty(line) == line.prefix = "E:" /\ Len(line.fields) = 2
PropertyNext(info, line) ==
  IF IsProperty(line) THEN DiskStats!Put(info, line.fields[1], line.fields[2]) ELSE info

(* run[i] is what it has made of the first i lines.                          *)
Collects(run, lines) ==
  /\ run[0] = <<>>
  /\ \A i \in 1..Len(lines) : run[i] = PropertyNext(run[i - 1], lines[i])

(* Its fold over any set of lines.                                           *)
CollectsAll(it, lines) ==
  it = [s \in SUBSET DOMAIN lines |->
          IF s = {} THEN <<>>
          ELSE IF /\ lines[DiskStats!Max(s)].prefix = "E:"
                  /\ Len(lines[DiskStats!Max(s)].fields) = 2
               THEN DiskStats!Put(it[s \ {DiskStats!Max(s)}], lines[DiskStats!Max(s)].fields[1],
                                  lines[DiskStats!Max(s)].fields[2])
               ELSE it[s \ {DiskStats!Max(s)}]]

LEMMA CollectFold ==
  ASSUME NEW d, d # NoDisk
  PROVE  DiskStats!getUdevDeviceProperties(d) =
           (CHOOSE it : CollectsAll(it, UdevLines[d]))[DOMAIN UdevLines[d]]
  BY DEF DiskStats!getUdevDeviceProperties, DiskStats!FoldLeft, DiskStats!MapThenFoldSet,
         CollectsAll

LEMMA SameDiskStatsMax == \A s : DiskStats!Max(s) = Max(s)
  BY DEF DiskStats!Max, Max

PropertyMaps == UNION {[names -> STRING] : names \in SUBSET STRING}

LEMMA PropertyTyped ==
  ASSUME NEW info \in PropertyMaps, NEW line, line.fields \in Seq(STRING)
  PROVE  PropertyNext(info, line) \in PropertyMaps
<1>1. CASE ~IsProperty(line)
  BY <1>1 DEF PropertyNext
<1>2. CASE IsProperty(line)
  <2>1. PICK names \in SUBSET STRING : info \in [names -> STRING]
    BY DEF PropertyMaps
  <2>2. PICK fields \in Seq(STRING) : fields = line.fields /\ Len(fields) = 2
    BY <1>2 DEF IsProperty
  <2>3. fields[1] \in STRING /\ fields[2] \in STRING
    BY <2>2
  <2>4. PICK name \in STRING : name = fields[1]
    BY <2>3
  <2>5. PICK value \in STRING : value = fields[2]
    BY <2>3
  <2>6. DiskStats!Put(info, name, value) \in [names \cup {name} -> STRING]
    BY <2>1 DEF DiskStats!Put
  <2>7. names \cup {name} \in SUBSET STRING
    OBVIOUS
  <2>8. PropertyNext(info, line) = DiskStats!Put(info, name, value)
    BY <1>2, <2>2, <2>4, <2>5 DEF PropertyNext
  <2>9. DiskStats!Put(info, name, value) \in PropertyMaps
    BY <2>6, <2>7 DEF PropertyMaps
  <2> QED
    BY <2>8, <2>9
<1> QED
  BY <1>1, <1>2

LEMMA CollectRuns ==
  ASSUME NEW d \in Disks
  PROVE  \E run : /\ Collects(run, UdevLines[d])
                  /\ DiskStats!getUdevDeviceProperties(d) = run[Len(UdevLines[d])]
<1>1. PICK lines : lines = UdevLines[d]
  OBVIOUS
<1> DEFINE L == {lines[i] : i \in DOMAIN lines}
           n == Len(lines)
           step == [x \in PropertyMaps \X (1..n) |-> PropertyNext(x[1], lines[x[2]])]
           fold == CHOOSE it : CollectsAll(it, lines)
<1>2. lines \in Seq(L) /\ \A i \in DOMAIN lines : lines[i].fields \in Seq(STRING)
  BY <1>1, DiskStatsAssumption
<1>3. n \in Nat /\ DOMAIN lines = 1..n
  <2> HIDE DEF L
  <2> QED
    BY <1>2
<1>4. <<>> \in PropertyMaps
  <2>1. <<>> \in [{} -> STRING] /\ {} \in SUBSET STRING
    OBVIOUS
  <2> QED
    BY <2>1 DEF PropertyMaps
<1>5. step \in [PropertyMaps \X (1..n) -> PropertyMaps]
  <2> SUFFICES ASSUME NEW info \in PropertyMaps, NEW i \in 1..n
               PROVE  PropertyNext(info, lines[i]) \in PropertyMaps
    OBVIOUS
  <2>1. lines[i].fields \in Seq(STRING)
    BY <1>2, <1>3
  <2> QED
    BY <2>1, PropertyTyped
<1> HIDE DEF n
<1>6. PICK it \in [SUBSET (1..n) -> PropertyMaps] : Folds(it, <<>>, step, n)
  <2> HIDE DEF step
  <2> QED
    BY <1>3, <1>4, <1>5, FoldExists
<1>7. ASSUME NEW s \in SUBSET (1..n), s # {}
      PROVE  step[<<it[s \ {Max(s)}], Max(s)>>] = PropertyNext(it[s \ {Max(s)}], lines[Max(s)])
  <2>1. Max(s) \in 1..n /\ s \ {Max(s)} \in SUBSET (1..n)
    <3>1. Max(s) \in s
      BY <1>3, <1>7, MaxInSubset
    <3> QED
      BY <3>1
  <2> QED
    BY <1>6, <2>1
<1> HIDE DEF step
<1>8. CollectsAll(it, lines)
  BY <1>3, <1>6, <1>7, SameDiskStatsMax DEF CollectsAll, Folds, PropertyNext, IsProperty
<1>9. CollectsAll(fold, lines)
  BY <1>8
<1> HIDE DEF fold
<1> DEFINE run == [i \in 0..n |-> fold[1..i]]
<1>10. run[0] = <<>>
  <2>1. 1..0 = {} /\ {} \in SUBSET DOMAIN lines
    OBVIOUS
  <2>2. fold[{}] = <<>>
    BY <1>9, <2>1 DEF CollectsAll
  <2>3. run[0] = fold[1..0]
    BY <1>3
  <2> HIDE DEF run
  <2> QED
    BY <2>1, <2>2, <2>3
<1>11. ASSUME NEW i \in 1..n
       PROVE  run[i] = PropertyNext(run[i - 1], lines[i])
  <2>1. /\ 1..i \in SUBSET DOMAIN lines /\ 1..i # {}
        /\ DiskStats!Max(1..i) = i /\ (1..i) \ {i} = 1..(i - 1)
    BY <1>3, FirstNumbers, SameDiskStatsMax
  <2>2. fold[1..i] = PropertyNext(fold[1..(i - 1)], lines[i])
    <3>1. PICK s \in SUBSET DOMAIN lines :
            s = 1..i /\ s # {} /\ DiskStats!Max(s) = i /\ s \ {i} = 1..(i - 1)
      BY <2>1
    <3>2. fold[s] = PropertyNext(fold[s \ {i}], lines[i])
      BY <1>9, <3>1 DEF CollectsAll, PropertyNext, IsProperty
    <3> QED
      BY <3>1, <3>2
  <2>3. run[i] = fold[1..i] /\ run[i - 1] = fold[1..(i - 1)]
    BY <1>3
  <2> QED
    BY <2>2, <2>3
<1>12. DiskStats!getUdevDeviceProperties(d) = run[n]
  <2>1. d # NoDisk
    BY DiskStatsAssumption
  <2>2. DiskStats!getUdevDeviceProperties(d) = fold[DOMAIN lines]
    BY <1>1, <2>1, CollectFold DEF fold
  <2>3. run[n] = fold[1..n]
    BY <1>3
  <2> HIDE DEF run
  <2> QED
    BY <1>3, <2>2, <2>3
<1> HIDE DEF run
<1> QED
  BY <1>1, <1>10, <1>11, <1>12 DEF Collects, n

(* The lines among the first i that give the property.                       *)
GivenBy(lines, name, i) == {k \in 1..i : IsProperty(lines[k]) /\ lines[k].fields[1] = name}

(* The last of them decides.                                                 *)
LastDecides(info, lines, name, i) ==
  IF GivenBy(lines, name, i) = {} THEN name \notin DOMAIN info
  ELSE /\ name \in DOMAIN info
       /\ \E k \in GivenBy(lines, name, i) : /\ \A j \in GivenBy(lines, name, i) : j <= k
                                             /\ info[name] = lines[k].fields[2]

LEMMA NextDecides ==
  ASSUME NEW info, NEW lines, NEW name, NEW i \in Nat \ {0}, LastDecides(info, lines, name, i - 1)
  PROVE  LastDecides(PropertyNext(info, lines[i]), lines, name, i)
<1> DEFINE before == GivenBy(lines, name, i - 1)
           given == GivenBy(lines, name, i)
           next == PropertyNext(info, lines[i])
<1>1. 1..i = (1..(i - 1)) \cup {i}
  OBVIOUS
<1>2. CASE IsProperty(lines[i]) /\ lines[i].fields[1] = name
  <2>1. i \in given /\ \A j \in given : j <= i
    BY <1>2 DEF GivenBy
  <2>2. name \in DOMAIN next /\ next[name] = lines[i].fields[2]
    BY <1>2 DEF PropertyNext, DiskStats!Put
  <2> HIDE DEF given, next
  <2>3. LastDecides(next, lines, name, i)
    BY <2>1, <2>2 DEF LastDecides, given
  <2> QED
    BY <2>3 DEF next
<1>3. CASE ~(IsProperty(lines[i]) /\ lines[i].fields[1] = name)
  <2>1. given = before
    BY <1>1, <1>3 DEF GivenBy
  <2>2. /\ name \in DOMAIN next <=> name \in DOMAIN info
        /\ name \in DOMAIN info => next[name] = info[name]
    BY <1>3 DEF PropertyNext, DiskStats!Put
  <2> HIDE DEF given, next
  <2>3. LastDecides(next, lines, name, i)
    BY <2>1, <2>2 DEF LastDecides, given
  <2> QED
    BY <2>3 DEF next
<1> QED
  BY <1>2, <1>3

LEMMA PropertiesAreSaid ==
  ASSUME NEW d \in Disks, NEW name
  PROVE  DiskStats!At(DiskStats!getUdevDeviceProperties(d), name) = DiskStats!Says(d, name)
<1>1. PICK lines : lines = UdevLines[d]
  OBVIOUS
<1> DEFINE n == Len(lines)
<1>2. n \in Nat /\ DOMAIN lines = 1..n
  <2>1. PICK L : lines \in Seq(L)
    BY <1>1, DiskStatsAssumption
  <2> QED
    BY <2>1
<1>3. PICK run : Collects(run, lines) /\ DiskStats!getUdevDeviceProperties(d) = run[n]
  BY <1>1, CollectRuns
<1> DEFINE P == {i \in 0..n : LastDecides(run[i], lines, name, i)}
<1>4. 0 \in P
  <2>1. run[0] = <<>> /\ DOMAIN <<>> = {} /\ 1..0 = {}
    BY <1>3 DEF Collects
  <2>2. GivenBy(lines, name, 0) = {}
    BY <2>1 DEF GivenBy
  <2>3. LastDecides(run[0], lines, name, 0)
    BY <2>1, <2>2 DEF LastDecides
  <2> QED
    BY <1>2, <2>3
<1>5. ASSUME NEW i \in 1..n, i - 1 \in P
      PROVE  i \in P
  <2>1. LastDecides(run[i - 1], lines, name, i - 1) /\ i \in Nat \ {0}
    BY <1>5
  <2>2. run[i] = PropertyNext(run[i - 1], lines[i])
    BY <1>3 DEF Collects
  <2>3. LastDecides(run[i], lines, name, i)
    BY <2>1, <2>2, NextDecides
  <2> QED
    BY <2>3
<1>6. 0..n \subseteq P
  <2> HIDE DEF P, n
  <2> QED
    BY <1>2, <1>4, <1>5, IntervalInduction
<1>7. LastDecides(run[n], lines, name, n)
  BY <1>2, <1>6
<1> DEFINE given == GivenBy(lines, name, n)
<1>8. DiskStats!Says(d, name) =
        IF given = {} THEN "" ELSE lines[CHOOSE i \in given : \A j \in given : j <= i].fields[2]
  <2>1. given = {i \in DOMAIN UdevLines[d] :
                   UdevLines[d][i].prefix = "E:" /\ Len(UdevLines[d][i].fields) = 2
                     /\ UdevLines[d][i].fields[1] = name}
    BY <1>1, <1>2 DEF GivenBy, IsProperty
  <2> HIDE DEF given
  <2> QED
    BY <1>1, <2>1 DEF DiskStats!Says
<1>9. \A i \in given : i \in Nat
  BY <1>2 DEF GivenBy
<1> HIDE DEF given, n
<1>10. CASE given = {}
  BY <1>3, <1>7, <1>8, <1>10 DEF LastDecides, DiskStats!At, given
<1>11. CASE given # {}
  <2>1. PICK k \in given : (\A j \in given : j <= k) /\ run[n][name] = lines[k].fields[2]
    BY <1>7, <1>11 DEF LastDecides, given
  <2>2. (CHOOSE i \in given : \A j \in given : j <= i) = k
    BY <1>9, <2>1
  <2>3. name \in DOMAIN run[n]
    BY <1>7, <1>11 DEF LastDecides, given
  <2> QED
    BY <1>3, <1>8, <1>11, <2>1, <2>2, <2>3 DEF DiskStats!At
<1> QED
  BY <1>10, <1>11

-------------------------------------------------------------------------------
(* diskstats: the lists of values and descriptions.                          *)

(* What the value at a place in the lists counts.                            *)
Kind(i) ==
  IF i <= 4 THEN "reads" ELSE IF i <= 8 THEN "writes" ELSE IF i <= 11 THEN "io"
  ELSE IF i <= 15 THEN "discards" ELSE "flushes"

(* The value at a place and its description.                                 *)
ListedAt(i, unit, factor, name) ==
  /\ DiskStats!Values[i] = [of |-> Kind(i), unit |-> unit, factor |-> factor]
  /\ DiskStats!descs[i] = [of |-> Kind(i), unit |-> name]
  /\ DiskStats!Converted(unit, factor) = name

LEMMA Lists ==
  /\ DOMAIN DiskStats!descs = 1..17 /\ DOMAIN DiskStats!Values = 1..17
  /\ ListedAt(1, "requests", "1", "completed")
  /\ ListedAt(2, "merged", "1", "merged")
  /\ ListedAt(3, "sectors", "512", "bytes")
  /\ ListedAt(4, "ticks", "1/1000", "seconds")
  /\ ListedAt(5, "requests", "1", "completed")
  /\ ListedAt(6, "merged", "1", "merged")
  /\ ListedAt(7, "sectors", "512", "bytes")
  /\ ListedAt(8, "ticks", "1/1000", "seconds")
  /\ ListedAt(9, "now", "1", "now")
  /\ ListedAt(10, "ticks", "1/1000", "seconds")
  /\ ListedAt(11, "weighted ticks", "1/1000", "weighted seconds")
  /\ ListedAt(12, "requests", "1", "completed")
  /\ ListedAt(13, "merged", "1", "merged")
  /\ ListedAt(14, "sectors", "1", "sectors")
  /\ ListedAt(15, "ticks", "1/1000", "seconds")
  /\ ListedAt(16, "requests", "1", "completed")
  /\ ListedAt(17, "ticks", "1/1000", "seconds")
<1> USE DEF DiskStats!unixSectorSize, DiskStats!secondsPerTick
<1>1. /\ DiskStats!Converted("requests", "1") = "completed"
      /\ DiskStats!Converted("merged", "1") = "merged"
      /\ DiskStats!Converted("sectors", "512") = "bytes"
      /\ DiskStats!Converted("sectors", "1") = "sectors"
  BY DEF DiskStats!Converted
<1>2. /\ DiskStats!Converted("ticks", "1/1000") = "seconds"
      /\ DiskStats!Converted("weighted ticks", "1/1000") = "weighted seconds"
      /\ DiskStats!Converted("now", "1") = "now"
  BY DEF DiskStats!Converted
<1>3. /\ Kind(1) = "reads" /\ Kind(2) = "reads" /\ Kind(3) = "reads" /\ Kind(4) = "reads"
      /\ Kind(5) = "writes" /\ Kind(6) = "writes" /\ Kind(7) = "writes" /\ Kind(8) = "writes"
      /\ Kind(9) = "io" /\ Kind(10) = "io" /\ Kind(11) = "io"
      /\ Kind(12) = "discards" /\ Kind(13) = "discards" /\ Kind(14) = "discards" /\ Kind(15) = "discards"
      /\ Kind(16) = "flushes" /\ Kind(17) = "flushes"
  BY DEF Kind
<1>4. /\ ListedAt(1, "requests", "1", "completed")
      /\ ListedAt(2, "merged", "1", "merged")
      /\ ListedAt(3, "sectors", "512", "bytes")
      /\ ListedAt(4, "ticks", "1/1000", "seconds")
  BY <1>1, <1>2, <1>3 DEF ListedAt, DiskStats!Values, DiskStats!Field, DiskStats!descs,
                         DiskStats!Desc
<1>5. /\ ListedAt(5, "requests", "1", "completed")
      /\ ListedAt(6, "merged", "1", "merged")
      /\ ListedAt(7, "sectors", "512", "bytes")
      /\ ListedAt(8, "ticks", "1/1000", "seconds")
  BY <1>1, <1>2, <1>3 DEF ListedAt, DiskStats!Values, DiskStats!Field, DiskStats!descs,
                         DiskStats!Desc
<1>6. /\ ListedAt(9, "now", "1", "now")
      /\ ListedAt(10, "ticks", "1/1000", "seconds")
      /\ ListedAt(11, "weighted ticks", "1/1000", "weighted seconds")
  BY <1>1, <1>2, <1>3 DEF ListedAt, DiskStats!Values, DiskStats!Field, DiskStats!descs,
                         DiskStats!Desc
<1>7. /\ ListedAt(12, "requests", "1", "completed")
      /\ ListedAt(13, "merged", "1", "merged")
      /\ ListedAt(14, "sectors", "1", "sectors")
      /\ ListedAt(15, "ticks", "1/1000", "seconds")
  BY <1>1, <1>2, <1>3 DEF ListedAt, DiskStats!Values, DiskStats!Field, DiskStats!descs,
                         DiskStats!Desc
<1>8. /\ ListedAt(16, "requests", "1", "completed")
      /\ ListedAt(17, "ticks", "1/1000", "seconds")
  BY <1>1, <1>2, <1>3 DEF ListedAt, DiskStats!Values, DiskStats!Field, DiskStats!descs,
                         DiskStats!Desc
<1>9. DOMAIN DiskStats!descs = 1..17 /\ DOMAIN DiskStats!Values = 1..17
  BY DEF DiskStats!descs, DiskStats!Values
<1> QED
  BY <1>4, <1>5, <1>6, <1>7, <1>8, <1>9

LEMMA Places ==
  \A i \in 1..17 : \/ i = 1 \/ i = 2 \/ i = 3 \/ i = 4 \/ i = 5 \/ i = 6 \/ i = 7 \/ i = 8
                   \/ i = 9 \/ i = 10 \/ i = 11 \/ i = 12 \/ i = 13 \/ i = 14 \/ i = 15
                   \/ i = 16 \/ i = 17
  OBVIOUS

(* A value and its description are of one kind, and differ from the others.  *)
LEMMA ListsMatch ==
  ASSUME NEW i \in 1..17
  PROVE  LET value == DiskStats!Values[i]
         IN  /\ value.of = Kind(i)
             /\ DiskStats!descs[i] =
                  DiskStats!Desc(value.of, DiskStats!Converted(value.unit, value.factor))
             /\ DiskStats!descs[i].of = Kind(i)
<1>1. \E unit, factor, name : ListedAt(i, unit, factor, name)
  BY Lists, Places
<1> QED
  BY <1>1 DEF ListedAt, DiskStats!Desc

LEMMA DescsAreDistinct ==
  ASSUME NEW i \in 1..17, NEW j \in 1..17, DiskStats!descs[i] = DiskStats!descs[j]
  PROVE  i = j
<1>1. Kind(i) = Kind(j)
  BY ListsMatch
<1>2. \A k, unit, factor, name : ListedAt(k, unit, factor, name) => DiskStats!descs[k].unit = name
  BY DEF ListedAt
<1>3. DiskStats!descs[i].unit = DiskStats!descs[j].unit
  OBVIOUS
<1>4. CASE i \in 1..4 /\ j \in 1..4
  <2>1. \A k \in 1..4 : k = 1 \/ k = 2 \/ k = 3 \/ k = 4
    OBVIOUS
  <2>2. /\ DiskStats!descs[1].unit = "completed"
        /\ DiskStats!descs[2].unit = "merged"
        /\ DiskStats!descs[3].unit = "bytes"
        /\ DiskStats!descs[4].unit = "seconds"
    BY <1>2, Lists
  <2> QED
    BY <1>3, <1>4, <2>1, <2>2
<1>5. CASE i \in 5..8 /\ j \in 5..8
  <2>1. \A k \in 5..8 : k = 5 \/ k = 6 \/ k = 7 \/ k = 8
    OBVIOUS
  <2>2. /\ DiskStats!descs[5].unit = "completed"
        /\ DiskStats!descs[6].unit = "merged"
        /\ DiskStats!descs[7].unit = "bytes"
        /\ DiskStats!descs[8].unit = "seconds"
    BY <1>2, Lists
  <2> QED
    BY <1>3, <1>5, <2>1, <2>2
<1>6. CASE i \in 9..11 /\ j \in 9..11
  <2>1. \A k \in 9..11 : k = 9 \/ k = 10 \/ k = 11
    OBVIOUS
  <2>2. /\ DiskStats!descs[9].unit = "now"
        /\ DiskStats!descs[10].unit = "seconds"
        /\ DiskStats!descs[11].unit = "weighted seconds"
    BY <1>2, Lists
  <2> QED
    BY <1>3, <1>6, <2>1, <2>2
<1>7. CASE i \in 12..15 /\ j \in 12..15
  <2>1. \A k \in 12..15 : k = 12 \/ k = 13 \/ k = 14 \/ k = 15
    OBVIOUS
  <2>2. /\ DiskStats!descs[12].unit = "completed"
        /\ DiskStats!descs[13].unit = "merged"
        /\ DiskStats!descs[14].unit = "sectors"
        /\ DiskStats!descs[15].unit = "seconds"
    BY <1>2, Lists
  <2> QED
    BY <1>3, <1>7, <2>1, <2>2
<1>8. CASE i \in 16..17 /\ j \in 16..17
  <2>1. \A k \in 16..17 : k = 16 \/ k = 17
    OBVIOUS
  <2>2. /\ DiskStats!descs[16].unit = "completed"
        /\ DiskStats!descs[17].unit = "seconds"
    BY <1>2, Lists
  <2> QED
    BY <1>3, <1>8, <2>1, <2>2
<1> QED
  BY <1>1, <1>4, <1>5, <1>6, <1>7, <1>8 DEF Kind

-------------------------------------------------------------------------------
(* diskstats: one Update.                                                    *)

DiskInfo == DiskStats!Desc("disk", "info")
CounterDescs == DiskStats!ToSet(DiskStats!descs)

Serial(d) ==
  IF DiskStats!Says(d, "SCSI_IDENT_SERIAL") # "" THEN DiskStats!Says(d, "SCSI_IDENT_SERIAL")
  ELSE DiskStats!Says(d, "ID_SERIAL_SHORT")

LEMMA SerialIsSaid ==
  ASSUME NEW d \in Disks
  PROVE  DiskStats!Serial(DiskStats!getUdevDeviceProperties(d)) = Serial(d)
  BY PropertiesAreSaid DEF DiskStats!Serial, Serial

LEMMA DescsDiffer ==
  /\ DiskInfo \notin CounterDescs
  /\ \A of \in {"filesystem", "device_mapper", "ata"} : \A unit :
       DiskStats!Desc(of, unit) \notin CounterDescs /\ DiskStats!Desc(of, unit) # DiskInfo
<1>1. \A i \in 1..17 : Kind(i) \in {"reads", "writes", "io", "discards", "flushes"}
  BY DEF Kind
<1>2. \A i \in 1..17 : DiskStats!descs[i].of = Kind(i)
  BY ListsMatch
<1>3. \A desc \in CounterDescs : desc.of \in {"reads", "writes", "io", "discards", "flushes"}
  BY <1>1, <1>2, Lists DEF CounterDescs, DiskStats!ToSet
<1>4. \A of, unit : DiskStats!Desc(of, unit).of = of
  BY DEF DiskStats!Desc
<1>5. DiskInfo \notin CounterDescs
  BY <1>3, <1>4 DEF DiskInfo
<1>6. ASSUME NEW of \in {"filesystem", "device_mapper", "ata"}, NEW unit
      PROVE  DiskStats!Desc(of, unit) \notin CounterDescs /\ DiskStats!Desc(of, unit) # DiskInfo
  <2>1. DiskStats!Desc(of, unit).of = of /\ DiskInfo.of = "disk"
    BY <1>4 DEF DiskInfo
  <2> QED
    BY <1>3, <2>1
<1> QED
  BY <1>5, <1>6

LEMMA CounterFacts ==
  ASSUME NEW line, NEW m \in DiskStats!Counters(line)
  PROVE  m.desc \in CounterDescs /\ m.desc # DiskInfo /\ m.disk = line.disk
<1>1. DOMAIN DiskStats!descs = 1..17 /\ DOMAIN DiskStats!Values = 1..17
  BY DEF DiskStats!descs, DiskStats!Values
<1>2. PICK i \in 1..17 : m = [desc |-> DiskStats!descs[i], disk |-> line.disk,
                              field |-> DiskStats!Values[i]]
  BY <1>1 DEF DiskStats!Counters
<1>3. m.desc \in CounterDescs
  BY <1>1, <1>2 DEF CounterDescs, DiskStats!ToSet
<1> QED
  BY <1>2, <1>3, DescsDiffer

Metric(line, info, desc, name) == DiskStats!PropertyMetric(line, info, desc, name)

(* What a metric with a property of the disk is.                             *)
LEMMA PropertyIs ==
  ASSUME NEW line, NEW info, NEW m
  PROVE  m \in DiskStats!Properties(line, info) <=>
           \/ m \in Metric(line, info, DiskStats!Desc("filesystem", "info"), "ID_FS_TYPE")
           \/ m \in Metric(line, info, DiskStats!Desc("device_mapper", "info"), "DM_NAME")
           \/ /\ DiskStats!At(info, "ID_ATA") # ""
              /\ \E a \in DiskStats!ataDescs : /\ DiskStats!At(info, a) \in DiskStats!Numerals
                                             /\ m \in Metric(line, info, DiskStats!Desc("ata", a), a)
  BY DEF DiskStats!Properties, Metric

LEMMA MetricDescribed ==
  ASSUME NEW line, NEW info, NEW desc, NEW name, NEW m \in Metric(line, info, desc, name)
  PROVE  m.desc = desc /\ m.disk = line.disk
<1>1. m = [desc |-> desc, disk |-> line.disk, value |-> DiskStats!At(info, name)]
  BY DEF Metric, DiskStats!PropertyMetric
<1> QED
  BY <1>1

LEMMA MetricValued ==
  ASSUME NEW line, NEW info, NEW desc, NEW name, NEW m \in Metric(line, info, desc, name)
  PROVE  m.value = DiskStats!At(info, name)
<1>1. m = [desc |-> desc, disk |-> line.disk, value |-> DiskStats!At(info, name)]
  BY DEF Metric, DiskStats!PropertyMetric
<1> QED
  BY <1>1

LEMMA MetricNotEmpty ==
  ASSUME NEW line, NEW info, NEW desc, NEW name, Metric(line, info, desc, name) # {}
  PROVE  DiskStats!At(info, name) # ""
  BY DEF Metric, DiskStats!PropertyMetric

LEMMA MetricGiven ==
  ASSUME NEW line, NEW info, NEW desc, NEW name, DiskStats!At(info, name) # ""
  PROVE  \E m : m \in Metric(line, info, desc, name)
  BY DEF Metric, DiskStats!PropertyMetric

LEMMA PropertyFacts ==
  ASSUME NEW line, NEW info, NEW m \in DiskStats!Properties(line, info)
  PROVE  m.desc \notin CounterDescs /\ m.desc # DiskInfo
<1>1. ASSUME NEW desc, NEW name, m \in Metric(line, info, desc, name)
      PROVE  m.desc = desc
  BY <1>1, MetricDescribed
<1>2. \/ m.desc = DiskStats!Desc("filesystem", "info")
      \/ m.desc = DiskStats!Desc("device_mapper", "info")
      \/ \E a : m.desc = DiskStats!Desc("ata", a)
  BY <1>1, PropertyIs
<1> QED
  BY <1>2, DescsDiffer

InfoMetric(line, value) ==
  [desc |-> DiskInfo, disk |-> line.disk, number |-> line.number, value |-> value]

(* The disks, each under one pair of numbers.                                *)
DisksKnown ==
  /\ shown \in [disk : [Numbers -> Disks \cup {NoDisk}], udev : [Numbers -> Disks \cup {NoDisk}]]
  /\ \A m, n \in Numbers : shown.disk[m] # NoDisk /\ shown.disk[m] = shown.disk[n] => m = n

(* The lines that were read.                                                 *)
LinesRead ==
  /\ past = [read |-> past.read, settled |-> past.settled]
  /\ past.read \subseteq [number : Numbers, disk : Disks]
  /\ \A l, k \in past.read : l.disk = k.disk => l = k
  /\ local \subseteq past.read
  /\ pc \in {"idle", "failed"} => past.read = {} /\ past.settled = {}
  /\ pc \in {"idle", "failed", "loop", "done"}
  /\ pc = "done" => local = {}

(* What has not changed hands is still as it was read.                       *)
SettledStay ==
  /\ past.settled \subseteq Numbers
  /\ \A n \in past.settled : shown.udev[n] = shown.disk[n]
  /\ \A line \in past.read : line.number \in past.settled => shown.disk[line.number] = line.disk

(* What is sent of the lines that are exposed.                               *)
CountersSent ==
  {m \in sent : m.desc \in CounterDescs} =
    UNION {DiskStats!Counters(line) : line \in past.read \ local}

InfosSent ==
  /\ \A line \in past.read \ local :
       \E value : /\ {m \in sent : m.desc = DiskInfo /\ m.disk = line.disk} =
                       {InfoMetric(line, value)}
                  /\ line.number \in past.settled => value = Serial(line.disk)
  /\ \A m \in sent : m.desc = DiskInfo => \E line \in past.read \ local : line.disk = m.disk

DiskInv ==
  collector = "diskstats" => DisksKnown /\ LinesRead /\ SettledStay /\ CountersSent /\ InfosSent

LEMMA DiskInit == UpdateInit => DiskInv
<1> SUFFICES ASSUME DiskStats!Init
             PROVE  DisksKnown /\ LinesRead /\ SettledStay /\ CountersSent /\ InfosSent
  BY DEF UpdateInit, DiskInv
<1>1. /\ sent = {} /\ local = {} /\ pc = "idle"
      /\ past = [read |-> {}, settled |-> {}]
  BY DEF DiskStats!Init
<1>2. past.read = {} /\ past.settled = {}
  BY <1>1
<1>3. DisksKnown
  BY DEF DiskStats!Init, DiskStats!Attached, DisksKnown
<1>4. LinesRead /\ SettledStay
  BY <1>1, <1>2 DEF LinesRead, SettledStay
<1>5. CountersSent /\ InfosSent
  BY <1>1, <1>2 DEF CountersSent, InfosSent
<1> QED
  BY <1>3, <1>4, <1>5

(* What is sent stays as long as no fewer numbers are settled.               *)
LEMMA SentStays ==
  ASSUME CountersSent, InfosSent, sent' = sent, local' = local, past'.read = past.read,
         past'.settled \subseteq past.settled
  PROVE  CountersSent' /\ InfosSent'
<1>1. CountersSent'
  BY DEF CountersSent, CounterDescs
<1>2. InfosSent'
  <2>1. ASSUME NEW line \in past.read \ local
        PROVE  \E value : /\ {m \in sent : m.desc = DiskInfo /\ m.disk = line.disk} =
                               {InfoMetric(line, value)}
                          /\ line.number \in past'.settled => value = Serial(line.disk)
    BY DEF InfosSent
  <2>2. \A m \in sent : m.desc = DiskInfo => \E line \in past.read \ local : line.disk = m.disk
    BY DEF InfosSent
  <2> QED
    BY <2>1, <2>2 DEF InfosSent
<1> QED
  BY <1>1, <1>2

LEMMA AttachStep ==
  ASSUME DisksKnown, LinesRead, SettledStay, CountersSent, InfosSent,
         NEW n \in Numbers, NEW d \in Disks \cup {NoDisk},
         pc \in {"idle", "loop"},
         \A m \in Numbers : d = NoDisk \/ shown.disk[m] # d,
         shown' = [shown EXCEPT !.disk[n] = d],
         past' = [past EXCEPT !.settled = @ \ {n}],
         UNCHANGED <<pc, local, sent>>
  PROVE  (DisksKnown /\ LinesRead /\ SettledStay /\ CountersSent /\ InfosSent)'
<1>1. /\ shown'.udev = shown.udev
      /\ shown'.disk = [shown.disk EXCEPT ![n] = d]
      /\ shown' \in [disk : [Numbers -> Disks \cup {NoDisk}], udev : [Numbers -> Disks \cup {NoDisk}]]
  BY DEF DisksKnown
<1>2. /\ past' = [read |-> past.read, settled |-> past.settled \ {n}]
      /\ past'.read = past.read /\ past'.settled = past.settled \ {n}
  BY DEF LinesRead
<1>3. DisksKnown'
  BY <1>1 DEF DisksKnown
<1>4. LinesRead'
  BY <1>2 DEF LinesRead
<1>5. SettledStay'
  <2>1. ASSUME NEW m \in past.settled \ {n}
        PROVE  shown'.disk[m] = shown.disk[m] /\ m \in Numbers
    BY <1>1 DEF DisksKnown, SettledStay
  <2>2. \A m \in past'.settled : shown'.udev[m] = shown'.disk[m]
    BY <1>1, <1>2, <2>1 DEF SettledStay
  <2>3. \A line \in past'.read : line.number \in past'.settled =>
                                   shown'.disk[line.number] = line.disk
    BY <1>2, <2>1 DEF SettledStay
  <2>4. past'.settled \subseteq Numbers
    BY <1>2 DEF SettledStay
  <2> QED
    BY <2>2, <2>3, <2>4 DEF SettledStay
<1> QED
  BY <1>2, <1>3, <1>4, <1>5, SentStays

LEMMA FollowStep ==
  ASSUME DisksKnown, LinesRead, SettledStay, CountersSent, InfosSent,
         NEW n \in Numbers, DiskStats!UdevFollows(n)
  PROVE  (DisksKnown /\ LinesRead /\ SettledStay /\ CountersSent /\ InfosSent)'
<1>1. /\ shown' = [shown EXCEPT !.udev[n] = shown.disk[n]]
      /\ shown.udev[n] # shown.disk[n]
      /\ pc' = pc /\ local' = local /\ past' = past /\ sent' = sent
  BY DEF DiskStats!UdevFollows
<1>2. /\ shown'.disk = shown.disk
      /\ shown'.udev = [shown.udev EXCEPT ![n] = shown.disk[n]]
      /\ shown' \in [disk : [Numbers -> Disks \cup {NoDisk}], udev : [Numbers -> Disks \cup {NoDisk}]]
  BY <1>1 DEF DisksKnown
<1>3. DisksKnown'
  BY <1>2 DEF DisksKnown
<1>4. LinesRead'
  BY <1>1 DEF LinesRead
<1>5. SettledStay'
  <2>1. ASSUME NEW m \in past.settled
        PROVE  shown'.udev[m] = shown.udev[m] /\ m \in Numbers
    BY <1>1, <1>2 DEF DisksKnown, SettledStay
  <2> QED
    BY <1>1, <1>2, <2>1 DEF SettledStay
<1> QED
  BY <1>1, <1>3, <1>4, <1>5, SentStays

LEMMA ReadStep ==
  ASSUME DisksKnown, LinesRead, SettledStay, CountersSent, InfosSent, DiskStats!ReadDiskstats
  PROVE  (DisksKnown /\ LinesRead /\ SettledStay /\ CountersSent /\ InfosSent)'
<1> DEFINE read == {[number |-> n, disk |-> shown.disk[n]] : n \in DiskStats!Attached(shown.disk)}
           settled == {n \in Numbers : shown.disk[n] = shown.udev[n]}
<1>1. /\ pc = "idle" /\ pc' = "loop" /\ shown' = shown /\ sent' = sent
      /\ local' = read /\ past' = [read |-> read, settled |-> settled]
  BY DEF DiskStats!ReadDiskstats
<1>2. past'.read = read /\ past'.settled = settled
  BY <1>1
<1>3. ASSUME NEW line \in read
      PROVE  /\ line \in [number : Numbers, disk : Disks]
             /\ shown.disk[line.number] = line.disk
             /\ line = [number |-> line.number, disk |-> line.disk]
  BY DEF DiskStats!Attached, DisksKnown
<1>4. \A l, k \in read : l.disk = k.disk => l = k
  <2> SUFFICES ASSUME NEW l \in read, NEW k \in read, l.disk = k.disk
               PROVE  l = k
    OBVIOUS
  <2>1. /\ l.number \in Numbers /\ k.number \in Numbers /\ l.disk \in Disks
        /\ shown.disk[l.number] = shown.disk[k.number] /\ shown.disk[l.number] # NoDisk
    BY <1>3, DiskStatsAssumption
  <2>2. l.number = k.number
    BY <2>1 DEF DisksKnown
  <2> QED
    BY <1>3, <2>2
<1>5. DisksKnown'
  BY <1>1 DEF DisksKnown
<1>6. SettledStay'
  BY <1>1, <1>2, <1>3 DEF SettledStay
<1> HIDE DEF read, settled
<1>7. LinesRead'
  BY <1>1, <1>2, <1>3, <1>4 DEF LinesRead
<1>8. past.read = {} /\ past'.read \ local' = {}
  BY <1>1, <1>2 DEF LinesRead
<1>9. CountersSent'
  BY <1>1, <1>8 DEF CountersSent, CounterDescs
<1>10. InfosSent'
  BY <1>1, <1>8 DEF InfosSent
<1> QED
  BY <1>5, <1>6, <1>7, <1>9, <1>10

LEMMA ExposeStep ==
  ASSUME DisksKnown, LinesRead, SettledStay, CountersSent, InfosSent,
         NEW line \in local, DiskStats!ExposeDisk(line)
  PROVE  (DisksKnown /\ LinesRead /\ SettledStay /\ CountersSent /\ InfosSent)'
<1> DEFINE info == DiskStats!getUdevDeviceProperties(shown.udev[line.number])
           value == DiskStats!Serial(info)
<1>1. /\ pc = "loop" /\ pc' = pc /\ shown' = shown /\ past' = past
      /\ local' = local \ {line}
      /\ sent' = sent \cup DiskStats!Counters(line) \cup {DiskStats!Info(line, info)}
                   \cup DiskStats!Properties(line, info)
  BY DEF DiskStats!ExposeDisk
<1>2. line \in past.read /\ past.read \ local' = (past.read \ local) \cup {line}
  BY <1>1 DEF LinesRead
<1>3. DiskStats!Info(line, info) = InfoMetric(line, value)
  BY DEF DiskStats!Info, InfoMetric, DiskInfo
<1>4. InfoMetric(line, value).desc = DiskInfo /\ InfoMetric(line, value).disk = line.disk
  BY DEF InfoMetric
<1>5. line.number \in past.settled => value = Serial(line.disk)
  <2> SUFFICES ASSUME line.number \in past.settled PROVE value = Serial(line.disk)
    OBVIOUS
  <2>1. shown.udev[line.number] = line.disk /\ line.disk \in Disks
    BY <1>2 DEF SettledStay, LinesRead
  <2> QED
    BY <2>1, SerialIsSaid
<1> HIDE DEF value
<1>6. DisksKnown' /\ LinesRead' /\ SettledStay'
  BY <1>1 DEF DisksKnown, LinesRead, SettledStay
<1>7. CountersSent'
  <2>1. {m \in sent' : m.desc \in CounterDescs} =
          {m \in sent : m.desc \in CounterDescs} \cup DiskStats!Counters(line)
    <3> HIDE DEF info
    <3> QED
      BY <1>1, <1>3, <1>4, CounterFacts, PropertyFacts, DescsDiffer
  <2>2. PICK exposed : exposed = past.read \ local
    OBVIOUS
  <2>3. PICK next : next = past'.read \ local' /\ next = exposed \cup {line}
    BY <1>1, <1>2, <2>2
  <2>4. {m \in sent : m.desc \in CounterDescs} = UNION {DiskStats!Counters(l) : l \in exposed}
    BY <2>2 DEF CountersSent
  <2>5. ASSUME NEW m
        PROVE  m \in {x \in sent' : x.desc \in CounterDescs} <=>
                 m \in UNION {DiskStats!Counters(l) : l \in next}
    <3>1. m \in UNION {DiskStats!Counters(l) : l \in next} <=> \E l \in next : m \in DiskStats!Counters(l)
      OBVIOUS
    <3>2. m \in UNION {DiskStats!Counters(l) : l \in exposed} <=>
            \E l \in exposed : m \in DiskStats!Counters(l)
      OBVIOUS
    <3>3. m \in {x \in sent' : x.desc \in CounterDescs} <=>
            (\E l \in exposed : m \in DiskStats!Counters(l)) \/ m \in DiskStats!Counters(line)
      BY <2>1, <2>4, <3>2
    <3> QED
      BY <2>3, <3>1, <3>3
  <2>6. {m \in sent' : m.desc \in CounterDescs} = UNION {DiskStats!Counters(l) : l \in next}
    BY <2>5
  <2> QED
    BY <2>3, <2>6 DEF CountersSent, CounterDescs
<1>8. InfosSent'
  <2>1. ASSUME NEW m
        PROVE  m \in sent' /\ m.desc = DiskInfo <=>
                 (m \in sent /\ m.desc = DiskInfo) \/ m = InfoMetric(line, value)
    <3> HIDE DEF info
    <3> QED
      BY <1>1, <1>3, <1>4, CounterFacts, PropertyFacts
  <2>2. ASSUME NEW l \in past.read \ local
        PROVE  l.disk # line.disk
    BY <1>2 DEF LinesRead
  <2>3. ASSUME NEW l \in past.read \ local
        PROVE  \E v : /\ {m \in sent' : m.desc = DiskInfo /\ m.disk = l.disk} = {InfoMetric(l, v)}
                      /\ l.number \in past.settled => v = Serial(l.disk)
    <3>1. PICK v : /\ {m \in sent : m.desc = DiskInfo /\ m.disk = l.disk} = {InfoMetric(l, v)}
                   /\ l.number \in past.settled => v = Serial(l.disk)
      BY DEF InfosSent
    <3>2. {m \in sent' : m.desc = DiskInfo /\ m.disk = l.disk} =
            {m \in sent : m.desc = DiskInfo /\ m.disk = l.disk}
      BY <1>4, <2>1, <2>2
    <3> QED
      BY <3>1, <3>2
  <2>4. {m \in sent' : m.desc = DiskInfo /\ m.disk = line.disk} = {InfoMetric(line, value)}
    <3>1. \A m \in sent : m.desc = DiskInfo => m.disk # line.disk
      BY <2>2 DEF InfosSent
    <3> QED
      BY <1>4, <2>1, <3>1
  <2>5. ASSUME NEW m \in sent', m.desc = DiskInfo
        PROVE  \E l \in past.read \ local' : l.disk = m.disk
    <3>1. CASE m \in sent
      BY <1>2, <2>5, <3>1 DEF InfosSent
    <3>2. CASE m = InfoMetric(line, value)
      BY <1>2, <1>4, <3>2
    <3> QED
      BY <2>1, <2>5, <3>1, <3>2
  <2>6. ASSUME NEW l \in past.read \ local'
        PROVE  \E v : /\ {m \in sent' : m.desc = DiskInfo /\ m.disk = l.disk} = {InfoMetric(l, v)}
                      /\ l.number \in past.settled => v = Serial(l.disk)
    BY <1>2, <1>5, <2>3, <2>4
  <2> QED
    BY <1>1, <2>5, <2>6 DEF InfosSent
<1> QED
  BY <1>6, <1>7, <1>8

LEMMA DiskStep == DiskInv /\ [UpdateNext]_<<collector, vars>> => DiskInv'
<1> SUFFICES ASSUME DiskInv, [UpdateNext]_<<collector, vars>>, collector = "diskstats"
             PROVE  (DisksKnown /\ LinesRead /\ SettledStay /\ CountersSent /\ InfosSent)'
  BY CollectorStays DEF DiskInv
<1>1. DisksKnown /\ LinesRead /\ SettledStay /\ CountersSent /\ InfosSent
  BY DEF DiskInv
<1>2. CASE UNCHANGED <<collector, vars>>
  <2>1. shown' = shown /\ pc' = pc /\ local' = local /\ past' = past /\ sent' = sent
    BY <1>2 DEF vars
  <2>2. DisksKnown' /\ LinesRead' /\ SettledStay'
    BY <1>1, <2>1 DEF DisksKnown, LinesRead, SettledStay
  <2> QED
    BY <1>1, <2>1, <2>2, SentStays
<1>3. CASE DiskStats!Change
  <2>1. pc \in {"idle", "loop"}
    BY <1>3 DEF DiskStats!Change
  <2>2. ASSUME NEW n \in Numbers, DiskStats!Detach(n)
        PROVE  (DisksKnown /\ LinesRead /\ SettledStay /\ CountersSent /\ InfosSent)'
    <3>1. /\ shown' = [shown EXCEPT !.disk[n] = NoDisk]
          /\ past' = [past EXCEPT !.settled = @ \ {n}]
          /\ UNCHANGED <<pc, local, sent>>
      BY <2>2 DEF DiskStats!Detach
    <3> QED
      BY <1>1, <2>1, <3>1, AttachStep
  <2>3. ASSUME NEW n \in Numbers, NEW d \in Disks, DiskStats!Attach(n, d)
        PROVE  (DisksKnown /\ LinesRead /\ SettledStay /\ CountersSent /\ InfosSent)'
    <3>1. /\ \A m \in Numbers : shown.disk[m] # d
          /\ shown' = [shown EXCEPT !.disk[n] = d]
          /\ past' = [past EXCEPT !.settled = @ \ {n}]
          /\ UNCHANGED <<pc, local, sent>>
      BY <2>3 DEF DiskStats!Attach
    <3> QED
      BY <1>1, <2>1, <3>1, AttachStep
  <2> QED
    BY <1>1, <1>3, <2>2, <2>3, FollowStep DEF DiskStats!Change
<1>4. CASE DiskStats!ReadDiskstats
  BY <1>1, <1>4, ReadStep
<1>5. CASE DiskStats!ReadDiskstatsFails \/ DiskStats!UpdateReturns
  <2>1. /\ shown' = shown /\ local' = local /\ past' = past /\ sent' = sent
        /\ \/ pc = "idle" /\ pc' = "failed"
           \/ pc = "loop" /\ local = {} /\ pc' = "done"
    BY <1>5 DEF DiskStats!ReadDiskstatsFails, DiskStats!UpdateReturns
  <2>2. DisksKnown' /\ LinesRead' /\ SettledStay'
    BY <1>1, <2>1 DEF DisksKnown, LinesRead, SettledStay
  <2> QED
    BY <1>1, <2>1, <2>2, SentStays
<1>6. ASSUME NEW line \in local, DiskStats!ExposeDisk(line)
      PROVE  (DisksKnown /\ LinesRead /\ SettledStay /\ CountersSent /\ InfosSent)'
  BY <1>1, <1>6, ExposeStep
<1> QED
  BY <1>2, <1>3, <1>4, <1>5, <1>6 DEF UpdateNext, DiskStats!Next

LEMMA CountersOfDisk ==
  ASSUME DisksKnown, LinesRead, CountersSent, NEW line \in past.read, local = {}
  PROVE  DiskStats!CountersOf(line.disk) = DiskStats!Counters(line)
<1>1. past.read \ local = past.read /\ \A l \in past.read : l.disk = line.disk => l = line
  BY DEF LinesRead
<1>2. {m \in sent : m.desc \in CounterDescs} = UNION {DiskStats!Counters(l) : l \in past.read}
  BY <1>1 DEF CountersSent
<1>3. DiskStats!CountersOf(line.disk) =
        {m \in UNION {DiskStats!Counters(l) : l \in past.read} : m.disk = line.disk}
  BY <1>2 DEF DiskStats!CountersOf, CounterDescs
<1>4. ASSUME NEW m
      PROVE  m \in DiskStats!CountersOf(line.disk) <=> m \in DiskStats!Counters(line)
  BY <1>1, <1>3, CounterFacts
<1> QED
  BY <1>4

(***************************************************************************)
(* The lists of values and of descriptions that diskstats matches by       *)
(* position agree at every place: each value is sent under what it counts, *)
(* in the unit that its factor makes of the kernel's.                      *)
(***************************************************************************)
THEOREM ValuesMatch == UpdateSpec => []ValuesDescribed
<1>1. ASSUME DiskInv, collector = "diskstats", NEW d \in Disks,
             NEW m \in DiskStats!CountersOf(d)
      PROVE  m.desc = DiskStats!Desc(m.field.of,
                                     DiskStats!Converted(m.field.unit, m.field.factor))
  <2>1. m \in {x \in sent : x.desc \in CounterDescs}
    BY DEF DiskStats!CountersOf, CounterDescs
  <2>2. PICK line : m \in DiskStats!Counters(line)
    BY <1>1, <2>1 DEF DiskInv, CountersSent
  <2>3. PICK i \in 1..17 : m.desc = DiskStats!descs[i] /\ m.field = DiskStats!Values[i]
    <3>1. PICK i \in DOMAIN DiskStats!Values :
            m = [desc |-> DiskStats!descs[i], disk |-> line.disk, field |-> DiskStats!Values[i]]
      BY <2>2 DEF DiskStats!Counters
    <3>2. m.desc = DiskStats!descs[i] /\ m.field = DiskStats!Values[i] /\ i \in 1..17
      BY <3>1, Lists
    <3> QED
      BY <3>2
  <2> QED
    BY <2>3, ListsMatch
<1>2. DiskInv => ValuesDescribed
  BY <1>1 DEF ValuesDescribed, DiskStats!ValuesDescribed
<1> QED
  BY <1>2, DiskInit, DiskStep, PTL DEF UpdateSpec

(* What the counters of a line are.                                          *)
LEMMA CountersCount ==
  ASSUME NEW line, line.disk \in Disks
  PROVE  LET count == IoStatsCount[line.disk]
             counters == DiskStats!Counters(line)
         IN  /\ Cardinality(counters) = count - 3
             /\ {m.field.of : m \in counters} =
                  {"reads", "writes", "io"} \cup (IF count >= 18 THEN {"discards"} ELSE {})
                    \cup (IF count >= 20 THEN {"flushes"} ELSE {})
<1> DEFINE count == IoStatsCount[line.disk]
           counters == DiskStats!Counters(line)
           Counter(i) == [desc |-> DiskStats!descs[i], disk |-> line.disk,
                          field |-> DiskStats!Values[i]]
<1>1. count \in {14, 18, 20}
  BY DiskStatsAssumption
<1>2. PICK n \in 11..17 : n = count - 3
  BY <1>1
<1> HIDE DEF count
<1>3. counters = {Counter(i) : i \in 1..n}
  <2>1. {i \in DOMAIN DiskStats!Values : i - 1 < count - 3} = 1..n
    <3>1. \A i \in 1..17 : i - 1 < count - 3 <=> i \in 1..n
      BY <1>1, <1>2
    <3>2. 1..n \subseteq 1..17
      OBVIOUS
    <3> QED
      BY <3>1, <3>2, Lists
  <2> QED
    BY <2>1 DEF DiskStats!Counters, count
<1> HIDE DEF counters
<1>4. Cardinality(counters) = n
  <2> DEFINE bijection == [i \in 1..n |-> Counter(i)]
  <2>1. \A i, j \in 1..n : bijection[i] = bijection[j] => i = j
    <3> SUFFICES ASSUME NEW i \in 1..n, NEW j \in 1..n, Counter(i) = Counter(j)
                 PROVE  i = j
      OBVIOUS
    <3>1. DiskStats!descs[i] = DiskStats!descs[j] /\ i \in 1..17 /\ j \in 1..17
      OBVIOUS
    <3> QED
      BY <3>1, DescsAreDistinct
  <2>2. bijection \in [1..n -> counters] /\ \A m \in counters : \E i \in 1..n : bijection[i] = m
    BY <1>3
  <2>3. IsFiniteSet(1..n) /\ Cardinality(1..n) = n
    <3>1. n \in Int /\ 1 \in Int /\ ~(1 > n) /\ n - 1 + 1 = n
      OBVIOUS
    <3> QED
      BY <3>1, FS_Interval
  <2> HIDE DEF bijection
  <2> QED
    BY <2>1, <2>2, <2>3, OneToOne
<1>5. {m.field.of : m \in counters} = {Kind(i) : i \in 1..n}
  <2>1. \A i \in 1..n : Counter(i).field.of = Kind(i)
    BY ListsMatch
  <2> HIDE DEF Counter
  <2> QED
    BY <1>3, <2>1
<1>6. {Kind(i) : i \in 1..n} =
        {"reads", "writes", "io"} \cup (IF count >= 18 THEN {"discards"} ELSE {})
          \cup (IF count >= 20 THEN {"flushes"} ELSE {})
  <2>1. \A i \in 1..n : Kind(i) \in {"reads", "writes", "io"} \cup
                           (IF n >= 15 THEN {"discards"} ELSE {}) \cup
                           (IF n >= 17 THEN {"flushes"} ELSE {})
    BY <1>1, <1>2 DEF Kind
  <2>2. /\ Kind(1) = "reads" /\ Kind(5) = "writes" /\ Kind(9) = "io"
        /\ Kind(12) = "discards" /\ Kind(16) = "flushes"
    BY DEF Kind
  <2>3. /\ 1 \in 1..n /\ 5 \in 1..n /\ 9 \in 1..n
        /\ n >= 15 => 12 \in 1..n
        /\ n >= 17 => 16 \in 1..n
        /\ count >= 18 <=> n >= 15
        /\ count >= 20 <=> n >= 17
    BY <1>1, <1>2
  <2> QED
    BY <2>1, <2>2, <2>3
<1> QED
  BY <1>2, <1>4, <1>5, <1>6 DEF count, counters

LEMMA SameDiskStatsCardinality == \A S : DiskStats!Cardinality(S) = Cardinality(S)
  BY Zenon DEF DiskStats!Cardinality, Cardinality

(***************************************************************************)
(* When Update of diskstats returns nil, every disk of the table that it   *)
(* read has one info metric and exactly the counters that its kernel has,  *)
(* whatever is attached, detached or learned by udev meanwhile.            *)
(***************************************************************************)
THEOREM DisksWhole == UpdateSpec => []DisksComplete
<1>1. ASSUME DiskInv, collector = "diskstats", pc = "done", NEW line \in past.read
      PROVE  LET count == IoStatsCount[line.disk]
             IN  /\ Cardinality({m \in sent : m.desc = DiskInfo /\ m.disk = line.disk}) = 1
                 /\ Cardinality(DiskStats!CountersOf(line.disk)) = count - 3
                 /\ {m.field.of : m \in DiskStats!CountersOf(line.disk)} =
                      {"reads", "writes", "io"} \cup (IF count >= 18 THEN {"discards"} ELSE {})
                        \cup (IF count >= 20 THEN {"flushes"} ELSE {})
  <2>1. DisksKnown /\ LinesRead /\ CountersSent /\ InfosSent
    BY <1>1 DEF DiskInv
  <2>2. local = {} /\ line.disk \in Disks /\ line \in past.read \ local
    BY <1>1, <2>1 DEF LinesRead
  <2>3. Cardinality({m \in sent : m.desc = DiskInfo /\ m.disk = line.disk}) = 1
    <3>1. \E value : {m \in sent : m.desc = DiskInfo /\ m.disk = line.disk} =
                       {InfoMetric(line, value)}
      BY <2>1, <2>2 DEF InfosSent
    <3> QED
      BY <3>1, FS_Singleton
  <2>4. DiskStats!CountersOf(line.disk) = DiskStats!Counters(line)
    BY <2>1, <2>2, CountersOfDisk
  <2> QED
    BY <2>2, <2>3, <2>4, CountersCount
<1>2. DiskInv => DisksComplete
  BY <1>1, SameDiskStatsCardinality DEF DisksComplete, DiskStats!DisksComplete, DiskInfo
<1> QED
  BY <1>2, DiskInit, DiskStep, PTL DEF UpdateSpec

(* The serial that is sent of a disk is the one that udev gives of this      *)
(* disk, the other one when it has none, as long as the numbers of the disk  *)
(* did not change hands since the table was read.                            *)
LEMMA SerialsOwn == DiskInv /\ collector = "diskstats" => DiskStats!SerialIsOwn
<1>1. ASSUME DiskInv, collector = "diskstats", NEW m \in sent, m.desc = DiskInfo,
             m.number \in past.settled
      PROVE  m.value = Serial(m.disk)
  <2>1. PICK line \in past.read \ local : line.disk = m.disk
    BY <1>1 DEF DiskInv, InfosSent
  <2>2. PICK value : /\ {x \in sent : x.desc = DiskInfo /\ x.disk = line.disk} =
                          {InfoMetric(line, value)}
                     /\ line.number \in past.settled => value = Serial(line.disk)
    BY <1>1 DEF DiskInv, InfosSent
  <2>3. m = InfoMetric(line, value)
    BY <1>1, <2>1, <2>2
  <2>4. m.number = line.number /\ m.value = value
    BY <2>3 DEF InfoMetric
  <2> QED
    BY <1>1, <2>1, <2>2, <2>4
<1> QED
  BY <1>1 DEF DiskStats!SerialIsOwn, DiskInfo, Serial

-------------------------------------------------------------------------------
(* diskstats: the metrics with properties of a disk.                         *)

IsOptional(m) == m.desc.of \in DiskStats!Optional

LEMMA OptionalAre ==
  /\ \A desc \in CounterDescs : desc.of \notin DiskStats!Optional
  /\ DiskInfo.of \notin DiskStats!Optional
<1>1. \A i \in 1..17 : Kind(i) \in {"reads", "writes", "io", "discards", "flushes"}
  BY DEF Kind
<1>2. \A i \in 1..17 : DiskStats!descs[i].of = Kind(i)
  BY ListsMatch
<1>3. \A desc \in CounterDescs : desc.of \in {"reads", "writes", "io", "discards", "flushes"}
  BY <1>1, <1>2, Lists DEF CounterDescs, DiskStats!ToSet
<1> QED
  BY <1>3 DEF DiskStats!Optional, DiskInfo, DiskStats!Desc

LEMMA PropertyIsOptional ==
  ASSUME NEW line, NEW info, NEW m \in DiskStats!Properties(line, info)
  PROVE  IsOptional(m) /\ m.disk = line.disk
<1>1. ASSUME NEW desc, NEW name, m \in Metric(line, info, desc, name)
      PROVE  m.desc = desc /\ m.disk = line.disk
  BY <1>1, MetricDescribed
<1>2. m.disk = line.disk
  BY <1>1, PropertyIs
<1>3. \/ m.desc = DiskStats!Desc("filesystem", "info")
      \/ m.desc = DiskStats!Desc("device_mapper", "info")
      \/ \E a : m.desc = DiskStats!Desc("ata", a)
  BY <1>1, PropertyIs
<1>4. \A of, unit : DiskStats!Desc(of, unit).of = of
  BY DEF DiskStats!Desc
<1> QED
  BY <1>2, <1>3, <1>4 DEF IsOptional, DiskStats!Optional

(* What is sent of the properties of the lines that are exposed.             *)
OptionalOf(d) == {m \in sent : IsOptional(m) /\ m.disk = d}
OwnProperties(line) == DiskStats!Properties(line, DiskStats!getUdevDeviceProperties(line.disk))

PropertiesSent ==
  /\ \A line \in past.read \ local :
       line.number \in past.settled => OptionalOf(line.disk) = OwnProperties(line)
  /\ \A m \in sent : IsOptional(m) => \E line \in past.read \ local : line.disk = m.disk

PropertiesInv == DiskInv /\ (collector = "diskstats" => PropertiesSent)

LEMMA PropertiesInit == UpdateInit => PropertiesInv
<1> SUFFICES ASSUME UpdateInit, DiskStats!Init PROVE PropertiesSent
  BY DiskInit DEF UpdateInit, PropertiesInv
<1>1. sent = {} /\ past.read = {}
  BY DEF DiskStats!Init
<1> QED
  BY <1>1 DEF PropertiesSent

LEMMA PropertiesStay ==
  ASSUME PropertiesSent, sent' = sent, local' = local, past'.read = past.read,
         past'.settled \subseteq past.settled
  PROVE  PropertiesSent'
<1>1. \A d : OptionalOf(d)' = OptionalOf(d)
  BY DEF OptionalOf, IsOptional
<1>2. \A line : OwnProperties(line)' = OwnProperties(line)
  BY DEF OwnProperties
<1>3. \A line \in past'.read \ local' :
        line.number \in past'.settled => OptionalOf(line.disk)' = OwnProperties(line)'
  BY <1>1, <1>2 DEF PropertiesSent
<1>4. \A m \in sent' : IsOptional(m) => \E line \in past'.read \ local' : line.disk = m.disk
  BY DEF PropertiesSent
<1> QED
  BY <1>3, <1>4 DEF PropertiesSent, IsOptional

LEMMA PropertiesExposed ==
  ASSUME LinesRead, SettledStay, PropertiesSent, NEW line \in local, DiskStats!ExposeDisk(line)
  PROVE  PropertiesSent'
<1> DEFINE info == DiskStats!getUdevDeviceProperties(shown.udev[line.number])
<1>1. /\ past' = past /\ local' = local \ {line}
      /\ sent' = sent \cup DiskStats!Counters(line) \cup {DiskStats!Info(line, info)}
                   \cup DiskStats!Properties(line, info)
  BY DEF DiskStats!ExposeDisk
<1>2. line \in past.read /\ past.read \ local' = (past.read \ local) \cup {line}
  BY <1>1 DEF LinesRead
<1>3. DiskStats!Info(line, info).desc = DiskInfo
  BY DEF DiskStats!Info, DiskInfo
<1>4. line.number \in past.settled => info = DiskStats!getUdevDeviceProperties(line.disk)
  <2>1. line.number \in past.settled => shown.udev[line.number] = line.disk
    BY <1>2 DEF SettledStay
  <2> QED
    BY <2>1
<1> HIDE DEF info
<1>5. ASSUME NEW m
      PROVE  m \in sent' /\ IsOptional(m) <=>
               (m \in sent /\ IsOptional(m)) \/ m \in DiskStats!Properties(line, info)
  <2>1. m \in DiskStats!Counters(line) => ~IsOptional(m)
    BY CounterFacts, OptionalAre DEF IsOptional
  <2>2. m = DiskStats!Info(line, info) => ~IsOptional(m)
    BY <1>3, OptionalAre DEF IsOptional
  <2> QED
    BY <1>1, <2>1, <2>2, PropertyIsOptional
<1>6. \A l \in past.read \ local : l.disk # line.disk
  BY <1>2 DEF LinesRead
<1>7. ASSUME NEW l \in past.read \ local, l.number \in past.settled
      PROVE  {m \in sent' : IsOptional(m) /\ m.disk = l.disk} = OwnProperties(l)
  <2>1. {m \in sent : IsOptional(m) /\ m.disk = l.disk} = OwnProperties(l)
    BY <1>7 DEF PropertiesSent, OptionalOf
  <2>2. \A m \in DiskStats!Properties(line, info) : m.disk # l.disk
    BY <1>6, PropertyIsOptional
  <2> QED
    BY <1>5, <2>1, <2>2
<1>8. line.number \in past.settled =>
        {m \in sent' : IsOptional(m) /\ m.disk = line.disk} = OwnProperties(line)
  <2> SUFFICES ASSUME line.number \in past.settled
               PROVE  {m \in sent' : IsOptional(m) /\ m.disk = line.disk} = OwnProperties(line)
    OBVIOUS
  <2>1. OwnProperties(line) = DiskStats!Properties(line, info)
    BY <1>4 DEF OwnProperties
  <2>2. \A m \in sent : IsOptional(m) => m.disk # line.disk
    BY <1>6 DEF PropertiesSent
  <2> QED
    BY <1>5, <2>1, <2>2, PropertyIsOptional
<1>9. \A m \in sent' : IsOptional(m) => \E l \in past.read \ local' : l.disk = m.disk
  <2> SUFFICES ASSUME NEW m \in sent', IsOptional(m)
               PROVE  \E l \in past.read \ local' : l.disk = m.disk
    OBVIOUS
  <2>1. CASE m \in sent
    BY <1>2, <2>1 DEF PropertiesSent
  <2>2. CASE m \in DiskStats!Properties(line, info)
    BY <1>2, <2>2, PropertyIsOptional
  <2> QED
    BY <1>5, <2>1, <2>2
<1>10. \A l \in past'.read \ local' :
         l.number \in past'.settled => OptionalOf(l.disk)' = OwnProperties(l)'
  <2>1. \A l : /\ OwnProperties(l)' = OwnProperties(l)
                /\ OptionalOf(l.disk)' = {m \in sent' : IsOptional(m) /\ m.disk = l.disk}
    BY DEF OwnProperties, OptionalOf, IsOptional
  <2> QED
    BY <1>1, <1>2, <1>7, <1>8, <2>1
<1> QED
  BY <1>1, <1>9, <1>10 DEF PropertiesSent, IsOptional

LEMMA PropertiesStep == PropertiesInv /\ [UpdateNext]_<<collector, vars>> => PropertiesInv'
<1> SUFFICES ASSUME PropertiesInv, [UpdateNext]_<<collector, vars>>, collector = "diskstats"
             PROVE  PropertiesSent'
  BY DiskStep, CollectorStays DEF PropertiesInv
<1>1. LinesRead /\ SettledStay /\ PropertiesSent
  BY DEF PropertiesInv, DiskInv
<1>2. CASE UNCHANGED <<collector, vars>>
  BY <1>1, <1>2, PropertiesStay DEF vars
<1>3. CASE DiskStats!Change
  <2>1. /\ sent' = sent /\ local' = local
        /\ past' = past \/ \E n : past' = [past EXCEPT !.settled = @ \ {n}]
    BY <1>3 DEF DiskStats!Change, DiskStats!Attach, DiskStats!Detach, DiskStats!UdevFollows
  <2>2. past'.read = past.read /\ past'.settled \subseteq past.settled
    BY <1>1, <2>1 DEF LinesRead
  <2> QED
    BY <1>1, <2>1, <2>2, PropertiesStay
<1>4. CASE DiskStats!ReadDiskstats
  <2>1. pc = "idle" /\ sent' = sent /\ past'.read = local'
    BY <1>4 DEF DiskStats!ReadDiskstats
  <2>2. past.read = {} /\ past'.read \ local' = {}
    BY <1>1, <2>1 DEF LinesRead
  <2>3. \A m \in sent' : ~IsOptional(m)
    BY <1>1, <2>1, <2>2 DEF PropertiesSent
  <2> QED
    BY <2>2, <2>3 DEF PropertiesSent, IsOptional
<1>5. CASE DiskStats!ReadDiskstatsFails \/ DiskStats!UpdateReturns
  <2>1. local' = local /\ past' = past /\ sent' = sent
    BY <1>5 DEF DiskStats!ReadDiskstatsFails, DiskStats!UpdateReturns
  <2> QED
    BY <1>1, <2>1, PropertiesStay
<1>6. ASSUME NEW line \in local, DiskStats!ExposeDisk(line)
      PROVE  PropertiesSent'
  BY <1>1, <1>6, PropertiesExposed
<1> QED
  BY <1>2, <1>3, <1>4, <1>5, <1>6 DEF UpdateNext, DiskStats!Next

LEMMA OwnPropertyIs ==
  ASSUME NEW line, line.disk \in Disks, NEW m \in OwnProperties(line)
  PROVE  /\ m.value = DiskStats!Says(line.disk, DiskStats!PropertyOf(m.desc)) /\ m.value # ""
         /\ m.desc.of = "ata" =>
              DiskStats!Says(line.disk, "ID_ATA") # "" /\ m.value \in DiskStats!Numerals
<1>1. PICK info : info = DiskStats!getUdevDeviceProperties(line.disk)
  OBVIOUS
<1>2. \A name : DiskStats!At(info, name) = DiskStats!Says(line.disk, name)
  BY <1>1, PropertiesAreSaid
<1>3. \A of, unit : DiskStats!Desc(of, unit).of = of /\ DiskStats!Desc(of, unit).unit = unit
  BY DEF DiskStats!Desc
<1>4. CASE m \in Metric(line, info, DiskStats!Desc("filesystem", "info"), "ID_FS_TYPE")
  <2>1. m.desc = DiskStats!Desc("filesystem", "info")
    BY <1>4, MetricDescribed
  <2>2. m.value = DiskStats!At(info, "ID_FS_TYPE") /\ m.value # ""
    <3>1. m.value = DiskStats!At(info, "ID_FS_TYPE")
      BY <1>4, MetricValued
    <3>2. DiskStats!At(info, "ID_FS_TYPE") # ""
      BY <1>4, MetricNotEmpty
    <3> QED
      BY <3>1, <3>2
  <2>3. m.desc.of = "filesystem"
    BY <1>3, <2>1
  <2>4. DiskStats!PropertyOf(m.desc) = "ID_FS_TYPE"
    BY <2>3 DEF DiskStats!PropertyOf
  <2> QED
    BY <1>2, <2>3, <2>4, <2>2
<1>5. CASE m \in Metric(line, info, DiskStats!Desc("device_mapper", "info"), "DM_NAME")
  <2>1. m.desc = DiskStats!Desc("device_mapper", "info")
    BY <1>5, MetricDescribed
  <2>2. m.value = DiskStats!At(info, "DM_NAME") /\ m.value # ""
    <3>1. m.value = DiskStats!At(info, "DM_NAME")
      BY <1>5, MetricValued
    <3>2. DiskStats!At(info, "DM_NAME") # ""
      BY <1>5, MetricNotEmpty
    <3> QED
      BY <3>1, <3>2
  <2>3. m.desc.of = "device_mapper"
    BY <1>3, <2>1
  <2>4. DiskStats!PropertyOf(m.desc) = "DM_NAME"
    BY <2>3 DEF DiskStats!PropertyOf
  <2> QED
    BY <1>2, <2>3, <2>4, <2>2
<1>6. ASSUME DiskStats!At(info, "ID_ATA") # "", NEW a \in DiskStats!ataDescs,
             DiskStats!At(info, a) \in DiskStats!Numerals,
             m \in Metric(line, info, DiskStats!Desc("ata", a), a)
      PROVE  /\ m.value = DiskStats!Says(line.disk, DiskStats!PropertyOf(m.desc)) /\ m.value # ""
             /\ DiskStats!Says(line.disk, "ID_ATA") # "" /\ m.value \in DiskStats!Numerals
  <2> DEFINE desc == DiskStats!Desc("ata", a)
  <2>1. m \in Metric(line, info, desc, a)
    BY <1>6
  <2> HIDE DEF desc
  <2>2. m.desc = desc
    BY <2>1, MetricDescribed
  <2>3. m.value = DiskStats!At(info, a) /\ m.value # ""
    <3>1. m.value = DiskStats!At(info, a)
      BY <2>1, MetricValued
    <3>2. DiskStats!At(info, a) # ""
      BY <1>6 DEF DiskStats!Numerals
    <3> QED
      BY <3>1, <3>2
  <2>4. m.desc.of = "ata" /\ m.desc.unit = a
    BY <1>3, <2>2 DEF desc
  <2>5. DiskStats!PropertyOf(m.desc) = a
    BY <2>4 DEF DiskStats!PropertyOf
  <2> QED
    BY <1>2, <1>6, <2>5, <2>3
<1> QED
  BY <1>1, <1>4, <1>5, <1>6, PropertyIs DEF OwnProperties

LEMMA OwnPropertiesGiven ==
  ASSUME NEW line, line.disk \in Disks
  PROVE  /\ DiskStats!Says(line.disk, "ID_FS_TYPE") # "" =>
              \E m \in OwnProperties(line) : m.desc.of = "filesystem"
         /\ DiskStats!Says(line.disk, "DM_NAME") # "" =>
              \E m \in OwnProperties(line) : m.desc.of = "device_mapper"
         /\ \A a \in DiskStats!ataDescs :
              DiskStats!Says(line.disk, "ID_ATA") # ""
                /\ DiskStats!Says(line.disk, a) \in DiskStats!Numerals =>
                \E m \in OwnProperties(line) : m.desc = DiskStats!Desc("ata", a)
<1>1. PICK info : info = DiskStats!getUdevDeviceProperties(line.disk)
  OBVIOUS
<1>2. \A name : DiskStats!At(info, name) = DiskStats!Says(line.disk, name)
  BY <1>1, PropertiesAreSaid
<1>3. \A of, unit : DiskStats!Desc(of, unit).of = of /\ DiskStats!Desc(of, unit).unit = unit
  BY DEF DiskStats!Desc
<1>4. ASSUME DiskStats!Says(line.disk, "ID_FS_TYPE") # ""
      PROVE  \E m \in OwnProperties(line) : m.desc.of = "filesystem"
  <2>1. PICK m : m \in Metric(line, info, DiskStats!Desc("filesystem", "info"), "ID_FS_TYPE")
    BY <1>2, <1>4, MetricGiven
  <2>2. m \in OwnProperties(line)
    BY <1>1, <2>1, PropertyIs DEF OwnProperties
  <2>3. m.desc = DiskStats!Desc("filesystem", "info")
    BY <2>1, MetricDescribed
  <2> QED
    BY <1>3, <2>2, <2>3
<1>5. ASSUME DiskStats!Says(line.disk, "DM_NAME") # ""
      PROVE  \E m \in OwnProperties(line) : m.desc.of = "device_mapper"
  <2>1. PICK m : m \in Metric(line, info, DiskStats!Desc("device_mapper", "info"), "DM_NAME")
    BY <1>2, <1>5, MetricGiven
  <2>2. m \in OwnProperties(line)
    BY <1>1, <2>1, PropertyIs DEF OwnProperties
  <2>3. m.desc = DiskStats!Desc("device_mapper", "info")
    BY <2>1, MetricDescribed
  <2> QED
    BY <1>3, <2>2, <2>3
<1>6. ASSUME NEW a \in DiskStats!ataDescs, DiskStats!Says(line.disk, "ID_ATA") # "",
             DiskStats!Says(line.disk, a) \in DiskStats!Numerals
      PROVE  \E m \in OwnProperties(line) : m.desc = DiskStats!Desc("ata", a)
  <2>1. DiskStats!At(info, "ID_ATA") # "" /\ DiskStats!At(info, a) \in DiskStats!Numerals
    BY <1>2, <1>6
  <2>2. DiskStats!At(info, a) # ""
    BY <2>1 DEF DiskStats!Numerals
  <2>3. PICK m : m \in Metric(line, info, DiskStats!Desc("ata", a), a)
    BY <2>2, MetricGiven
  <2>4. m \in OwnProperties(line)
    BY <1>1, <2>1, <2>3, PropertyIs DEF OwnProperties
  <2> QED
    BY <2>3, <2>4, MetricDescribed
<1> QED
  BY <1>4, <1>5, <1>6

(***************************************************************************)
(* A disk that was read is exposed with the serial, the filesystem, the    *)
(* device mapper name and the ATA attributes that udev gives of this disk, *)
(* with all of them and none but the serial empty, as long as its numbers  *)
(* did not change hands since the table was read.                          *)
(***************************************************************************)
THEOREM PropertiesOwn == UpdateSpec => []PropertiesAreOwn
<1>1. ASSUME PropertiesInv, collector = "diskstats", NEW line \in past.read \ local,
             line.number \in past.settled
      PROVE  LET d == line.disk
                 given == {m \in sent : m.disk = d /\ m.desc.of \in DiskStats!Optional}
                 IsATA == DiskStats!Says(d, "ID_ATA") # ""
             IN  /\ \A m \in given : m.value = DiskStats!Says(d, DiskStats!PropertyOf(m.desc)) /\ m.value # ""
                 /\ \A m \in given : m.desc.of = "ata" => IsATA /\ m.value \in DiskStats!Numerals
                 /\ DiskStats!Says(d, "ID_FS_TYPE") # "" => \E m \in given : m.desc.of = "filesystem"
                 /\ DiskStats!Says(d, "DM_NAME") # "" => \E m \in given : m.desc.of = "device_mapper"
                 /\ \A a \in DiskStats!ataDescs :
                      IsATA /\ DiskStats!Says(d, a) \in DiskStats!Numerals =>
                        \E m \in given : m.desc = DiskStats!Desc("ata", a)
  <2>1. line.disk \in Disks
    BY <1>1 DEF PropertiesInv, DiskInv, LinesRead
  <2>2. {m \in sent : m.disk = line.disk /\ m.desc.of \in DiskStats!Optional} = OwnProperties(line)
    BY <1>1 DEF PropertiesInv, PropertiesSent, OptionalOf, IsOptional
  <2> QED
    BY <2>1, <2>2, OwnPropertyIs, OwnPropertiesGiven
<1>2. PropertiesInv => PropertiesAreOwn
  BY <1>1, SerialsOwn DEF PropertiesInv, PropertiesAreOwn, DiskStats!PropertiesAreOwn
<1> QED
  BY <1>2, PropertiesInit, PropertiesStep, PTL DEF UpdateSpec
===============================================================================
