-------------------------------- MODULE CPUFreq --------------------------------
(***************************************************************************)
(* The cpufreq collector: collector/cpufreq_linux.go.  It keeps no state   *)
(* and reads sysfs once.  Of every processor six frequencies, in kHz, may  *)
(* be readable or not, each for itself, and the governors may be missing.  *)
(***************************************************************************)
EXTENDS Integers, Sequences, FiniteSets, SequencesExt

VARIABLES
  shown,    \* per processor: [freq, Governor, AvailableGovernors]
  pc,       \* control point of Update
  local,    \* locals of Update that outlive a step: none
  past,     \* history: none
  sent      \* the metrics sent so far

InitWith(cpus) ==
  /\ shown = cpus
  /\ pc = "idle"
  /\ local = <<>>
  /\ past = <<>>
  /\ sent = {}

-------------------------------------------------------------------------------
(* Mutant: the bounds of the scaling frequency are exchanged.                *)
DescSwapped(field) ==
  CASE field = "CpuinfoCurrentFrequency" -> "frequency_hertz"
    [] field = "CpuinfoMinimumFrequency" -> "frequency_min_hertz"
    [] field = "CpuinfoMaximumFrequency" -> "frequency_max_hertz"
    [] field = "ScalingCurrentFrequency" -> "scaling_frequency_hertz"
    [] field = "ScalingMinimumFrequency" -> "scaling_frequency_max_hertz"
    [] field = "ScalingMaximumFrequency" -> "scaling_frequency_min_hertz"

(* The family that a frequency is exposed in.                                *)
Desc(field) ==
  CASE field = "CpuinfoCurrentFrequency" -> "frequency_hertz"
    [] field = "CpuinfoMinimumFrequency" -> "frequency_min_hertz"
    [] field = "CpuinfoMaximumFrequency" -> "frequency_max_hertz"
    [] field = "ScalingCurrentFrequency" -> "scaling_frequency_hertz"
    [] field = "ScalingMinimumFrequency" -> "scaling_frequency_min_hertz"
    [] field = "ScalingMaximumFrequency" -> "scaling_frequency_max_hertz"

(* The frequencies that could be read, which are those in DOMAIN freq.       *)
Frequencies(cpu) ==
  {[desc |-> Desc(f), cpu |-> cpu, value |-> 1000 * shown[cpu].freq[f]] :
     f \in DOMAIN shown[cpu].freq}

(* Mutant: governors are compared with the one before.                       *)
GovernorsShifted(cpu) ==
  LET available == shown[cpu].AvailableGovernors
  IN  {[desc |-> "scaling_governor", cpu |-> cpu, governor |-> available[i],
        value |-> IF i > 1 /\ available[i - 1] = shown[cpu].Governor THEN 1 ELSE 0] :
         i \in DOMAIN available}

(* One series per available governor, if there is a governor at all.         *)
Governors(cpu) ==
  IF shown[cpu].Governor = "" THEN {}
  ELSE {[desc |-> "scaling_governor", cpu |-> cpu, governor |-> g,
         value |-> IF g = shown[cpu].Governor THEN 1 ELSE 0] :
          g \in ToSet(shown[cpu].AvailableGovernors)}

Update ==
  /\ pc = "idle"
  /\ pc' = "done"
  /\ sent' = UNION {Frequencies(cpu) \cup Governors(cpu) : cpu \in DOMAIN shown}
  /\ UNCHANGED <<shown, local, past>>

UpdateFails ==
  /\ pc = "idle"
  /\ pc' = "failed"
  /\ UNCHANGED <<shown, local, past, sent>>

Next == Update \/ UpdateFails

-------------------------------------------------------------------------------
(* Properties.                                                               *)

InFamily(desc, cpu) == {m \in sent : m.desc = desc /\ m.cpu = cpu}

(***************************************************************************)
(* The six frequencies are not taken for one another: every one that could *)
(* be read has a series of its own, and whatever is missing, no minimum is *)
(* exposed above the maximum of its kind.  It is assumed that the files    *)
(* agree (CPUFreqAssumption): they are read one after the other, and a     *)
(* limit that is moved in between may show with both its values.           *)
(***************************************************************************)
FrequenciesOrdered ==
  pc = "done" =>
    \A cpu \in DOMAIN shown :
      /\ Cardinality({m \in sent : m.cpu = cpu /\ m.desc # "scaling_governor"})
           = Cardinality(DOMAIN shown[cpu].freq)
      /\ \A low \in InFamily("frequency_min_hertz", cpu),
            high \in InFamily("frequency_max_hertz", cpu) : low.value <= high.value
      /\ \A low \in InFamily("scaling_frequency_min_hertz", cpu),
            high \in InFamily("scaling_frequency_max_hertz", cpu) : low.value <= high.value

(***************************************************************************)
(* "Current enabled CPU frequency governor": of the series of a processor  *)
(* that has a governor exactly one is 1, that of its governor, and all the *)
(* others are there to be 0.                                               *)
(***************************************************************************)
GovernorOneHot ==
  pc = "done" =>
    \A cpu \in DOMAIN shown :
      LET series == InFamily("scaling_governor", cpu)
          set == {m \in series : m.value = 1}
      IN  IF shown[cpu].Governor = ""
          THEN series = {}
          ELSE /\ {m.governor : m \in set} = {shown[cpu].Governor}
               /\ Cardinality(set) = 1
               /\ Cardinality(series) = Len(shown[cpu].AvailableGovernors)
===============================================================================
