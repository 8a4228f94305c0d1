------------------------- MODULE MCStatelessCollectors -------------------------
(***************************************************************************)
(* An instance of StatelessCollectors for TLC.                             *)
(***************************************************************************)
EXTENDS StatelessCollectors, SequencesExt, FiniteSets, TLC

CONSTANTS sda, dm0, p0, p1, p2

(* diskstats: an ATA disk with a serial that is given as empty, on a kernel  *)
(* that counts flushes or not, and a device mapper disk without a serial.    *)
OneIoStatsCount == sda :> 20
AllIoStatsCounts == (sda :> 20) @@ (dm0 :> 14)

Property(name, value) == [prefix |-> "E:", fields |-> <<name, value>>]
Lines ==
  (sda :> << [prefix |-> "S:", fields |-> <<"disk">>],
             Property("ID_SERIAL_SHORT", "x"), Property("ID_SERIAL_SHORT", "y"),
             Property("SCSI_IDENT_SERIAL", ""),
             Property("ID_ATA", "1"), Property("ID_ATA_WRITE_CACHE", "1"),
             Property("ID_ATA_ROTATION_RATE_RPM", "?") >>)
  @@ (dm0 :> << Property("DM_NAME", "root"), [prefix |-> "E:", fields |-> <<"DM_UUID">>],
                Property("ID_FS_TYPE", "ext4"), Property("ID_ATA_WRITE_CACHE", "1"),
                Property("SCSI_IDENT_SERIAL", "z") >>)

(* cpu: two packages whose cores have the same number.  One has a core of two *)
(* processors, both with the count of the package and only the second with   *)
(* that of the core; the other has no count of the package.                  *)
ThreeCPUs == <<p0, p1, p2>>
TwoPackages == (p0 :> 0) @@ (p1 :> 0) @@ (p2 :> 1)
SameCore == [p \in {p0, p1, p2} |-> 0]

(* meminfo: all files of up to three of these lines, each at most once.      *)
Line(name, paren, fields, value) ==
  [name |-> name, paren |-> paren, fields |-> fields, value |-> value]
GoodLines ==
  { Line(<<"Active">>, <<>>, 3, 5), Line(<<"Active">>, <<"anon">>, 3, 4),
    Line(<<"HugePages", "Total">>, <<>>, 2, 0), Line(<<"Active">>, <<"anon">>, 2, 0),
    Line(<<>>, <<>>, 0, 0) }
BadLines ==
  { Line(<<"Mem">>, <<>>, 7, 1), Line(<<"Inactive">>, <<>>, 3, -1) }
ShortLines == { Line(<<"Active">>, <<>>, 1, -1) }
Files(lines) ==
  {file \in BoundedSeq(lines, 3) : \A i, j \in DOMAIN file : file[i] = file[j] => i = j}
UsualFiles == Files(GoodLines \cup BadLines)
ShortFiles == Files(GoodLines \cup ShortLines)

(* cpufreq: one processor with any of the frequencies missing.               *)
Bounds == {"CpuinfoMinimumFrequency", "CpuinfoMaximumFrequency",
           "ScalingMinimumFrequency", "ScalingMaximumFrequency"}
Frequency(field) ==
  CASE field = "CpuinfoMinimumFrequency" -> 1 [] field = "ScalingMinimumFrequency" -> 2
    [] field = "ScalingMaximumFrequency" -> 3 [] field = "CpuinfoMaximumFrequency" -> 4
    [] OTHER -> 2
Frequencies ==
  {[f \in fields |-> Frequency(f)] :
     fields \in SUBSET (Bounds \cup {"CpuinfoCurrentFrequency", "ScalingCurrentFrequency"})}
GovernorFiles ==
  {[Governor |-> "", AvailableGovernors |-> <<"">>],
   [Governor |-> "powersave", AvailableGovernors |-> <<"performance", "powersave">>],
   [Governor |-> "performance", AvailableGovernors |-> <<"performance", "powersave">>],
   [Governor |-> "powersave", AvailableGovernors |-> <<"powersave">>]}
CPUFreqFiles ==
  {(p0 :> [freq |-> freq, Governor |-> g.Governor, AvailableGovernors |-> g.AvailableGovernors]) :
     freq \in Frequencies, g \in GovernorFiles}

(* filesystem: what follows the slash of a mount point, up to two characters. *)
Names == BoundedSeq({"a", "040", "134", " ", "\t", "\n", "\\"}, 2)
===============================================================================
