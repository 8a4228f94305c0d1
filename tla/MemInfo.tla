-------------------------------- MODULE MemInfo --------------------------------
(***************************************************************************)
(* The meminfo collector: collector/meminfo_linux.go.  It keeps no state:  *)
(* an Update reads /proc/meminfo once and exposes all of it or nothing.    *)
(*                                                                         *)
(* A line is a record: the words of the name of the field (Active(anon) is *)
(* the name Active with the word anon in parentheses), the number of       *)
(* fields of the line and its value.  The name of a metric is the sequence *)
(* of words that the code joins with underscores.                          *)
(***************************************************************************)
EXTENDS Integers, Sequences, FiniteSets, SequencesExt

VARIABLES
  shown,    \* the lines of /proc/meminfo
  pc,       \* control point of Update
  local,    \* locals of Update that outlive a step: none
  past,     \* history: none
  sent      \* the metrics sent so far

NotANumber == -1      \* a value that ParseFloat refuses

InitWith(lines) ==
  /\ shown = lines
  /\ pc = "idle"
  /\ local = <<>>
  /\ past = <<>>
  /\ sent = {}

-------------------------------------------------------------------------------
(* Mutant: what is in parentheses is cut off.                                *)
KeyCutOff(line) == line.name

(* The name of the field without its colon, "(anon)" being made "_anon".     *)
Key(line) == line.name \o line.paren

Parsed(info) == [err |-> "", info |-> info]
Failed(err) == [err |-> err, info |-> <<>>]

(* memInfo[key] = value                                                      *)
Put(info, key, value) == [k \in DOMAIN info \cup {key} |-> IF k = key THEN value ELSE info[k]]

(* One line.  The second field is parsed before the fields are counted.      *)
ParseLine(info, line) ==
  CASE line.fields = 0 -> Parsed(info)
    [] line.fields = 1 -> Failed("index out of range")
    [] line.fields > 1 /\ line.value = NotANumber -> Failed("invalid value")
    [] line.fields = 2 /\ line.value # NotANumber ->
         Parsed(Put(info, Key(line), line.value))
    [] line.fields = 3 /\ line.value # NotANumber ->
         Parsed(Put(info, Append(Key(line), "bytes"), 1024 * line.value))
    [] OTHER -> Failed("invalid line")

parseMemInfo(lines) ==
  FoldLeft(LAMBDA acc, line : IF acc.err = "" THEN ParseLine(acc.info, line) ELSE acc,
           Parsed(<<>>), lines)

Update ==
  /\ pc = "idle"
  /\ LET result == parseMemInfo(shown)
     IN  /\ pc' = CASE result.err = "" -> "done"
                    [] result.err = "index out of range" -> "panicked"
                    [] OTHER -> "failed"
         /\ sent' = {[key |-> k, value |-> result.info[k]] : k \in DOMAIN result.info}
  /\ UNCHANGED <<shown, local, past>>

(* /proc/meminfo cannot be opened or read.                                   *)
UpdateFails ==
  /\ pc = "idle"
  /\ pc' = "failed"
  /\ UNCHANGED <<shown, local, past, sent>>

Next == Update \/ UpdateFails

-------------------------------------------------------------------------------
(* Properties.                                                               *)

Lines(n) == {i \in DOMAIN shown : shown[i].fields \in n}

(***************************************************************************)
(* An Update that returns nil has exposed a series of its own for every    *)
(* line that is not empty, and one that does not has exposed nothing: no   *)
(* field is lost to another whose name differs by what is in parentheses.  *)
(***************************************************************************)
MemInfoComplete ==
  /\ pc = "done" => Cardinality(sent) = Cardinality(Lines({2, 3}))
  /\ pc = "done" => Lines({0, 2, 3}) = DOMAIN shown
  /\ pc # "done" => sent = {}

(***************************************************************************)
(* "invalid line in meminfo": a line that has neither two fields nor three *)
(* is answered with an error.                                              *)
(***************************************************************************)
InvalidLineIsError == pc # "panicked"
===============================================================================
