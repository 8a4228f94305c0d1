------------------------------ MODULE MountTable ------------------------------
(***************************************************************************)
(* The mount table of the filesystem collector: mountPointDetails and      *)
(* parseFilesystemLabels of collector/filesystem_linux.go.  Filesystem     *)
(* starts from the table that these return.                                *)
(*                                                                         *)
(* The kernel separates the fields of a line by spaces and replaces spaces *)
(* and other characters in them by a backslash and three octal digits.  A  *)
(* mount point is a sequence of characters, three digits counting as one.  *)
(***************************************************************************)
EXTENDS Integers, Sequences, SequencesExt

VARIABLES
  shown,    \* the lines of /proc/1/mounts
  pc,       \* control point
  local,    \* locals that outlive a step: none
  past,     \* history: the mount points themselves
  sent      \* the mount points of the table that is returned

Backslash == "\\"
Octal == [c \in {" ", "\t", "\n", Backslash} |->
            CASE c = " " -> "040" [] c = "\t" -> "011" [] c = "\n" -> "012"
              [] c = Backslash -> "134"]

(* What the kernel shows of a mount point.                                   *)
Mangle(name) ==
  FoldLeft(LAMBDA out, c : out \o (IF c \in DOMAIN Octal THEN <<Backslash, Octal[c]>> ELSE <<c>>),
           <<>>, name)

(* A table of these mount points, on lines of so many fields.                *)
InitWith(names, fields) ==
  /\ shown = [i \in DOMAIN names |-> [fields |-> fields[i], mountPoint |-> Mangle(names[i])]]
  /\ pc = "idle"
  /\ local = <<>>
  /\ past = names
  /\ sent = <<>>

-------------------------------------------------------------------------------
(* strings.Replace of the escape sequence of c by c.                         *)
Replace(name, c) ==
  FoldLeft(LAMBDA out, d : IF d = Octal[c] /\ out # <<>> /\ Last(out) = Backslash
                           THEN Append(Front(out), c)
                           ELSE Append(out, d),
           <<>>, name)

(* Mutant: backslashes are translated first, and what they give once more.   *)
TranslateTwice(name) == Replace(Replace(Replace(name, Backslash), " "), "\t")

(* Mutant: tabs are left as they are.                                        *)
TranslateSpaces(name) == Replace(name, " ")

(* The translation of \040 and \011.                                         *)
Translate(name) == Replace(Replace(name, " "), "\t")

(* parseFilesystemLabels: a line of less than four fields is an error, even  *)
(* when it is empty.                                                         *)
parseFilesystemLabels ==
  /\ pc = "idle"
  /\ IF \E i \in DOMAIN shown : shown[i].fields < 4
     THEN pc' = "failed" /\ UNCHANGED sent
     ELSE /\ pc' = "done"
          /\ sent' = [i \in DOMAIN shown |-> Translate(shown[i].mountPoint)]
  /\ UNCHANGED <<shown, local, past>>

(* mountPointDetails: neither /proc/1/mounts nor, when there is no such      *)
(* file, /proc/mounts can be opened, or the reading fails.                   *)
MountPointDetailsFails ==
  /\ pc = "idle"
  /\ pc' = "failed"
  /\ UNCHANGED <<shown, local, past, sent>>

Next == parseFilesystemLabels \/ MountPointDetailsFails

-------------------------------------------------------------------------------
(* Properties.                                                               *)

Plain(name) == \A i \in DOMAIN name : name[i] \notin {"\n", Backslash}

(***************************************************************************)
(* A mount point is the argument of statfs: the name that is returned is   *)
(* the one that was mounted on, spaces and tabs included, unless it has a  *)
(* newline or a backslash in it, which are not translated.  And, with      *)
(* these too, different mount points keep different names, so that neither *)
(* their series nor their marks in stuckMounts are taken for one another's:*)
(* the digits 040 in a name, after a backslash even, are not taken for a   *)
(* space.                                                                  *)
(***************************************************************************)
MountPointsKept ==
  pc = "done" =>
    /\ \A i \in DOMAIN past : Plain(past[i]) => sent[i] = past[i]
    /\ \A i, j \in DOMAIN past : sent[i] = sent[j] => past[i] = past[j]
===============================================================================
