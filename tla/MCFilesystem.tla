----------------------------- MODULE MCFilesystem -----------------------------
(***************************************************************************)
(* Instances of Filesystem for TLC: mount tables and the symmetry of the   *)
(* scrapes.                                                                *)
(***************************************************************************)
EXTENDS Filesystem, TLC

CONSTANTS m1, m2,          \* mount points
          ext4, tmpfs      \* device and filesystem type

LineOf(src, m, o) == [source |-> src, mountPoint |-> m, options |-> o]

(* Two filesystems.                                                          *)
TwoMounts == { <<LineOf(ext4, m1, "rw"), LineOf(tmpfs, m2, "rw")>> }

(* Three lines: m1 is listed twice with the same options, so that a scrape   *)
(* may find m1 stuck that was not when it checked the first line.            *)
RepeatedMount ==
  { <<LineOf(ext4, m1, "rw"), LineOf(tmpfs, m2, "rw"), LineOf(ext4, m1, "rw")>> }

(* One filesystem mounted twice on m1, with different options.               *)
Remounted == { <<LineOf(ext4, m1, "ro"), LineOf(ext4, m1, "rw")>> }

Symmetric == Permutations(Scrapes)
===============================================================================
