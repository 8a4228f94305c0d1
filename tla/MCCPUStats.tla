------------------------------ MODULE MCCPUStats ------------------------------
(***************************************************************************)
(* Instances of CPUStats for TLC: one processor whose counters stand still *)
(* and one that is idle for three seconds, one more than the limit, and    *)
(* busy for one.                                                           *)
(***************************************************************************)
EXTENDS CPUStats, TLC

CONSTANTS c1, c2    \* processors

ThreeIdleSeconds ==
  (c1 :> [f \in Fields |-> 0]) @@ (c2 :> [f \in Fields |-> IF f = Idle THEN 3 ELSE 1])

Symmetric == Permutations(Scrapes)
===============================================================================
