-------------------------- MODULE MCDaemonTakeover --------------------------
(* A daemon of an old build and two of a newer one. *)
EXTENDS DaemonTakeover, TLC

MCBuild == [d \in Daemons |-> IF d = First THEN "old" ELSE "new"]

Symmetry == Permutations(Sessions)
=============================================================================
