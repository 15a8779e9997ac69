---------------------------- MODULE MCWorkQueue ----------------------------
(* A queue of three task ids for TLC. *)
EXTENDS WorkQueue, TLC

CONSTANTS t1, t2, t3, k

\* One job carries a dedupe key, one is urgent and may be tried only once.
MCJobs ==
  {[queue |-> "build", key |-> k, priority |-> 0, maxAttempts |-> 2,
    timeout |-> 1, delay |-> 0],
   [queue |-> "build", key |-> NoKey, priority |-> 1, maxAttempts |-> 1,
    timeout |-> 2, delay |-> 1]}

Symmetry == Permutations(Ids)
=============================================================================
