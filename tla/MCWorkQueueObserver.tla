------------------------ MODULE MCWorkQueueObserver ------------------------
(* Two queues and three task ids; the client follows one of the queues. *)
EXTENDS WorkQueueObserver, TLC

CONSTANTS t1, t2, t3

MCJobs ==
  {[queue |-> q, key |-> NoKey, priority |-> 0, maxAttempts |-> 1,
    timeout |-> 1, delay |-> 0] : q \in Queues}

Symmetry == Permutations(Ids)
=============================================================================
