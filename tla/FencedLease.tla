---------------------------- MODULE FencedLease ----------------------------
(***************************************************************************)
(* What the work queue promises a worker, without queues, clocks, retries  *)
(* or restarts: an item is free, held under an epoch, or closed.  The      *)
(* epoch of a grant is newer than any the item had, and no other item that *)
(* still has an epoch shares it, so that a holder whose lease was revoked  *)
(* can be told from the current one.                                       *)
(***************************************************************************)
EXTENDS Integers

CONSTANT Ids

VARIABLES phase, epoch

Phases == {"free", "held", "closed"}

Init ==
  /\ phase = [id \in Ids |-> "free"]
  /\ epoch = [id \in Ids |-> 0]

\* A claim.
Grant(id) ==
  /\ phase[id] = "free"
  /\ phase' = [phase EXCEPT ![id] = "held"]
  /\ epoch'[id] \in Nat
  /\ epoch'[id] > epoch[id]
  /\ \A other \in Ids \ {id} : epoch'[id] # epoch[other]
  /\ epoch' = [epoch EXCEPT ![id] = epoch'[id]]

\* An ack, a nack, a reap or a recovery: held items are freed or closed, and
\* keep their epoch so that the late holder stays fenced out.
Revoke(ids) ==
  /\ \A id \in ids : phase[id] = "held" /\ phase'[id] \in {"free", "closed"}
  /\ \A id \in Ids \ ids : phase'[id] = phase[id]
  /\ phase' \in [Ids -> Phases]
  /\ UNCHANGED epoch

\* Retention: closed items lose their epoch.
Forget(ids) ==
  /\ \A id \in ids : phase[id] = "closed"
  /\ epoch' = [id \in Ids |-> IF id \in ids THEN 0 ELSE epoch[id]]
  /\ UNCHANGED phase

Next ==
  \/ \E id \in Ids : Grant(id)
  \/ \E ids \in SUBSET Ids : Revoke(ids)
  \/ \E ids \in SUBSET Ids : Forget(ids)

Spec == Init /\ [][Next]_<<phase, epoch>>
=============================================================================
