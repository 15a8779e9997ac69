------------------------- MODULE ControlServerProofs -------------------------
(***************************************************************************)
(* Proofs about the control server: the work queue, its runners and the    *)
(* clients that poll it, for any set of tasks, queues and workers and for  *)
(* unbounded clocks, leases and retries; a supervised pane, for any number *)
(* of retries, sessions and commands by hand; and an agent's mail, for any *)
(* size of the inbox and any number of messages and sessions.              *)
(***************************************************************************)
EXTENDS MCControlServer, FiniteSetTheorems, TLAPS

(***************************************************************************)
(* The work queue.                                                         *)
(***************************************************************************)

\* While the queue is open, the counters are ahead of every row, so that the
\* next number minted is new; a row that is not stored carries no number.
CountersAhead ==
  /\ up => \A id \in Stored : task[id].seq <= seq /\ task[id].fence <= fence
  /\ \A id \in Ids \ Stored : task[id].fence = 0

\* A task is done only if it was completed.
DoneCompleted == \A id \in Ids : task[id].state = "done" => id \in completed

IInv ==
  /\ TypeOK
  /\ CountersAhead
  /\ NumbersUnique
  /\ DedupeHolds
  /\ RetryBudget
  /\ DoneCompleted
  /\ DepsHonoured

-----------------------------------------------------------------------------
(* What the row operators return. *)

LEMMA BackoffType ==
  ASSUME NEW attempts \in Nat \ {0}
  PROVE  Backoff(attempts) \in Nat
<1> DEFINE shift == IF attempts > MaxShift THEN MaxShift ELSE attempts - 1
<1>1. shift \in 0 .. MaxShift
  BY DEF MaxShift
<1>2. 2 ^ shift \in Nat
  BY <1>1, PowersAssumption
<1> HIDE DEF shift
<1>3. BackoffBase * 2 ^ shift \in Nat
  BY <1>2, TimesAssumption
<1>4. Backoff(attempts) =
        IF BackoffBase * 2 ^ shift < BackoffCap
        THEN BackoffBase * 2 ^ shift ELSE BackoffCap
  BY DEF Backoff, shift
<1> QED
  BY <1>3, <1>4, TimesAssumption

LEMMA LeasedRow ==
  ASSUME NEW old \in Row, NEW w \in Workers, NEW token \in Nat, NEW lease \in Nat,
         now \in Nat
  PROVE  /\ Leased(old, w, token, lease) \in Row
         /\ Leased(old, w, token, lease).state = "claimed"
         /\ Leased(old, w, token, lease).job = old.job
         /\ Leased(old, w, token, lease).deps = old.deps
         /\ Leased(old, w, token, lease).seq = old.seq
         /\ Leased(old, w, token, lease).fence = token
         /\ Leased(old, w, token, lease).attempts = old.attempts + 1
<1>1. old.attempts + 1 \in Nat /\ now + lease \in Nat
  BY DEF Row
<1> QED
  BY <1>1 DEF Leased, Row, Live

LEMMA FinishedRow ==
  ASSUME NEW old \in Row, NEW state \in Terminal, now \in Nat
  PROVE  /\ Finished(old, state) \in Row
         /\ Finished(old, state).state = state
         /\ Finished(old, state).job = old.job
         /\ Finished(old, state).deps = old.deps
         /\ Finished(old, state).seq = old.seq
         /\ Finished(old, state).attempts = old.attempts
         /\ Finished(old, state).fence = old.fence
  BY DEF Finished, Row

LEMMA ReleasedRow ==
  ASSUME NEW old \in Row, NEW at \in Nat, now \in Nat
  PROVE  /\ Released(old, at) \in Row
         /\ Released(old, at).state = "queued"
         /\ Released(old, at).job = old.job
         /\ Released(old, at).deps = old.deps
         /\ Released(old, at).seq = old.seq
         /\ Released(old, at).attempts = old.attempts
         /\ Released(old, at).fence = old.fence
  BY DEF Released, Row, Live

-----------------------------------------------------------------------------
(* Steps that hand back, renew or settle claims: every operation but       *)
(* Enqueue, Claim, Purge and Tick.                                         *)

SameNumbers(new, old) ==
  /\ new.job = old.job /\ new.deps = old.deps /\ new.seq = old.seq
  /\ new.attempts = old.attempts /\ new.fence = old.fence

Handled(ids) ==
  /\ ids \subseteq InFlight
  /\ task' \in [Ids -> Row]
  /\ \A id \in Ids \ ids : task'[id] = task[id]
  /\ \A id \in ids :
       /\ SameNumbers(task'[id], task[id])
       /\ task'[id].state \in Live \cup Terminal
       /\ task'[id].state = "queued" => ~DeadLetters(task[id])
       /\ task'[id].state = "dead" => DeadLetters(task[id])
       /\ task'[id].state = "done" => id \in completed'
  /\ completed \subseteq completed'
  /\ completed' \subseteq Ids

LEMMA StoredSame ==
  ASSUME TypeOK, NEW ids, Handled(ids)
  PROVE  /\ Stored' = Stored
         /\ \A id \in Ids : SameNumbers(task'[id], task[id])
  BY DEF Handled, SameNumbers, Stored, InFlight, Live, Terminal

LEMMA HandledKeeps ==
  ASSUME IInv, NEW ids, Handled(ids),
         seq' \in Nat, fence' \in Nat, now' \in Nat, up' \in BOOLEAN,
         up' => \A id \in Stored : task[id].seq <= seq' /\ task[id].fence <= fence'
  PROVE  IInv'
<1>1. Stored' = Stored /\ \A id \in Ids : SameNumbers(task'[id], task[id])
  BY StoredSame DEF IInv
<1>2. TypeOK'
  BY <1>1 DEF IInv, TypeOK, Handled, SameNumbers, Stored
<1>3. CountersAhead'
  BY <1>1 DEF IInv, CountersAhead, SameNumbers, Stored
<1>4. NumbersUnique'
  BY <1>1 DEF IInv, NumbersUnique, SameNumbers, Stored
<1>5. DedupeHolds'
  <2> SUFFICES ASSUME NEW a \in Ids, NEW b \in Ids, a # b,
                      task'[a].state \in Live, task'[b].state \in Live,
                      task'[a].job.key # NoKey,
                      task'[a].job.queue = task'[b].job.queue
               PROVE  task'[a].job.key # task'[b].job.key
    BY DEF DedupeHolds
  <2>1. task[a].state \in Live /\ task[b].state \in Live
    BY DEF Handled, InFlight, Live
  <2> QED
    BY <1>1, <2>1 DEF IInv, DedupeHolds, SameNumbers
<1>6. RetryBudget'
  <2> SUFFICES ASSUME NEW id \in Stored'
               PROVE  /\ task'[id].attempts <= task'[id].job.maxAttempts
                      /\ task'[id].state = "queued"
                           => task'[id].attempts < task'[id].job.maxAttempts
                      /\ task'[id].state = "dead"
                           => task'[id].attempts = task'[id].job.maxAttempts
                      /\ task'[id].state \in {"claimed", "done", "failed"}
                           => task'[id].attempts > 0
    BY DEF RetryBudget
  <2>1. id \in Stored /\ SameNumbers(task'[id], task[id])
    BY <1>1 DEF Stored
  <2>2. CASE id \notin ids
    BY <2>1, <2>2 DEF IInv, RetryBudget, Handled, Stored
  <2>3. CASE id \in ids
    <3>1. task[id].state = "claimed"
      BY <2>3 DEF Handled, InFlight
    <3>2. /\ task[id].attempts \in Nat
          /\ task[id].job.maxAttempts \in Nat
      BY <2>1, JobsAssumption DEF IInv, TypeOK, Row, Job, Stored
    <3>3. /\ task[id].attempts <= task[id].job.maxAttempts
          /\ task[id].attempts > 0
      BY <2>1, <3>1 DEF IInv, RetryBudget
    <3> QED
      BY <2>1, <2>3, <3>2, <3>3 DEF Handled, SameNumbers, DeadLetters
  <2> QED
    BY <2>2, <2>3
<1>7. DoneCompleted'
  BY DEF IInv, DoneCompleted, Handled
<1>8. DepsHonoured'
  BY <1>1 DEF IInv, DepsHonoured, Handled, SameNumbers, Stored
<1> QED
  BY <1>2, <1>3, <1>4, <1>5, <1>6, <1>7, <1>8 DEF IInv

LEMMA RecoverHandles ==
  ASSUME IInv, NEW ids, ids \subseteq InFlight, task' = Recover(ids),
         completed' = completed
  PROVE  Handled(ids)
<1>1. ASSUME NEW id \in ids
      PROVE  /\ Recovered(task[id]) \in Row
             /\ SameNumbers(Recovered(task[id]), task[id])
             /\ DeadLetters(task[id]) => Recovered(task[id]).state = "dead"
             /\ ~DeadLetters(task[id]) => Recovered(task[id]).state = "queued"
  <2>1. id \in Ids /\ task[id] \in Row /\ now \in Nat
    BY DEF IInv, TypeOK, InFlight
  <2>2. CASE DeadLetters(task[id])
    BY <2>1, <2>2, FinishedRow, "dead" \in Terminal
       DEF Recovered, SameNumbers, Terminal
  <2>3. CASE ~DeadLetters(task[id])
    BY <2>1, <2>3, ReleasedRow DEF Recovered, SameNumbers
  <2> QED
    BY <2>2, <2>3
<1>2. task' \in [Ids -> Row]
  BY <1>1 DEF Recover, IInv, TypeOK
<1>3. /\ \A id \in ids : task'[id] = Recovered(task[id])
      /\ \A id \in Ids \ ids : task'[id] = task[id]
  BY DEF Recover, InFlight
<1>4. completed \subseteq completed' /\ completed' \subseteq Ids
  BY DEF IInv, TypeOK
<1> QED
  BY <1>1, <1>2, <1>3, <1>4 DEF Handled, Live, Terminal

\* One row given back, renewed or settled by the holder of its token.
LEMMA HolderHandles ==
  ASSUME IInv, NEW id \in Ids, NEW token, Holds(id, token), NEW row \in Row,
         task' = [task EXCEPT ![id] = row],
         SameNumbers(row, task[id]),
         row.state \in Live \cup Terminal,
         row.state = "queued" => ~DeadLetters(task[id]),
         row.state = "dead" => DeadLetters(task[id]),
         row.state = "done" => id \in completed',
         completed \subseteq completed', completed' \subseteq Ids
  PROVE  Handled({id})
<1>1. task \in [Ids -> Row]
  BY DEF IInv, TypeOK
<1>2. /\ task' \in [Ids -> Row]
      /\ task'[id] = row
      /\ \A other \in Ids \ {id} : task'[other] = task[other]
  BY <1>1
<1> QED
  BY <1>2 DEF Handled, Holds, InFlight

-----------------------------------------------------------------------------
(* Initial states and the other steps. *)

LEMMA NoRowType ==
  ASSUME NEW state \in {"absent", "purged", "queued"}
  PROVE  NoRow(state) \in Row /\ NoRow(state).fence = 0 /\ NoRow(state).state = state
  BY DEF NoRow, Row, Live

LEMMA InitInvariant == Init => IInv
<1> SUFFICES ASSUME Init PROVE IInv
  OBVIOUS
<1>1. \A id \in Ids : /\ task[id] \in Row
                      /\ task[id].state = "absent"
                      /\ task[id].fence = 0
  BY NoRowType DEF Init
<1>2. Stored = {}
  BY <1>1 DEF Stored, Live, Terminal
<1>3. TypeOK
  BY <1>1, <1>2 DEF Init, TypeOK
<1> QED
  BY <1>1, <1>2, <1>3
     DEF Init, IInv, CountersAhead, NumbersUnique, DedupeHolds, RetryBudget,
         DoneCompleted, DepsHonoured, Live

LEMMA EnqueueKeeps ==
  ASSUME IInv, NEW id \in Ids, NEW job \in Jobs, NEW deps \in SUBSET Ids,
         Enqueue(id, job, deps)
  PROVE  IInv'
<1>1. job \in Job /\ job.delay \in Nat /\ job.maxAttempts \in Nat \ {0}
  BY JobsAssumption DEF Job
<1>2. task \in [Ids -> Row] /\ seq \in Nat /\ fence \in Nat /\ now \in Nat
  BY DEF IInv, TypeOK
<1> DEFINE row ==
       [state |-> "queued", job |-> job, deps |-> deps, seq |-> seq + 1, attempts |-> 0,
        availableAt |-> now + job.delay, claimedBy |-> NoWorker, fence |-> 0,
        deadline |-> 0, updatedAt |-> now]
<1>3. /\ row \in Row
      /\ row.state = "queued" /\ row.job = job /\ row.deps = deps
      /\ row.seq = seq + 1 /\ row.fence = 0 /\ row.attempts = 0
  <2>1. now + job.delay \in Nat /\ seq + 1 \in Nat
    BY <1>1, <1>2
  <2> QED
    BY <1>2, <2>1, SMTT(30) DEF Row, Live
<1>4. task' = [task EXCEPT ![id] = row]
  BY DEF Enqueue
<1> HIDE DEF row
<1>5. /\ task' \in [Ids -> Row] /\ task'[id] = row
      /\ \A other \in Ids \ {id} : task'[other] = task[other]
  BY <1>2, <1>3, <1>4
<1>6. id \notin Stored /\ Stored' = Stored \cup {id} /\ Stored \subseteq Ids
  BY <1>3, <1>5 DEF Stored, Enqueue, Live, Terminal
<1>7. up /\ up' = up /\ fence' = fence /\ now' = now /\ seq' = seq + 1
      /\ completed' = completed
  BY DEF Enqueue
<1>8. TypeOK'
  BY <1>2, <1>3, <1>5, <1>6, <1>7 DEF IInv, TypeOK
<1>9. \A other \in Stored : /\ task[other].seq \in Nat /\ task[other].fence \in Nat
                            /\ task[other].seq <= seq /\ task[other].fence <= fence
  BY <1>2, <1>7 DEF IInv, CountersAhead, Row, Stored
<1>10. CountersAhead'
  <2>1. \A other \in Stored' : task'[other].seq <= seq' /\ task'[other].fence <= fence'
    BY <1>2, <1>3, <1>5, <1>6, <1>7, <1>9
  <2>2. \A other \in Ids \ Stored' : task'[other].fence = 0
    BY <1>5, <1>6 DEF IInv, CountersAhead
  <2> QED
    BY <2>1, <2>2 DEF CountersAhead
<1>11. NumbersUnique'
  <2>1. \A other \in Stored : task'[other].seq # task'[id].seq
    BY <1>2, <1>3, <1>5, <1>6, <1>9
  <2> QED
    BY <1>3, <1>5, <1>6, <2>1 DEF IInv, NumbersUnique, Stored
<1>12. DedupeHolds'
  <2> SUFFICES ASSUME NEW a \in Ids, NEW b \in Ids, a # b,
                      task'[a].state \in Live, task'[b].state \in Live,
                      task'[a].job.key # NoKey,
                      task'[a].job.queue = task'[b].job.queue,
                      task'[a].job.key = task'[b].job.key
               PROVE  FALSE
    BY DEF DedupeHolds
  <2>1. \A other \in Ids \ {id} :
          /\ task[other].state \in Live
          /\ task[other].job.queue = job.queue /\ job.key # NoKey
          => task[other].job.key # job.key
    BY DEF Enqueue, LiveByDedupe
  <2>2. CASE a # id /\ b # id
    BY <1>5, <2>2 DEF IInv, DedupeHolds
  <2>3. CASE a = id \/ b = id
    BY <1>3, <1>5, <2>1, <2>3
  <2> QED
    BY <2>2, <2>3
<1>13. RetryBudget'
  BY <1>1, <1>3, <1>5, <1>6 DEF IInv, RetryBudget, Stored
<1>14. DoneCompleted' /\ DepsHonoured'
  BY <1>3, <1>5, <1>6, <1>7 DEF IInv, DoneCompleted, DepsHonoured, Stored
<1> QED
  BY <1>8, <1>10, <1>11, <1>12, <1>13, <1>14 DEF IInv

LEMMA ClaimKeeps ==
  ASSUME IInv, NEW id \in Ids, NEW queue, NEW w \in Workers,
         NEW lease \in Nat, Claim(id, queue, w, lease)
  PROVE  IInv'
<1>1. task[id].state = "queued" /\ DepsDone(id) /\ id \in Stored
  BY DEF Claim, Claimable, Stored, Live
<1>2. task \in [Ids -> Row] /\ seq \in Nat /\ fence \in Nat /\ now \in Nat /\ task[id].job \in Jobs
  BY <1>1 DEF IInv, TypeOK
<1>3. lease \in Nat /\ task[id].job.timeout \in Nat /\ task[id].job.maxAttempts \in Nat
  BY <1>2, JobsAssumption, TimesAssumption DEF Job
<1> DEFINE granted == IF lease > 0 THEN lease ELSE task[id].job.timeout
           token == fence + 1
           row == Leased(task[id], w, token, granted)
<1>4. /\ row \in Row
      /\ row.state = "claimed" /\ row.job = task[id].job /\ row.deps = task[id].deps
      /\ row.seq = task[id].seq /\ row.fence = fence + 1
      /\ row.attempts = task[id].attempts + 1 /\ task[id].attempts \in Nat
  <2>1. task[id] \in Row /\ task[id].attempts \in Nat
    BY <1>2 DEF Row
  <2>2. token \in Nat /\ granted \in Nat /\ now \in Nat
    BY <1>2, <1>3
  <2>3. token = fence + 1
    OBVIOUS
  <2> HIDE DEF granted, token
  <2> QED
    BY <2>1, <2>2, <2>3, LeasedRow
<1>5. task' = [task EXCEPT ![id] = row]
  BY <1>2 DEF Claim
<1> HIDE DEF row
<1>6. /\ task' \in [Ids -> Row] /\ task'[id] = row
      /\ \A other \in Ids \ {id} : task'[other] = task[other]
  BY <1>2, <1>4, <1>5
<1>7. Stored' = Stored /\ Stored \subseteq Ids
  BY <1>1, <1>4, <1>6 DEF Stored, Live, Terminal
<1>8. up /\ up' = up /\ seq' = seq /\ now' = now /\ fence' = fence + 1
      /\ completed' = completed
  BY DEF Claim
<1>9. TypeOK'
  BY <1>2, <1>4, <1>6, <1>7, <1>8 DEF IInv, TypeOK
<1>10. \A other \in Stored : /\ task[other].seq \in Nat /\ task[other].fence \in Nat
                            /\ task[other].seq <= seq /\ task[other].fence <= fence
  BY <1>2, <1>8 DEF IInv, CountersAhead, Row, Stored
<1>11. CountersAhead'
  <2>1. \A other \in Stored' : task'[other].seq <= seq' /\ task'[other].fence <= fence'
    BY <1>1, <1>2, <1>4, <1>6, <1>7, <1>8, <1>10 DEF Stored
  <2>2. \A other \in Ids \ Stored' : task'[other].fence = 0
    BY <1>1, <1>6, <1>7 DEF IInv, CountersAhead
  <2> QED
    BY <2>1, <2>2 DEF CountersAhead
<1>12. NumbersUnique'
  <2>1. \A other \in Stored \ {id} : task'[other].fence # task'[id].fence
    BY <1>2, <1>4, <1>6, <1>10 DEF Stored
  <2>2. \A other \in Ids : task'[other].seq = task[other].seq
    BY <1>4, <1>6
  <2> QED
    BY <1>1, <1>6, <1>7, <2>1, <2>2 DEF IInv, NumbersUnique, Stored
<1>13. DedupeHolds'
  <2>1. \A other \in Ids : /\ task'[other].job = task[other].job
                           /\ task'[other].state \in Live => task[other].state \in Live
    BY <1>1, <1>4, <1>6 DEF Live
  <2> QED
    BY <2>1 DEF IInv, DedupeHolds
<1>14. RetryBudget'
  <2>1. task[id].attempts < task[id].job.maxAttempts
    BY <1>1 DEF IInv, RetryBudget
  <2> QED
    BY <1>3, <1>4, <1>6, <1>7, <2>1 DEF IInv, RetryBudget, Stored
<1>15. DoneCompleted'
  BY <1>4, <1>6, <1>8 DEF IInv, DoneCompleted
<1>16. DepsHonoured'
  <2>1. task[id].deps \subseteq completed
    BY <1>1, <1>2 DEF DepsDone, IInv, DoneCompleted, Row
  <2> QED
    BY <1>4, <1>6, <1>7, <1>8, <2>1 DEF IInv, DepsHonoured, Stored
<1> QED
  BY <1>9, <1>11, <1>12, <1>13, <1>14, <1>15, <1>16 DEF IInv

LEMMA PurgeKeeps ==
  ASSUME IInv, NEW queue, NEW cutoff, Purge(queue, cutoff)
  PROVE  IInv'
<1> PICK old \in SUBSET Ids : task' = [id \in Ids |-> IF id \in old THEN NoRow("purged") ELSE task[id]]
  BY DEF Purge
<1>1. /\ task \in [Ids -> Row]
      /\ up' = up /\ seq' = seq /\ fence' = fence /\ now' = now /\ completed' = completed
  BY DEF IInv, TypeOK, Purge
<1>2. NoRow("purged") \in Row /\ NoRow("purged").state = "purged" /\ NoRow("purged").fence = 0
  BY NoRowType
<1>3. /\ task' \in [Ids -> Row]
      /\ \A id \in old : task'[id].state = "purged" /\ task'[id].fence = 0
      /\ \A id \in Ids \ old : task'[id] = task[id]
  BY <1>1, <1>2
<1>4. Stored' \subseteq Stored /\ Stored' \cap old = {} /\ Stored \subseteq Ids
  BY <1>3 DEF Stored, Live, Terminal
<1>5. \A id \in Ids \ Stored' : id \in old \/ id \in Ids \ Stored
  BY <1>3 DEF Stored
<1>6. TypeOK'
  BY <1>1, <1>3, <1>4 DEF IInv, TypeOK
<1>7. CountersAhead'
  BY <1>1, <1>3, <1>4, <1>5 DEF IInv, CountersAhead
<1>8. NumbersUnique' /\ RetryBudget' /\ DepsHonoured'
  BY <1>1, <1>3, <1>4 DEF IInv, NumbersUnique, RetryBudget, DepsHonoured
<1>9. DedupeHolds' /\ DoneCompleted'
  BY <1>1, <1>3 DEF IInv, DedupeHolds, DoneCompleted, Live
<1> QED
  BY <1>6, <1>7, <1>8, <1>9 DEF IInv

LEMMA TickKeeps ==
  ASSUME IInv, Tick
  PROVE  IInv'
<1>1. now' \in Nat /\ UNCHANGED <<task, seq, fence, up, completed>>
  BY DEF Tick, IInv, TypeOK
<1> QED
  BY <1>1 DEF IInv, TypeOK, Stored, CountersAhead, NumbersUnique, DedupeHolds,
              RetryBudget, DoneCompleted, DepsHonoured

LEMMA StutterKeeps ==
  ASSUME IInv, UNCHANGED vars
  PROVE  IInv'
  BY DEF vars, IInv, TypeOK, Stored, CountersAhead, NumbersUnique, DedupeHolds,
         RetryBudget, DoneCompleted, DepsHonoured

-----------------------------------------------------------------------------
(* The steps of a holder. *)

LEMMA HeldRow ==
  ASSUME IInv, NEW id \in Ids, NEW token, Holds(id, token)
  PROVE  /\ task[id] \in Row /\ task[id].attempts \in Nat \ {0}
         /\ seq \in Nat /\ fence \in Nat /\ now \in Nat /\ up \in BOOLEAN
         /\ completed \subseteq Ids
<1>1. id \in Stored /\ task[id].state = "claimed"
  BY DEF Holds, Stored, Live
<1>2. task[id] \in Row
  BY DEF IInv, TypeOK
<1>3. task[id].attempts \in Nat /\ task[id].attempts > 0
  BY <1>1, <1>2 DEF IInv, RetryBudget, Row
<1> QED
  BY <1>2, <1>3 DEF IInv, TypeOK

\* A holder's step that leaves the counters and the clock alone.
LEMMA HolderKeeps ==
  ASSUME IInv, NEW ids, Handled(ids), UNCHANGED <<seq, fence, up, now>>
  PROVE  IInv'
<1>1. seq' \in Nat /\ fence' \in Nat /\ now' \in Nat /\ up' \in BOOLEAN
  BY DEF IInv, TypeOK
<1>2. up' => \A id \in Stored : task[id].seq <= seq' /\ task[id].fence <= fence'
  BY DEF IInv, CountersAhead
<1> QED
  BY <1>1, <1>2, HandledKeeps

\* A row that could not be written stays held.
LEMMA NotWrittenHandles ==
  ASSUME IInv, NEW id \in Ids, NEW token, Holds(id, token), NotWritten
  PROVE  Handled({id})
<1>1. task' = task /\ task \in [Ids -> Row] /\ task[id].state = "claimed"
      /\ completed' = completed /\ completed \subseteq Ids
  BY DEF NotWritten, Holds, IInv, TypeOK
<1> QED
  BY <1>1 DEF Handled, SameNumbers, InFlight, Live

LEMMA AckHandles ==
  ASSUME IInv, NEW id \in Ids, NEW token, Ack(id, token)
  PROVE  Handled({id})
<1> SUFFICES ASSUME task' = [task EXCEPT ![id] = Finished(@, "done")],
                    completed' = completed \cup {id}
             PROVE  Handled({id})
  BY NotWrittenHandles DEF Ack
<1> DEFINE row == Finished(task[id], "done")
<1>1. Holds(id, token) /\ completed' = completed \cup {id}
  BY DEF Ack
<1>2. task[id] \in Row /\ now \in Nat /\ completed \subseteq Ids
  BY <1>1, HeldRow
<1>3. row \in Row /\ SameNumbers(row, task[id]) /\ row.state = "done"
  BY <1>2, FinishedRow, "done" \in Terminal DEF SameNumbers, Terminal
<1>4. task' = [task EXCEPT ![id] = row]
  OBVIOUS
<1> HIDE DEF row
<1> QED
  BY <1>1, <1>2, <1>3, <1>4, HolderHandles DEF Terminal

LEMMA NackGiveUpHandles ==
  ASSUME IInv, NEW id \in Ids, NEW token, NackGiveUp(id, token)
  PROVE  Handled({id})
<1> SUFFICES ASSUME task' = [task EXCEPT ![id] = Finished(@, "failed")]
             PROVE  Handled({id})
  BY NotWrittenHandles DEF NackGiveUp
<1> DEFINE row == Finished(task[id], "failed")
<1>1. Holds(id, token) /\ completed' = completed
  BY DEF NackGiveUp, NotWritten
<1>2. task[id] \in Row /\ now \in Nat /\ completed \subseteq Ids
  BY <1>1, HeldRow
<1>3. row \in Row /\ SameNumbers(row, task[id]) /\ row.state = "failed"
  BY <1>2, FinishedRow, "failed" \in Terminal DEF SameNumbers, Terminal
<1>4. task' = [task EXCEPT ![id] = row]
  OBVIOUS
<1> HIDE DEF row
<1> QED
  BY <1>1, <1>2, <1>3, <1>4, HolderHandles DEF Terminal

LEMMA NackRequeueHandles ==
  ASSUME IInv, NEW id \in Ids, NEW token, NackRequeue(id, token)
  PROVE  Handled({id})
<1>1. Holds(id, token) /\ completed' = completed
  BY DEF NackRequeue
<1>2. /\ task[id] \in Row /\ task[id].attempts \in Nat \ {0}
      /\ now \in Nat /\ completed \subseteq Ids
  BY <1>1, HeldRow
<1> SUFFICES ASSUME ~NotWritten
             PROVE  Handled({id})
  BY <1>1, NotWrittenHandles
<1>3. PICK wait \in {Backoff(task[id].attempts)} \cup Delays :
        task' = [task EXCEPT ![id] =
          IF DeadLetters(@) THEN Finished(@, "dead") ELSE Released(@, now + wait)]
  BY DEF NackRequeue
<1>4. now + wait \in Nat
  <2>1. Backoff(task[id].attempts) \in Nat
    BY <1>2, BackoffType, Zenon
  <2>2. wait \in Nat
    BY <2>1, TimesAssumption
  <2> QED
    BY <1>2, <2>2
<1>5. CASE DeadLetters(task[id])
  <2> DEFINE row == Finished(task[id], "dead")
  <2>1. row \in Row /\ SameNumbers(row, task[id]) /\ row.state = "dead"
    BY <1>2, FinishedRow, "dead" \in Terminal DEF SameNumbers, Terminal
  <2>2. task' = [task EXCEPT ![id] = row]
    BY <1>3, <1>5
  <2> HIDE DEF row
  <2> QED
    BY <1>1, <1>2, <1>5, <2>1, <2>2, HolderHandles DEF Terminal
<1>6. CASE ~DeadLetters(task[id])
  <2> DEFINE row == Released(task[id], now + wait)
  <2>1. row \in Row /\ SameNumbers(row, task[id]) /\ row.state = "queued"
    BY <1>2, <1>4, ReleasedRow DEF SameNumbers
  <2>2. task' = [task EXCEPT ![id] = row]
    BY <1>3, <1>6
  <2> HIDE DEF row
  <2> QED
    BY <1>1, <1>2, <1>6, <2>1, <2>2, HolderHandles DEF Live
<1> QED
  BY <1>5, <1>6

LEMMA ExtendHandles ==
  ASSUME IInv, NEW id \in Ids, NEW token, NEW extra \in Nat,
         Extend(id, token, extra)
  PROVE  Handled({id})
<1> SUFFICES ASSUME task' = [task EXCEPT ![id] = Extended(@, extra)]
             PROVE  Handled({id})
  BY NotWrittenHandles DEF Extend
<1> DEFINE row == Extended(task[id], extra)
<1>1. Holds(id, token) /\ completed' = completed
  BY DEF Extend
<1>2. task[id] \in Row /\ now \in Nat /\ completed \subseteq Ids
  BY <1>1, HeldRow
<1>3. task[id].deadline + extra \in Nat
  BY <1>2, TimesAssumption DEF Row
<1>4. row \in Row /\ SameNumbers(row, task[id]) /\ row.state = "claimed"
  BY <1>1, <1>2, <1>3 DEF SameNumbers, Row, Holds, Extended
<1>5. task' = [task EXCEPT ![id] = row]
  BY <1>2
<1> HIDE DEF row
<1> QED
  BY <1>1, <1>2, <1>4, <1>5, HolderHandles DEF Live

-----------------------------------------------------------------------------
(* The sweeps. *)

LEMMA ReapKeeps ==
  ASSUME IInv, Reap
  PROVE  IInv'
<1>1. PICK swept \in SUBSET Expired : ReapRows(swept)
  BY DEF Reap
<1>2. Handled(swept)
  BY <1>1, RecoverHandles DEF ReapRows, Expired
<1> QED
  BY <1>1, <1>2, HolderKeeps DEF ReapRows

LEMMA CrashKeeps ==
  ASSUME IInv, Crash
  PROVE  IInv'
<1>1. PICK swept \in SUBSET Expired : task' = Recover(swept)
  BY DEF Crash
<1>2. Handled(swept)
  BY <1>1, RecoverHandles DEF Crash, Expired
<1>3. up' = FALSE /\ seq' = 0 /\ fence' = 0 /\ now' \in Nat
  BY DEF Crash, IInv, TypeOK
<1>4. /\ seq' \in Nat /\ fence' \in Nat /\ up' \in BOOLEAN
      /\ up' => \A id \in Stored : task[id].seq <= seq' /\ task[id].fence <= fence'
  BY <1>3
<1> QED
  BY <1>2, <1>3, <1>4, HandledKeeps

LEMMA OpenKeeps ==
  ASSUME IInv, Open
  PROVE  IInv'
<1>s. PICK swept \in SUBSET InFlight : task' = Recover(swept)
  BY DEF Open
<1>1. Handled(swept)
  BY <1>s, RecoverHandles DEF Open
<1>2. \A id \in Stored : task[id].seq \in Nat /\ task[id].fence \in Nat
  BY DEF IInv, TypeOK, Row, Stored
<1>3. seq' \in Nat /\ \A id \in Stored : task[id].seq <= seq'
  BY <1>2 DEF Open, MaxOf
<1>4. fence' \in Nat /\ \A id \in Stored : task[id].fence <= fence'
  BY <1>2 DEF Open, MaxOf
<1>5. now' \in Nat /\ up' \in BOOLEAN
  BY DEF Open, IInv, TypeOK
<1> QED
  BY <1>1, <1>3, <1>4, <1>5, HandledKeeps

LEMMA OpenCutShortKeeps ==
  ASSUME IInv, OpenCutShort
  PROVE  IInv'
<1>1. PICK swept \in SUBSET InFlight : task' = Recover(swept)
  BY DEF OpenCutShort
<1>2. Handled(swept)
  BY <1>1, RecoverHandles DEF OpenCutShort
<1> QED
  BY <1>2, HolderKeeps DEF OpenCutShort

-----------------------------------------------------------------------------
(* The invariant, and what follows from it. *)

LEMMA NextKeeps == IInv /\ [Next]_vars => IInv'
<1> SUFFICES ASSUME IInv, [Next]_vars PROVE IInv'
  OBVIOUS
<1>1. ASSUME NEW id \in Ids, NEW job \in Jobs, NEW deps \in SUBSET Issued,
             Enqueue(id, job, deps)
      PROVE  IInv'
  BY <1>1, EnqueueKeeps DEF Issued
<1>2. ASSUME NEW id \in Ids, NEW queue \in Queues, NEW w \in Workers,
             NEW lease \in Leases, Claim(id, queue, w, lease)
      PROVE  IInv'
  BY <1>2, ClaimKeeps, TimesAssumption
<1>3. ASSUME NEW id \in Ids, NEW token \in 1 .. fence, Ack(id, token)
      PROVE  IInv'
  BY <1>3, AckHandles, HolderKeeps DEF Ack
<1>4. ASSUME NEW id \in Ids, NEW token \in 1 .. fence, NackGiveUp(id, token)
      PROVE  IInv'
  BY <1>4, NackGiveUpHandles, HolderKeeps DEF NackGiveUp
<1>5. ASSUME NEW id \in Ids, NEW token \in 1 .. fence, NackRequeue(id, token)
      PROVE  IInv'
  BY <1>5, NackRequeueHandles, HolderKeeps DEF NackRequeue
<1>6. ASSUME NEW id \in Ids, NEW token \in 1 .. fence, NEW extra \in Extras,
             Extend(id, token, extra)
      PROVE  IInv'
  BY <1>6, ExtendHandles, HolderKeeps, TimesAssumption DEF Extend
<1>7. ASSUME NEW queue \in Queues, NEW cutoff \in 0 .. now, Purge(queue, cutoff)
      PROVE  IInv'
  BY <1>7, PurgeKeeps
<1> QED
  BY <1>1, <1>2, <1>3, <1>4, <1>5, <1>6, <1>7, ReapKeeps, CrashKeeps, OpenKeeps,
     OpenCutShortKeeps, TickKeeps, StutterKeeps DEF Next

\* The inductive invariant: the counters of an open queue are ahead of every
\* row, which is what keeps the numbers unique, and a task in state done was
\* completed, which is what makes a claim honour its dependencies.
THEOREM InvariantHolds == Spec => []IInv
  BY InitInvariant, NextKeeps, PTL DEF Spec

\* The table keeps its schema, whatever operations, crashes and recoveries.
THEOREM TypeCorrect == Spec => []TypeOK
<1>1. IInv => TypeOK
  BY DEF IInv
<1> QED
  BY <1>1, InvariantHolds, PTL

\* No two rows ever share a cursor position or a fencing token.
THEOREM NumbersStayUnique == Spec => []NumbersUnique
<1>1. IInv => NumbersUnique
  BY DEF IInv
<1> QED
  BY <1>1, InvariantHolds, PTL

\* A dedupe key never names two live tasks of one queue.
THEOREM DedupeAlwaysHolds == Spec => []DedupeHolds
<1>1. IInv => DedupeHolds
  BY DEF IInv
<1> QED
  BY <1>1, InvariantHolds, PTL

\* A task runs at most maxAttempts times and is dead-lettered by the last.
THEOREM RetryBudgetKept == Spec => []RetryBudget
<1>1. IInv => RetryBudget
  BY DEF IInv
<1> QED
  BY <1>1, InvariantHolds, PTL

\* A task is never given out before every task it depends on was done.
THEOREM DepsAlwaysHonoured == Spec => []DepsHonoured
<1>1. IInv => DepsHonoured
  BY DEF IInv
<1> QED
  BY <1>1, InvariantHolds, PTL

-----------------------------------------------------------------------------
(* The queue implements fenced leases. *)

LEMMA PhaseOf ==
  ASSUME NEW id \in Ids
  PROVE  /\ Phase[id] = CASE task[id].state \in {"absent", "queued"} -> "free"
                          [] task[id].state = "claimed" -> "held"
                          [] OTHER -> "closed"
         /\ Epoch[id] = task[id].fence
  BY DEF Phase, Epoch

\* The operations on claims revoke those that are claimed no more.
LEMMA HandledRevokes ==
  ASSUME IInv, NEW ids, Handled(ids)
  PROVE  Lease!Next
<1> DEFINE freed == {id \in ids : task'[id].state # "claimed"}
<1>1. ids \subseteq Ids
  BY DEF Handled, InFlight
<1>2. \A id \in freed : Phase[id] = "held" /\ Phase'[id] \in {"free", "closed"}
  BY <1>1 DEF Phase, Handled, InFlight
<1>3. \A id \in Ids \ freed : Phase'[id] = Phase[id]
  BY <1>1 DEF Phase, Handled, InFlight
<1>4. Phase' \in [Ids -> Lease!Phases]
  BY DEF Phase, Lease!Phases
<1>5. Epoch' = Epoch
  BY StoredSame DEF Epoch, SameNumbers, IInv
<1>6. Lease!Revoke(freed)
  BY <1>2, <1>3, <1>4, <1>5 DEF Lease!Revoke
<1> QED
  BY <1>1, <1>6 DEF Lease!Next

LEMMA EnqueueStutters ==
  ASSUME IInv, NEW id \in Ids, NEW job \in Jobs, NEW deps, Enqueue(id, job, deps)
  PROVE  UNCHANGED <<Phase, Epoch>>
<1>1. task \in [Ids -> Row] /\ task[id].state = "absent"
  BY DEF Enqueue, IInv, TypeOK
<1>2. task[id].fence = 0
  BY <1>1 DEF IInv, CountersAhead, Stored, Live, Terminal
<1>3. /\ task'[id].state = "queued" /\ task'[id].fence = 0
      /\ \A other \in Ids \ {id} : task'[other] = task[other]
  BY <1>1 DEF Enqueue
<1>4. Phase' = Phase
  BY <1>1, <1>3 DEF Phase
<1>5. Epoch' = Epoch
  BY <1>2, <1>3 DEF Epoch
<1> QED
  BY <1>4, <1>5

LEMMA ClaimGrants ==
  ASSUME IInv, NEW id \in Ids, NEW queue \in Queues, NEW w \in Workers,
         NEW lease \in Leases, Claim(id, queue, w, lease)
  PROVE  Lease!Grant(id)
<1>1. /\ task \in [Ids -> Row] /\ fence \in Nat /\ up
      /\ task[id].state = "queued" /\ id \in Stored
  BY DEF Claim, Claimable, IInv, TypeOK, Stored, Live
<1> DEFINE row == Leased(task[id], w, fence + 1,
                         IF lease > 0 THEN lease ELSE task[id].job.timeout)
<1>2. task[id] \in Row /\ row.state = "claimed" /\ row.fence = fence + 1
  BY <1>1 DEF Leased, Row
<1>3. task' = [task EXCEPT ![id] = row]
  BY <1>1 DEF Claim
<1> HIDE DEF row
<1>4. /\ task'[id].state = "claimed" /\ task'[id].fence = fence + 1
      /\ \A other \in Ids \ {id} : task'[other] = task[other]
  BY <1>1, <1>2, <1>3
<1>5. \A other \in Ids : task[other].fence \in Nat /\ task[other].fence <= fence
  BY <1>1 DEF IInv, CountersAhead, Row
<1>6. Phase[id] = "free" /\ Phase' = [Phase EXCEPT ![id] = "held"]
  BY <1>1, <1>4 DEF Phase
<1>7. Epoch'[id] = fence + 1 /\ Epoch' = [Epoch EXCEPT ![id] = Epoch'[id]]
  BY <1>4 DEF Epoch
<1>8. \A other \in Ids : Epoch[other] \in Nat /\ Epoch[other] <= fence
  BY <1>5 DEF Epoch
<1>9. /\ Epoch'[id] \in Nat /\ Epoch'[id] > Epoch[id]
      /\ \A other \in Ids \ {id} : Epoch'[id] # Epoch[other]
  BY <1>1, <1>7, <1>8
<1> QED
  BY <1>6, <1>7, <1>9 DEF Lease!Grant

LEMMA PurgeForgets ==
  ASSUME IInv, NEW queue, NEW cutoff, Purge(queue, cutoff)
  PROVE  Lease!Next
<1>1. PICK old \in SUBSET Ids :
        /\ \A id \in old : task[id].state \in Terminal
        /\ task' = [id \in Ids |-> IF id \in old THEN NoRow("purged") ELSE task[id]]
  BY DEF Purge
<1>2. NoRow("purged").state = "purged" /\ NoRow("purged").fence = 0
  BY NoRowType
<1>3. \A id \in old : Phase[id] = "closed"
  BY <1>1 DEF Phase, Terminal
<1>4. Phase' = Phase
  BY <1>1, <1>2 DEF Phase, Terminal
<1>5. Epoch' = [id \in Ids |-> IF id \in old THEN 0 ELSE Epoch[id]]
  BY <1>1, <1>2 DEF Epoch
<1>6. Lease!Forget(old)
  BY <1>3, <1>4, <1>5 DEF Lease!Forget
<1> QED
  BY <1>6 DEF Lease!Next

LEMMA StepRefines ==
  ASSUME IInv, [Next]_vars
  PROVE  [Lease!Next]_<<Phase, Epoch>>
<1>1. ASSUME NEW id \in Ids, NEW job \in Jobs, NEW deps \in SUBSET Issued,
             Enqueue(id, job, deps)
      PROVE  UNCHANGED <<Phase, Epoch>>
  BY <1>1, EnqueueStutters
<1>2. ASSUME NEW id \in Ids, NEW queue \in Queues, NEW w \in Workers,
             NEW lease \in Leases, Claim(id, queue, w, lease)
      PROVE  Lease!Next
  BY <1>2, ClaimGrants DEF Lease!Next
<1>3. ASSUME NEW id \in Ids, NEW token \in 1 .. fence, NEW extra \in Extras,
             Ack(id, token) \/ NackGiveUp(id, token) \/ NackRequeue(id, token)
               \/ Extend(id, token, extra)
      PROVE  Lease!Next
  BY <1>3, TimesAssumption, AckHandles, NackGiveUpHandles, NackRequeueHandles, ExtendHandles,
     HandledRevokes
<1>4. ASSUME NEW id \in Ids, NEW token \in 1 .. fence,
             Ack(id, token) \/ NackGiveUp(id, token) \/ NackRequeue(id, token)
      PROVE  Lease!Next
  BY <1>4, AckHandles, NackGiveUpHandles, NackRequeueHandles, HandledRevokes
<1>5. ASSUME Reap \/ Crash \/ Open \/ OpenCutShort
      PROVE  Lease!Next
  <2>1. \E ids : Handled(ids)
    <3>1. CASE Reap
      BY <3>1, RecoverHandles DEF Reap, ReapRows, Expired
    <3>2. CASE Crash
      BY <3>2, RecoverHandles DEF Crash, Expired
    <3>3. CASE Open
      BY <3>3, RecoverHandles DEF Open
    <3>4. CASE OpenCutShort
      BY <3>4, RecoverHandles DEF OpenCutShort
    <3> QED
      BY <1>5, <3>1, <3>2, <3>3, <3>4
  <2> QED
    BY <2>1, HandledRevokes
<1>6. ASSUME NEW queue \in Queues, NEW cutoff \in 0 .. now, Purge(queue, cutoff)
      PROVE  Lease!Next
  BY <1>6, PurgeForgets
<1>7. ASSUME Tick \/ UNCHANGED vars
      PROVE  UNCHANGED <<Phase, Epoch>>
  BY <1>7 DEF Tick, vars, Phase, Epoch
<1> QED
  BY <1>1, <1>2, <1>3, <1>4, <1>5, <1>6, <1>7 DEF Next

\* The queue implements fenced leases: a task is granted with a token newer
\* than any it carried and shared with no other task, across crashes,
\* recoveries and purges, and a closed task stays closed.
THEOREM LeaseRefined == Spec => LeaseSpec
<1>1. Init => Lease!Init
  <2> SUFFICES ASSUME Init PROVE Lease!Init
    OBVIOUS
  <2>1. \A id \in Ids : task[id].state = "absent" /\ task[id].fence = 0
    BY NoRowType DEF Init
  <2>2. Phase = [id \in Ids |-> "free"]
    BY <2>1 DEF Phase
  <2>3. Epoch = [id \in Ids |-> 0]
    BY <2>1 DEF Epoch
  <2> QED
    BY <2>2, <2>3 DEF Lease!Init
<1>2. IInv /\ [Next]_vars => [Lease!Next]_<<Phase, Epoch>>
  BY StepRefines
<1> QED
  BY <1>1, <1>2, InvariantHolds, PTL DEF Spec, LeaseSpec, Lease!Spec
-----------------------------------------------------------------------------
(* The runners (WorkQueueWorkers).                                         *)

\* A runner with something to do knows the task.
BusyOnTask ==
  \A w \in Workers : worker[w].pc \in {"running", "acking", "nacking"} => worker[w].id \in Ids

RunnersInv == IInv /\ WorkersTypeOK /\ BusyOnTask

\* The queue keeps what was counted: a task that is done stays so under its token until its
\* row is deleted, and a deleted row stays deleted.
Final(id) ==
  \/ task'[id] = task[id]
  \/ /\ task[id].state = "done" => task'[id].state = "purged"
     /\ task[id].state # "purged"

LEMMA RunnerType ==
  ASSUME NEW pc \in {"exited", "polling", "running", "acking", "nacking"},
         NEW id \in Ids \cup {NoTask}, NEW token \in Nat
  PROVE  /\ Runner(pc, id, token) \in
              [pc : {"exited", "polling", "running", "acking", "nacking"},
               id : Ids \cup {NoTask}, token : Nat, beating : BOOLEAN, beats : 0 .. MaxBeats]
         /\ Runner(pc, id, token).pc = pc /\ Runner(pc, id, token).id = id
  BY BeatsAssumption DEF Runner

LEMMA RunnersInit == WorkersInit => RunnersInv /\ CountedOnce
<1> SUFFICES ASSUME WorkersInit PROVE RunnersInv /\ CountedOnce
  OBVIOUS
<1>1. IInv
  BY InitInvariant DEF WorkersInit
<1>2. WorkersTypeOK /\ BusyOnTask
  BY <1>1, RunnerType DEF WorkersInit, WorkersTypeOK, BusyOnTask, Gone, IInv
<1> QED
  BY <1>1, <1>2 DEF WorkersInit, RunnersInv, CountedOnce

\* A runner that goes on with a task it knows, or with none.
LEMMA BecomeType ==
  ASSUME RunnersInv, NEW w \in Workers,
         NEW pc \in {"exited", "polling", "running", "acking", "nacking"},
         NEW id \in Ids \cup {NoTask}, NEW token \in Nat, Become(w, Runner(pc, id, token)),
         pc \in {"exited", "polling"} \/ id \in Ids,
         IInv', counted' \subseteq Workers \X Ids \X Nat, unwritten' \subseteq counted'
  PROVE  RunnersInv'
<1>1. TypeOK'
  BY DEF IInv
<1> DEFINE r == Runner(pc, id, token)
<1>2. /\ r.pc = pc /\ r.id = id
      /\ r \in [pc : {"exited", "polling", "running", "acking", "nacking"},
               id : Ids \cup {NoTask}, token : Nat, beating : BOOLEAN, beats : 0 .. MaxBeats]
  BY BeatsAssumption DEF r, Runner
<1>3. worker' = [worker EXCEPT ![w] = r]
  BY DEF Become
<1> HIDE DEF r
<1>4. WorkersTypeOK'
  BY <1>1, <1>2, <1>3 DEF RunnersInv, WorkersTypeOK
<1>5. BusyOnTask'
  <2>1. \A x \in Workers : worker'[x] = IF x = w THEN r ELSE worker[x]
    BY <1>3 DEF RunnersInv, WorkersTypeOK
  <2> QED BY <1>2, <2>1 DEF RunnersInv, BusyOnTask
<1> QED
  BY <1>4, <1>5 DEF RunnersInv

LEMMA LeftType ==
  ASSUME RunnersInv, NEW w \in Workers, Become(w, Gone) \/ Become(w, Idle),
         IInv', counted' \subseteq Workers \X Ids \X Nat, unwritten' \subseteq counted'
  PROVE  RunnersInv'
  BY BecomeType DEF Gone, Idle

\* What a sweep or a holder does to rows that are claimed changes no final one.
LEMMA HandledFinal ==
  ASSUME IInv, NEW ids, Handled(ids)
  PROVE  \A id \in Ids : Final(id)
  BY DEF Final, Handled, InFlight

\* What happens in the queue alone.
LEMMA ServerKeeps ==
  ASSUME RunnersInv, Server
  PROVE  RunnersInv' /\ \A id \in Ids : Final(id)
<1>1. ASSUME IInv' PROVE RunnersInv'
  BY <1>1 DEF RunnersInv, WorkersTypeOK, BusyOnTask, Server, workerVars, ackVars, IInv
<1>i. IInv /\ TypeOK
  BY DEF RunnersInv, IInv
<1>2. CASE \E id \in Ids, job \in Jobs : Enqueue(id, job, {})
  <2> PICK id \in Ids, job \in Jobs : Enqueue(id, job, {})
    BY <1>2
  <2>1. IInv'
    BY <1>i, EnqueueKeeps
  <2>2. \A other \in Ids : Final(other)
    BY <1>i DEF Enqueue, Final, TypeOK
  <2> QED BY <1>1, <2>1, <2>2
<1>3. CASE Reap
  <2>1. PICK swept \in SUBSET Expired : ReapRows(swept)
    BY <1>3 DEF Reap
  <2>2. Handled(swept)
    BY <1>i, <2>1, RecoverHandles DEF ReapRows, Expired
  <2> QED BY <1>i, <1>1, <1>3, <2>2, ReapKeeps, HandledFinal
<1>4. CASE Crash
  <2>1. PICK swept \in SUBSET Expired : task' = Recover(swept)
    BY <1>4 DEF Crash
  <2>2. Handled(swept)
    BY <1>i, <1>4, <2>1, RecoverHandles DEF Crash, Expired
  <2> QED BY <1>i, <1>1, <1>4, <2>2, CrashKeeps, HandledFinal
<1>5. CASE Open
  <2>1. PICK swept \in SUBSET InFlight : task' = Recover(swept)
    BY <1>5 DEF Open
  <2>2. Handled(swept)
    BY <1>i, <1>5, <2>1, RecoverHandles DEF Open
  <2> QED BY <1>i, <1>1, <1>5, <2>2, OpenKeeps, HandledFinal
<1>6. CASE Tick
  BY <1>i, <1>1, <1>6, TickKeeps DEF Tick, Final
<1>7. CASE \E queue \in Queues : Purge(queue, now)
  <2> PICK queue \in Queues : Purge(queue, now)
    BY <1>7
  <2>1. IInv'
    BY <1>i, PurgeKeeps
  <2>2. \A id \in Ids : Final(id)
    BY NoRowType DEF Purge, Final, Terminal
  <2> QED BY <1>1, <2>1, <2>2
<1> QED
  BY <1>2, <1>3, <1>4, <1>5, <1>6, <1>7 DEF Server

\* What a runner does, but for the ack it counts.
LEMMA RunnerKeeps ==
  ASSUME RunnersInv, NEW w \in Workers,
         \/ Start(w) \/ ClaimOne(w) \/ GiveUp(w) \/ Heartbeat(w) \/ HeartbeatFails(w)
         \/ ChildDone(w) \/ SendNack(w) \/ Refused(w) \/ ServerGone(w) \/ Die(w)
  PROVE  RunnersInv' /\ (\A id \in Ids : Final(id)) /\ UNCHANGED ackVars
<1>i. IInv /\ TypeOK /\ WorkersTypeOK /\ counted \subseteq Workers \X Ids \X Nat
      /\ unwritten \subseteq counted
  BY DEF RunnersInv, IInv, WorkersTypeOK
<1>r. /\ worker[w].id \in Ids \cup {NoTask} /\ worker[w].token \in Nat
      /\ worker[w].pc \in {"running", "acking", "nacking"} => worker[w].id \in Ids
  BY DEF RunnersInv, WorkersTypeOK, BusyOnTask
<1>1. CASE Start(w) \/ GiveUp(w) \/ ServerGone(w) \/ Refused(w) \/ Die(w)
  <2>1. UNCHANGED vars /\ UNCHANGED ackVars /\ (Become(w, Gone) \/ Become(w, Idle))
    BY <1>1 DEF Start, GiveUp, ServerGone, Refused, Die
  <2> QED BY <1>i, <2>1, StutterKeeps, LeftType DEF Final, vars, ackVars
<1>2. CASE ClaimOne(w)
  <2> PICK id \in Ids : /\ Claim(id, Drained, w, 0)
                        /\ Become(w, Runner("running", id, fence')) \/ Become(w, Gone)
    BY <1>2 DEF ClaimOne
  <2>1. IInv' /\ fence' \in Nat /\ UNCHANGED ackVars
    <3>1. IInv'
      BY <1>i, ClaimKeeps
    <3> QED BY <3>1, <1>2 DEF IInv, TypeOK, ClaimOne
  <2>2. \A other \in Ids : Final(other)
    BY <1>i DEF Claim, Claimable, Final, TypeOK
  <2>3. RunnersInv'
    BY <1>i, <2>1, BecomeType, LeftType DEF ackVars
  <2> QED BY <2>1, <2>2, <2>3
<1>3. CASE Heartbeat(w)
  <2>1. task[worker[w].id].job.timeout \in Nat /\ worker[w].id \in Ids
        /\ Extend(worker[w].id, worker[w].token, task[worker[w].id].job.timeout)
    <3>1. Extend(worker[w].id, worker[w].token, task[worker[w].id].job.timeout) /\ worker[w].id \in Ids
      BY <1>3, <1>r DEF Heartbeat
    <3>2. worker[w].id \in Stored
      BY <3>1 DEF Extend, Holds, Stored, Live
    <3>3. task[worker[w].id].job \in Job
      BY <1>i, <3>2, JobsAssumption DEF TypeOK
    <3> QED BY <3>1, <3>3 DEF Job
  <2>2. Handled({worker[w].id}) /\ UNCHANGED <<seq, fence, up, now>>
    BY <1>i, <2>1, ExtendHandles DEF Extend
  <2>3. IInv' /\ \A id \in Ids : Final(id)
    BY <1>i, <2>2, HolderKeeps, HandledFinal
  <2>4. PICK delivered \in BOOLEAN :
          worker' = [worker EXCEPT ![w] = [worker[w] EXCEPT !.beats = @ + 1, !.beating = delivered]]
    BY <1>3, <1>i DEF Heartbeat, WorkersTypeOK
  <2>5. worker[w].beats + 1 \in 0 .. MaxBeats
    <3>1. worker[w].beats \in 0 .. MaxBeats /\ worker[w].beats < MaxBeats
      BY <1>3, <1>i DEF Heartbeat, WorkersTypeOK
    <3> QED BY <3>1, BeatsAssumption
  <2>6. WorkersTypeOK' /\ BusyOnTask'
    BY ZenonT(40), <1>i, <1>3, <2>3, <2>4, <2>5 DEF WorkersTypeOK, BusyOnTask, RunnersInv, IInv, Heartbeat, ackVars
  <2> QED BY <1>3, <2>3, <2>6 DEF RunnersInv, Heartbeat
<1>4. CASE HeartbeatFails(w)
  <2>1. IInv' /\ \A id \in Ids : Final(id)
    BY <1>4, <1>i, StutterKeeps DEF HeartbeatFails, Final, vars
  <2>2. WorkersTypeOK' /\ BusyOnTask'
    BY ZenonT(40), <1>i, <1>4, <2>1 DEF WorkersTypeOK, BusyOnTask, RunnersInv, IInv, HeartbeatFails, ackVars
  <2> QED BY <1>4, <2>1, <2>2 DEF RunnersInv, HeartbeatFails
<1>5. CASE ChildDone(w)
  <2>1. UNCHANGED vars /\ UNCHANGED ackVars /\ worker[w].pc = "running"
        /\ \E pc \in {"acking", "nacking"} : Become(w, Runner(pc, worker[w].id, worker[w].token))
    BY <1>5 DEF ChildDone
  <2> QED BY <1>i, <1>r, <2>1, StutterKeeps, BecomeType DEF Final, vars, ackVars
<1>6. CASE SendNack(w)
  <2>1. NackRequeue(worker[w].id, worker[w].token) /\ worker[w].id \in Ids /\ UNCHANGED ackVars
        /\ (Become(w, Idle) \/ Become(w, Gone))
    BY <1>6, <1>r DEF SendNack
  <2>2. Handled({worker[w].id}) /\ UNCHANGED <<seq, fence, up, now>>
    BY <1>i, <2>1, NackRequeueHandles DEF NackRequeue
  <2>3. IInv' /\ \A id \in Ids : Final(id)
    BY <1>i, <2>2, HolderKeeps, HandledFinal
  <2> QED BY <1>i, <2>1, <2>3, LeftType DEF ackVars
<1> QED
  BY <1>1, <1>2, <1>3, <1>4, <1>5, <1>6

\* What was counted and written stays as it was.
LEMMA CountedKeeps ==
  ASSUME CountedOnce, WorkersTypeOK, \A id \in Ids : Final(id),
         counted' \ unwritten' \subseteq counted \ unwritten
  PROVE  CountedOnce'
<1> SUFFICES ASSUME NEW c \in counted \ unwritten
             PROVE  /\ \/ task'[c[2]].state = "purged"
                       \/ task'[c[2]].state = "done" /\ task'[c[2]].fence = c[3]
                    /\ \A d \in counted \ unwritten : d[2] = c[2] => d = c
  BY DEF CountedOnce
<1>1. c[2] \in Ids
  BY DEF WorkersTypeOK
<1>2. Final(c[2])
  BY <1>1
<1> QED
  BY <1>2 DEF CountedOnce, Final

\* An ack that is written finds the task claimed, so nobody was told so of it before.
LEMMA AckCounts ==
  ASSUME RunnersInv, CountedOnce, NEW w \in Workers, SendAck(w)
  PROVE  RunnersInv' /\ CountedOnce'
<1> DEFINE id == worker[w].id
           token == worker[w].token
<1>i. IInv /\ TypeOK /\ WorkersTypeOK /\ counted \subseteq Workers \X Ids \X Nat
      /\ unwritten \subseteq counted
  BY DEF RunnersInv, IInv, WorkersTypeOK
<1>1. Ack(id, token) /\ id \in Ids /\ token \in Nat
  BY DEF RunnersInv, WorkersTypeOK, BusyOnTask, SendAck
<1>2. Handled({id})
  BY <1>i, <1>1, AckHandles
<1>3. IInv' /\ \A other \in Ids : Final(other)
  BY <1>i, <1>1, <1>2, HolderKeeps, HandledFinal DEF Ack
<1>4. /\ counted' \subseteq Workers \X Ids \X Nat /\ unwritten' \subseteq counted'
      /\ Become(w, Idle) \/ Become(w, Gone)
  BY <1>i, <1>1 DEF SendAck, ackVars
<1>5. RunnersInv'
  BY <1>i, <1>3, <1>4, LeftType
<1>6. CASE UNCHANGED ackVars \/ task' = task
  <2>1. counted' \ unwritten' \subseteq counted \ unwritten
    BY <1>6 DEF SendAck, ackVars
  <2> QED BY <1>i, <1>3, <1>5, <2>1, CountedKeeps
<1>7. CASE ~UNCHANGED ackVars /\ task' # task
  <2> DEFINE sure == counted \ unwritten
  <2>1. task[id].state = "claimed" /\ task[id].fence = token /\ task[id] \in Row
    BY <1>1, <1>i DEF Ack, Holds, TypeOK
  <2>2. task'[id].state = "done" /\ task'[id].fence = token
    <3>1. task' = [task EXCEPT ![id] = Finished(@, "done")]
      BY <1>1, <1>7 DEF Ack, NotWritten
    <3> QED BY <1>1, <1>i, <2>1, <3>1 DEF Finished, TypeOK, Row
  <2>3. \A c \in sure : c[2] # id
    BY <2>1 DEF CountedOnce
  <2>4. \A c \in sure : /\ \/ task'[c[2]].state = "purged"
                           \/ task'[c[2]].state = "done" /\ task'[c[2]].fence = c[3]
                        /\ \A d \in sure : d[2] = c[2] => d = c
    <3> SUFFICES ASSUME NEW c \in sure
                 PROVE  /\ \/ task'[c[2]].state = "purged"
                           \/ task'[c[2]].state = "done" /\ task'[c[2]].fence = c[3]
                        /\ \A d \in sure : d[2] = c[2] => d = c
      OBVIOUS
    <3>1. c[2] \in Ids
      BY <1>i
    <3>2. Final(c[2])
      BY <1>3, <3>1
    <3> QED BY <3>2 DEF CountedOnce, Final
  <2>5. counted' \ unwritten' \subseteq sure \cup {<<w, id, token>>}
    BY <1>7 DEF SendAck
  <2> HIDE DEF id, token, sure
  <2>6. ASSUME NEW c \in counted' \ unwritten'
        PROVE  /\ \/ task'[c[2]].state = "purged"
                  \/ task'[c[2]].state = "done" /\ task'[c[2]].fence = c[3]
               /\ \A d \in counted' \ unwritten' : d[2] = c[2] => d = c
    <3>1. CASE c = <<w, id, token>>
      BY <2>2, <2>3, <2>5, <3>1
    <3>2. CASE c \in sure
      BY <2>3, <2>4, <2>5, <3>2
    <3> QED BY <2>5, <2>6, <3>1, <3>2
  <2>7. CountedOnce'
    BY <2>6 DEF CountedOnce
  <2> QED BY <1>5, <2>7
<1> QED
  BY <1>6, <1>7

LEMMA RunnersStep ==
  RunnersInv /\ CountedOnce /\ [WorkersNext]_allVars => RunnersInv' /\ CountedOnce'
<1> SUFFICES ASSUME RunnersInv, CountedOnce, [WorkersNext]_allVars
             PROVE  RunnersInv' /\ CountedOnce'
  OBVIOUS
<1>1. CASE Server
  BY <1>1, ServerKeeps, CountedKeeps DEF RunnersInv, Server, workerVars, ackVars
<1>2. ASSUME NEW w \in Workers, SendAck(w) PROVE RunnersInv' /\ CountedOnce'
  BY <1>2, AckCounts
<1>3. ASSUME NEW w \in Workers,
             \/ Start(w) \/ ClaimOne(w) \/ GiveUp(w) \/ Heartbeat(w) \/ HeartbeatFails(w)
             \/ ChildDone(w) \/ SendNack(w) \/ Refused(w) \/ ServerGone(w) \/ Die(w)
      PROVE  RunnersInv' /\ CountedOnce'
  BY <1>3, RunnerKeeps, CountedKeeps DEF RunnersInv, ackVars
<1>4. CASE UNCHANGED allVars
  <2>1. UNCHANGED vars /\ worker' = worker /\ UNCHANGED ackVars
    BY <1>4 DEF allVars, workerVars
  <2>2. IInv' /\ \A id \in Ids : Final(id)
    BY <2>1, StutterKeeps DEF RunnersInv, vars, Final
  <2> QED BY <2>1, <2>2, CountedKeeps DEF RunnersInv, WorkersTypeOK, BusyOnTask, IInv, ackVars
<1> QED
  BY <1>1, <1>2, <1>3, <1>4 DEF WorkersNext, Settle

\* Runners, of any number, keep the invariant of the queue they drain: a runner that dies,
\* a reply that is lost and a heartbeat of its own length are steps of the queue too.
THEOREM RunnersKeepQueue == WorkersSpec => [](IInv /\ WorkersTypeOK)
<1>1. RunnersInv /\ CountedOnce => IInv /\ WorkersTypeOK
  BY DEF RunnersInv
<1> QED
  BY <1>1, RunnersInit, RunnersStep, PTL DEF WorkersSpec

\* A runner that is told its ack succeeded can rely on it when its row was written, whatever
\* other runners, the reaper and the recovery of a restarted server do and whichever of
\* their own writes fail: a write whose error the queue discards is the one way in which
\* two runners are told so of one task, or one of a task that is taken back.
THEOREM AcksCountOnce == WorkersSpec => []CountedOnce
  BY RunnersInit, RunnersStep, PTL DEF WorkersSpec

-----------------------------------------------------------------------------
(* A client that polls a queue whose process stays up.                     *)

\* While a process has the queue open, a row keeps its number and its job, and a new one gets
\* a number past every earlier one.
LEMMA NumbersStand ==
  ASSUME IInv, up, [Next]_vars, up'
  PROVE  /\ seq <= seq'
         /\ \A id \in Stored' :
              \/ task'[id].seq > seq
              \/ id \in Stored /\ task'[id].seq = task[id].seq /\ task'[id].job = task[id].job
<1>t. task \in [Ids -> Row] /\ seq \in Nat /\ TypeOK
  BY DEF IInv, TypeOK
<1>h. ASSUME NEW ids, Handled(ids), seq' = seq
      PROVE  /\ seq <= seq'
             /\ \A id \in Stored' : id \in Stored /\ task'[id].seq = task[id].seq /\ task'[id].job = task[id].job
  BY <1>h, <1>t, StoredSame DEF SameNumbers, Stored
<1>1. ASSUME NEW id \in Ids, NEW job \in Jobs, NEW deps \in SUBSET Issued, Enqueue(id, job, deps)
      PROVE  seq' = seq + 1 /\ task'[id].seq = seq + 1
             /\ \A other \in Stored' : other = id \/ (other \in Stored /\ task'[other] = task[other])
  BY <1>1, <1>t DEF Enqueue, Stored
<1>2. ASSUME NEW id \in Ids, NEW queue \in Queues, NEW w \in Workers, NEW lease \in Leases,
             Claim(id, queue, w, lease)
      PROVE  seq' = seq /\ \A other \in Stored' : /\ other \in Stored /\ task'[other].seq = task[other].seq
                                                  /\ task'[other].job = task[other].job
  <2>1. task[id].state = "queued" /\ seq' = seq
    BY <1>2 DEF Claim, Claimable
  <2>2. \A other \in Ids \ {id} : task'[other] = task[other]
    BY <1>2, <1>t DEF Claim
  <2>3. task'[id].seq = task[id].seq /\ task'[id].job = task[id].job
    BY <1>2, <1>t DEF Claim, Leased, Row
  <2> QED BY <2>1, <2>2, <2>3 DEF Stored, Live
<1>3. ASSUME NEW id \in Ids, NEW token \in 1 .. fence,
             Ack(id, token) \/ NackGiveUp(id, token) \/ NackRequeue(id, token)
      PROVE  Handled({id}) /\ seq' = seq
  BY <1>3, AckHandles, NackGiveUpHandles, NackRequeueHandles DEF Ack, NackGiveUp, NackRequeue
<1>4. ASSUME NEW id \in Ids, NEW token \in 1 .. fence, NEW extra \in Extras, Extend(id, token, extra)
      PROVE  Handled({id}) /\ seq' = seq
  BY <1>4, ExtendHandles, TimesAssumption DEF Extend
<1>5. CASE Reap
  <2>1. PICK swept \in SUBSET Expired : ReapRows(swept)
    BY <1>5 DEF Reap
  <2>2. Handled(swept) /\ seq' = seq
    BY <2>1, RecoverHandles DEF ReapRows, Expired
  <2> QED BY <1>h, <2>2
<1>6. ASSUME NEW queue \in Queues, NEW cutoff \in 0 .. now, Purge(queue, cutoff)
      PROVE  seq' = seq /\ \A id \in Stored' : id \in Stored /\ task'[id] = task[id]
  BY <1>6, <1>t DEF Purge, Stored, NoRow, Live, Terminal
<1>7. CASE Tick \/ UNCHANGED vars
  BY <1>7, <1>t DEF Tick, vars, Stored
<1>8. ~Crash /\ ~Open /\ ~OpenCutShort
  BY DEF Crash, Open, OpenCutShort
<1>9. CASE \E id \in Ids, job \in Jobs, deps \in SUBSET Issued : Enqueue(id, job, deps)
  BY <1>1, <1>9, <1>t
<1>10. CASE \E id \in Ids, queue \in Queues, w \in Workers, lease \in Leases : Claim(id, queue, w, lease)
  BY <1>2, <1>10, <1>t
<1>11. CASE \E id \in Ids, token \in 1 .. fence :
              Ack(id, token) \/ NackGiveUp(id, token) \/ NackRequeue(id, token)
  BY <1>3, <1>11, <1>h
<1>12. CASE \E id \in Ids, token \in 1 .. fence, extra \in Extras : Extend(id, token, extra)
  BY <1>4, <1>12, <1>h
<1>13. CASE \E queue \in Queues, cutoff \in 0 .. now : Purge(queue, cutoff)
  BY <1>6, <1>13, <1>t
<1> QED
  BY <1>5, <1>7, <1>8, <1>9, <1>10, <1>11, <1>12, <1>13 DEF Next

PollInv == IInv /\ up /\ cursor \in Nat /\ cursor <= seq /\ CursorComplete

\* A poll moves the cursor to the last row of its page, past no row that is not on it.
LEMMA PollKeeps ==
  ASSUME PollInv, Poll
  PROVE  PollInv'
<1>1. /\ task \in [Ids -> Row] /\ seq \in Nat /\ UNCHANGED vars
      /\ \A id \in Stored : task[id].seq \in Nat /\ task[id].seq <= seq
  BY DEF PollInv, IInv, TypeOK, CountersAhead, Stored, Row, Poll
<1>2. PICK page \in Page(Watched, cursor) \ {{}} :
        listed' = listed \cup page /\ cursor' \in MaxOf({task[id].seq : id \in page})
  BY DEF Poll
<1>3. /\ page \subseteq Stored /\ page # {}
      /\ \A id \in page : task[id].seq > cursor
      /\ \A a \in page, b \in After(Watched, cursor) \ page : task[a].seq < task[b].seq
  BY <1>2 DEF Page, After
<1>4. PICK last \in page : cursor' = task[last].seq
  <2>1. cursor' \in {task[id].seq : id \in page} \cup {0} /\ \A id \in page : task[id].seq <= cursor'
    BY <1>2 DEF MaxOf
  <2>2. cursor' # 0
    BY <1>1, <1>3, <2>1 DEF PollInv
  <2> QED BY <2>1, <2>2
<1>5. cursor' \in Nat /\ cursor' <= seq
  BY <1>1, <1>3, <1>4
<1>6. ASSUME NEW id \in Stored, task[id].job.queue = Watched, task[id].seq <= cursor'
      PROVE  id \in listed'
  <2>1. CASE task[id].seq <= cursor
    BY <1>2, <1>6, <2>1 DEF PollInv, CursorComplete
  <2>2. CASE task[id].seq > cursor
    <3>1. id \in After(Watched, cursor)
      BY <1>6, <2>2 DEF After
    <3>2. ~(task[last].seq < task[id].seq)
      BY <1>1, <1>3, <1>4, <1>6
    <3> QED BY <1>2, <1>3, <3>1, <3>2
  <2> QED BY <1>1, <2>1, <2>2 DEF PollInv
<1>7. IInv' /\ up' /\ seq' = seq /\ task' = task /\ Stored' = Stored
  BY <1>1, StutterKeeps DEF PollInv, vars, Stored
<1>8. CursorComplete'
  BY <1>6, <1>7 DEF CursorComplete
<1> QED BY <1>5, <1>7, <1>8 DEF PollInv

\* No poller misses a task while the process that has the queue open stays up: the cursor
\* never passes a task that no answer contained, whatever is enqueued, claimed, settled and
\* purged between two polls.
THEOREM PollsMissNothing ==
  ObserverInit /\ [][ObserverNext /\ up']_<<vars, observerVars>> => []CursorComplete
<1>1. ObserverInit => PollInv
  <2> SUFFICES ASSUME ObserverInit PROVE PollInv
    OBVIOUS
  <2>1. IInv /\ up /\ seq = 0 /\ cursor = 0
    BY InitInvariant DEF ObserverInit, Init
  <2>2. Stored = {}
    BY DEF ObserverInit, Init, Stored, NoRow, Live, Terminal
  <2> QED BY <2>1, <2>2 DEF PollInv, CursorComplete
<1>2. PollInv /\ [ObserverNext /\ up']_<<vars, observerVars>> => PollInv'
  <2> SUFFICES ASSUME PollInv, [ObserverNext /\ up']_<<vars, observerVars>> PROVE PollInv'
    OBVIOUS
  <2>1. CASE Poll
    BY <2>1, PollKeeps
  <2>2. CASE ~Poll
    <3>1. [Next]_vars /\ up' /\ cursor' = cursor /\ listed' = listed
      BY <2>2 DEF ObserverNext, observerVars, vars, PollInv
    <3>2. IInv' /\ seq \in Nat /\ seq' \in Nat
      <4>1. IInv'
        BY <3>1, NextKeeps DEF PollInv
      <4> QED BY <4>1 DEF PollInv, IInv, TypeOK
    <3>3. /\ seq <= seq'
          /\ \A id \in Stored' :
               \/ task'[id].seq > seq
               \/ id \in Stored /\ task'[id].seq = task[id].seq /\ task'[id].job = task[id].job
      BY <3>1, NumbersStand DEF PollInv
    <3>4. \A id \in Stored' : task'[id].seq \in Nat
      BY <3>2 DEF IInv, TypeOK, Row, Stored
    <3>5. CursorComplete'
      BY <3>1, <3>2, <3>3, <3>4 DEF PollInv, CursorComplete
    <3> QED BY <3>1, <3>2, <3>3, <3>5 DEF PollInv
  <2> QED BY <2>1, <2>2
<1>3. PollInv => CursorComplete
  BY DEF PollInv
<1> QED BY <1>1, <1>2, <1>3, PTL

(***************************************************************************)
(* A supervised pane.                                                      *)
(***************************************************************************)

Ended == {"clean", "crashed"}

\* A session ends once, and one that waits to be handled has ended.
ExitsOnce ==
  /\ exits \in Seq(Uids)
  /\ \A i \in 1 .. Len(exits) : session[exits[i]] \in Ended
  /\ \A i, j \in 1 .. Len(exits) : exits[i] = exits[j] => i = j

\* The session the pane shows, and every one a step remembers, was created.
AllBorn ==
  /\ session[pane.uid] # "unborn"
  /\ indexed # NoUid => session[indexed] # "unborn"
  /\ demoting # NoUid => session[demoting] \notin {"live", "unborn"}

\* A pane that is closed is closed for good, and the index leads nowhere.
ClosedForGood ==
  /\ "closed" \in slips => ~Shown
  /\ ~Shown => indexed = NoUid /\ session[pane.uid] # "live"

\* A restart is owed to a crash that was handled, and each crash to one restart.
OneForEachCrash ==
  \A b \in backoffs :
    /\ b.step \in {"waiting", "checked"} <=> b.new = NoUid
    /\ session[b.of] = "crashed" /\ ~Queued(b.of)
    /\ b.new # NoUid => session[b.new] # "unborn"
    /\ \A c \in backoffs : b.of = c.of => b = c

\* What a restart has created nobody else knows, until the pane shows it.
CreatedUnknown ==
  \A b \in backoffs : b.step = "created" =>
    /\ b.new \notin {pane.uid, indexed, demoting}
    /\ \A c \in backoffs : b.new # c.of /\ (c.new = b.new => c = b)

\* The crash behind a restart is over for good.
OwedStaysDead ==
  \A b \in backoffs : b.of = pane.uid =>
    /\ pane.status # "running"
    /\ Shown => b.step # "swapped"

Coming == {"waiting", "checked", "created"}
Due(b) == b.step \in Coming /\ b.of = pane.uid
Crossed == "crossed" \in slips
Overrun == slips \cap {"crossed", "closed"} # {}

\* After its check a restart is of the session the pane shows, unless one by hand
\* or a close came between.
CheckedIsShown ==
  \A b \in backoffs : b.step \in {"checked", "created"} =>
    /\ ~Crossed => b.of = pane.uid
    /\ ~Overrun => Shown

OnlyLive ==
  ~Overrun => \A u \in Uids : session[u] = "live" =>
    (Shown /\ pane.uid = u) \/ \E b \in backoffs : b.step = "created" /\ b.new = u

\* The exit of a session that no pane shows yet is lost on the index.
CreatedCrashHeard ==
  "unheard" \notin slips =>
    \A b \in backoffs : b.step = "created" /\ session[b.new] = "crashed" => Queued(b.new)

\* What the restarts since the last sign of health and the count of them differ by.
CountsLag ==
  slips \cap {"crossed", "uncounted"} = {} =>
    /\ \A b, c \in backoffs : b.step = "swapped" /\ c.step = "swapped" => b = c
    /\ spent <= retries + 1
    /\ ~Uncounted /\ Shown => spent <= retries
    /\ \A b \in backoffs : Due(b) => ~Uncounted /\ spent < MaxRetries

PaneInv ==
  /\ PaneTypeOK
  /\ ExitsOnce /\ AllBorn /\ ClosedForGood /\ OneForEachCrash /\ CreatedUnknown
  /\ OwedStaysDead /\ CheckedIsShown /\ OnlyLive /\ CreatedCrashHeard /\ CountsLag
  /\ CrashIsRetried /\ NoSessionOrphaned /\ RetriesKept /\ ExitedIsOver
-----------------------------------------------------------------------------
LEMMA NoSuchUid == NoUid \notin Uids
BY SupervisionAssumption DEF NoUid, Uids

\* What the head and the tail of a queue are, by position.
LEMMA Popped ==
  ASSUME NEW S, NEW s \in Seq(S), s # <<>>
  PROVE  /\ Len(s) >= 1 /\ Head(s) = s[1] /\ s[1] \in S
         /\ Tail(s) \in Seq(S) /\ Len(Tail(s)) = Len(s) - 1
         /\ \A i \in 1 .. Len(Tail(s)) : Tail(s)[i] = s[i + 1]
  OBVIOUS

\* What a queue is when one more has joined it.
LEMMA Pushed ==
  ASSUME NEW S, NEW s \in Seq(S), NEW e \in S
  PROVE  /\ Append(s, e) \in Seq(S) /\ Len(Append(s, e)) = Len(s) + 1
         /\ \A i \in 1 .. Len(s) : Append(s, e)[i] = s[i]
         /\ Append(s, e)[Len(s) + 1] = e
  OBVIOUS

\* An exit that is handled owes its session a restart, or slips.
LEMMA HandleExitKeeps ==
  ASSUME PaneInv, HandleExit
  PROVE  PaneInv'
<1>0. PICK u : u = Head(exits)
  OBVIOUS
<1> USE DEF PaneInv
<1>1. /\ exits' \in Seq(Uids) /\ u \in Uids /\ session[u] \in Ended
      /\ Queued(u) /\ ~Queued(u)'
      /\ \A v : Queued(v)' => Queued(v)
      /\ \A v : Queued(v) => Queued(v)' \/ v = u
      /\ \A i \in 1 .. Len(exits') : session[exits'[i]] \in Ended
      /\ \A i, j \in 1 .. Len(exits') : exits'[i] = exits'[j] => i = j
  <2>1. exits \in Seq(Uids) /\ exits # <<>> /\ exits' = Tail(exits)
    BY DEF HandleExit, ExitsOnce
  <2>2. /\ Len(exits) >= 1 /\ Len(exits) \in Nat /\ u = exits[1] /\ exits[1] \in Uids
        /\ exits' \in Seq(Uids) /\ Len(exits') = Len(exits) - 1
        /\ \A i \in 1 .. Len(exits') : exits'[i] = exits[i + 1]
    BY <1>0, <2>1, Popped
  <2>3. /\ 1 \in 1 .. Len(exits)
        /\ \A i \in 1 .. Len(exits) : i = 1 \/ (i - 1 \in 1 .. Len(exits') /\ exits'[i - 1] = exits[i])
        /\ \A i \in 1 .. Len(exits') : i + 1 \in 1 .. Len(exits) /\ i + 1 # 1
    <3>1. \A i \in 1 .. Len(exits) : i = 1 \/ (i - 1 \in 1 .. Len(exits') /\ (i - 1) + 1 = i)
      BY <2>2
    <3>2. \A i \in 1 .. Len(exits) : i = 1 \/ exits'[i - 1] = exits[(i - 1) + 1]
      BY <2>2, <3>1
    <3>3. \A i \in 1 .. Len(exits') : i + 1 \in 1 .. Len(exits) /\ i + 1 # 1
      BY <2>2
    <3> QED
      BY <2>2, <3>1, <3>2, <3>3
  <2>4. \A v : Queued(v) => v = u \/ Queued(v)'
    BY <2>2, <2>3 DEF Queued
  <2>5. \A v : Queued(v)' => Queued(v)
    BY <2>2, <2>3 DEF Queued
  <2>6. Queued(u) /\ session[u] \in Ended
    BY <2>2, <2>3 DEF Queued, ExitsOnce
  <2>7. \A i \in 1 .. Len(exits') : exits'[i] # u /\ session[exits'[i]] \in Ended
    BY <2>2, <2>3 DEF ExitsOnce
  <2>8. \A i, j \in 1 .. Len(exits') : exits'[i] = exits'[j] => i = j
    <3> SUFFICES ASSUME NEW i \in 1 .. Len(exits'), NEW j \in 1 .. Len(exits'), exits'[i] = exits'[j]
                 PROVE  i = j
      OBVIOUS
    <3>1. exits[i + 1] = exits[j + 1] /\ i + 1 \in 1 .. Len(exits) /\ j + 1 \in 1 .. Len(exits)
      BY <2>2, <2>3
    <3>2. i + 1 = j + 1
      BY <3>1 DEF ExitsOnce
    <3> QED BY <3>2
  <2>9. ~Queued(u)'
    BY <2>7 DEF Queued
  <2> QED
    BY <2>2, <2>4, <2>5, <2>6, <2>7, <2>8, <2>9
<1>2. /\ UNCHANGED <<indexed, session, supervised, retries, demoting, hands, spent>>
      /\ pane' \in [uid : Uids, status : {"running", "exited", "closed"}] /\ pane'.uid = pane.uid
      /\ indexed = u => pane'.status = "exited"
      /\ indexed # u => pane' = pane
      /\ pane.status = "exited" => pane'.status = "exited"
      /\ pane'.status = "closed" <=> pane.status = "closed"
      /\ indexed = u => Shown
  <2>1. indexed = u => Shown
    BY <1>1, NoSuchUid DEF ClosedForGood
  <2> QED
    BY <1>0, <2>1 DEF HandleExit, Marked, PaneTypeOK, Shown
<1>3. /\ backoffs \subseteq backoffs'
      /\ \A b \in backoffs' : b \in backoffs
            \/ (b = Restart("waiting", u, NoUid) /\ b.step = "waiting" /\ b.of = u /\ b.new = NoUid)
      /\ backoffs' # backoffs => indexed = u /\ session[u] = "crashed" /\ ~Spent
      /\ Restarts(u) /\ indexed = u => \E b \in backoffs' : b.of = u
  <2>1. Restart("waiting", u, NoUid).step = "waiting" /\ Restart("waiting", u, NoUid).of = u
        /\ Restart("waiting", u, NoUid).new = NoUid
    BY DEF Restart
  <2>2. backoffs' = IF indexed = u /\ Restarts(u)
                    THEN backoffs \cup {Restart("waiting", u, NoUid)} ELSE backoffs
    BY <1>0 DEF HandleExit
  <2> QED
    BY <2>1, <2>2 DEF Restarts
<1>4. /\ slips \subseteq slips' /\ slips' \subseteq PaneSlips
      /\ indexed # u /\ (pane.uid = u \/ Unshown(u)) => "unheard" \in slips'
      /\ pane.uid # u /\ indexed = u => "mistaken" \in slips'
      /\ ~supervised => "unmanned" \in slips'
      /\ Uncounted => "uncounted" \in slips'
      /\ \A m : m \in {"crossed", "closed", "failed"} => (m \in slips' <=> m \in slips)
  BY <1>0 DEF HandleExit, Slip, PaneSlips, PaneTypeOK
<1>5. PaneTypeOK'
  BY <1>1, <1>2, <1>3, <1>4 DEF PaneTypeOK, Ended, Restart
<1>6. ExitsOnce' /\ AllBorn' /\ ClosedForGood'
  BY <1>1, <1>2, <1>4 DEF ExitsOnce, AllBorn, ClosedForGood, Shown
<1>7. OneForEachCrash'
  <2>1. \A b \in backoffs' : b \notin backoffs => session[b.of] = "crashed" /\ ~Queued(b.of)'
    BY <1>1, <1>3
  <2>2. \A b \in backoffs : ~Queued(b.of)'
    BY <1>1 DEF OneForEachCrash
  <2>3. \A b, c \in backoffs' : b.of = c.of => b = c
    BY <1>1, <1>3 DEF OneForEachCrash
  <2> QED
    BY <1>1, <1>2, <1>3, <2>1, <2>2, <2>3 DEF OneForEachCrash
<1>8. CreatedUnknown'
  BY <1>2, <1>3 DEF CreatedUnknown, OneForEachCrash
<1>9. OwedStaysDead'
  BY <1>1, <1>2, <1>3 DEF Shown, OwedStaysDead, Restart
<1>10. CheckedIsShown' /\ OnlyLive'
  BY <1>2, <1>3, <1>4 DEF Overrun, Shown, CheckedIsShown, OnlyLive, Crossed, Restart
<1>11. CreatedCrashHeard'
  BY <1>1, <1>2, <1>3, <1>4 DEF CreatedCrashHeard, Unshown, CreatedUnknown, Restart
<1>12. CountsLag'
  BY <1>1, <1>2, <1>3, <1>4, SupervisionAssumption DEF Shown, CountsLag, Due, Coming, Uncounted, Restart, Spent, PaneTypeOK
<1>13. CrashIsRetried'
  <2>1. CASE pane.uid = u
    BY <2>1, <1>2, <1>3, <1>4 DEF Shown, CrashIsRetried, Restarts, Spent
  <2>2. CASE pane.uid # u
    BY <2>2, <1>1, <1>2, <1>3, <1>4 DEF Shown, CrashIsRetried
  <2> QED
    BY <2>1, <2>2
<1>14. NoSessionOrphaned' /\ RetriesKept'
  BY <1>2, <1>3, <1>4 DEF Overrun, Shown, NoSessionOrphaned, RetriesKept
<1>15. ExitedIsOver'
  BY <1>1, <1>2, <1>4 DEF ExitedIsOver, Ended
<1> QED
  BY <1>5, <1>6, <1>7, <1>8, <1>9, <1>10, <1>11, <1>12, <1>13, <1>14, <1>15
\* A session ends.
LEMMA SessionEndsKeeps ==
  ASSUME PaneInv, SessionEnds
  PROVE  PaneInv'
<1> USE DEF PaneInv
<1>0. PICK u \in Uids, how \in Ended :
        /\ session[u] = "live"
        /\ session' = [session EXCEPT ![u] = how] /\ exits' = Append(exits, u)
  BY DEF SessionEnds, Ended
<1>1. UNCHANGED <<pane, indexed, supervised, retries, backoffs, demoting, hands, spent, slips>>
  BY DEF SessionEnds
<1>2. /\ exits' \in Seq(Uids) /\ Queued(u)' /\ \A v : Queued(v)' <=> Queued(v) \/ v = u
      /\ \A i \in 1 .. Len(exits') : session'[exits'[i]] \in Ended
      /\ \A i, j \in 1 .. Len(exits') : exits'[i] = exits'[j] => i = j
  <2>1. /\ exits' \in Seq(Uids) /\ Len(exits') = Len(exits) + 1 /\ Len(exits) \in Nat
        /\ \A i \in 1 .. Len(exits) : exits'[i] = exits[i]
        /\ exits'[Len(exits) + 1] = u
    BY <1>0, Pushed DEF ExitsOnce
  <2>2. /\ \A i \in 1 .. Len(exits') : i \in 1 .. Len(exits) \/ i = Len(exits) + 1
        /\ Len(exits) + 1 \in 1 .. Len(exits')
        /\ \A i \in 1 .. Len(exits) : i \in 1 .. Len(exits')
    BY <2>1
  <2>3. \A i \in 1 .. Len(exits) : exits[i] # u /\ session'[exits[i]] \in Ended
    BY <1>0 DEF ExitsOnce, PaneTypeOK, Ended
  <2>4. session'[u] \in Ended
    BY <1>0 DEF PaneTypeOK
  <2>5. \A v : Queued(v)' <=> Queued(v) \/ v = u
    BY <2>1, <2>2 DEF Queued
  <2> QED
    BY <2>1, <2>2, <2>3, <2>4, <2>5 DEF ExitsOnce
<1>3. /\ session' \in [Uids -> {"unborn", "live", "clean", "crashed", "killed", "closed"}]
      /\ session'[u] \in Ended
      /\ \A v \in Uids : v # u => session'[v] = session[v]
  BY <1>0 DEF PaneTypeOK, Ended
<1>4. PaneTypeOK'
  BY <1>1, <1>2, <1>3 DEF PaneTypeOK, Ended
<1>5. ExitsOnce' /\ AllBorn' /\ ClosedForGood'
  BY <1>0, <1>1, <1>2, <1>3 DEF ExitsOnce, AllBorn, ClosedForGood, Shown, PaneTypeOK, Ended
<1>6. OneForEachCrash'
  BY <1>0, <1>1, <1>2, <1>3 DEF OneForEachCrash, PaneTypeOK, Ended
<1>7. CreatedUnknown' /\ OwedStaysDead' /\ CheckedIsShown' /\ CountsLag' /\ RetriesKept'
  BY <1>1 DEF Overrun, Shown, CreatedUnknown, OwedStaysDead, CheckedIsShown, Crossed, CountsLag, Due,
     Uncounted, RetriesKept
<1>8. OnlyLive' /\ NoSessionOrphaned'
  BY <1>0, <1>1, <1>3 DEF Overrun, Shown, OnlyLive, NoSessionOrphaned, Crossed, Ended
<1>9. CreatedCrashHeard'
  BY <1>0, <1>1, <1>2, <1>3 DEF CreatedCrashHeard, OneForEachCrash, PaneTypeOK
<1>10. CrashIsRetried'
  BY <1>0, <1>1, <1>2, <1>3 DEF Shown, CrashIsRetried, PaneTypeOK
<1>11. ExitedIsOver'
  BY <1>0, <1>1, <1>3 DEF ExitedIsOver, PaneTypeOK, Ended
<1> QED
  BY <1>4, <1>5, <1>6, <1>7, <1>8, <1>9, <1>10, <1>11

\* A sign of health clears the count.
LEMMA ShowHealthKeeps ==
  ASSUME PaneInv, ShowHealth
  PROVE  PaneInv'
<1> USE DEF PaneInv
<1>1. /\ UNCHANGED <<pane, indexed, session, exits, supervised, backoffs, demoting, hands, slips>>
      /\ indexed # NoUid /\ indexed \in Uids /\ session[indexed] = "live" /\ retries' = 0 /\ spent' = 0
  BY DEF ShowHealth, PaneTypeOK
<1>2. /\ PaneTypeOK' /\ ExitsOnce' /\ AllBorn' /\ ClosedForGood' /\ OneForEachCrash' /\ CreatedUnknown'
      /\ OwedStaysDead' /\ CheckedIsShown' /\ OnlyLive' /\ CreatedCrashHeard'
      /\ NoSessionOrphaned' /\ ExitedIsOver'
  BY <1>1 DEF Overrun, PaneTypeOK, ExitsOnce, AllBorn, ClosedForGood, Shown, OneForEachCrash, CreatedUnknown, OwedStaysDead,
     CheckedIsShown, OnlyLive, CreatedCrashHeard, NoSessionOrphaned, ExitedIsOver, Queued, Crossed
<1>3. CountsLag' /\ RetriesKept'
  BY <1>1, SupervisionAssumption DEF Shown, CountsLag, RetriesKept, Due, Uncounted, PaneTypeOK
<1>4. CrashIsRetried'
  <2>1. SUFFICES ASSUME Shown, "crossed" \notin slips, session[pane.uid] = "crashed"
                 PROVE  FALSE
    BY <1>1 DEF CrashIsRetried, Shown
  <2>2. ~Overrun
    BY <2>1 DEF Overrun, ClosedForGood
  <2> QED
    BY <1>1, <2>1, <2>2 DEF OnlyLive, CreatedUnknown
<1> QED
  BY <1>2, <1>3, <1>4

\* A restart that is due goes on only if its session is shown and over.
LEMMA CheckRestartKeeps ==
  ASSUME PaneInv, NEW b \in backoffs, CheckRestart(b)
  PROVE  PaneInv'
<1> USE DEF PaneInv
<1>1. UNCHANGED <<pane, indexed, session, exits, supervised, retries, demoting, hands, spent, slips>>
  BY DEF CheckRestart
<1>2. /\ b.step = "waiting" /\ b.of \in Uids /\ b.new = NoUid
      /\ b.of = pane.uid /\ Shown => StillDead(b)
  BY DEF Shown, CheckRestart, StillDead, PaneTypeOK, OneForEachCrash, OwedStaysDead
<1>3. /\ \A c \in backoffs : c \in backoffs' \/ c = b
      /\ \A c \in backoffs' : c \in backoffs \/
            (/\ c = Restart("checked", b.of, NoUid) /\ c.step = "checked" /\ c.of = b.of
             /\ c.new = NoUid /\ b.of = pane.uid /\ Shown)
      /\ b \notin backoffs'
      /\ b.of = pane.uid /\ Shown => \E c \in backoffs' : c.of = pane.uid
  <2>1. Restart("checked", b.of, NoUid).step = "checked" /\ Restart("checked", b.of, NoUid).of = b.of
        /\ Restart("checked", b.of, NoUid).new = NoUid
    BY DEF Restart
  <2> QED
    BY <1>2, <2>1 DEF CheckRestart, StillDead, Shown
<1>4. PaneTypeOK' /\ ExitsOnce' /\ AllBorn' /\ ClosedForGood'
  BY SMTT(30), <1>1, <1>2, <1>3 DEF PaneTypeOK, ExitsOnce, AllBorn, ClosedForGood, Shown, Restart
<1>5. OneForEachCrash'
  <2>1. \A c \in backoffs' : (c.step \in {"waiting", "checked"} <=> c.new = NoUid)
          /\ session[c.of] = "crashed" /\ ~Queued(c.of) /\ (c.new # NoUid => session[c.new] # "unborn")
    BY <1>2, <1>3 DEF OneForEachCrash
  <2>2. \A c, d \in backoffs' : c.of = d.of => c = d
    BY <1>2, <1>3 DEF OneForEachCrash
  <2> QED
    BY <1>1, <2>1, <2>2 DEF OneForEachCrash, Queued
<1>6. CreatedUnknown' /\ OwedStaysDead' /\ CheckedIsShown' /\ OnlyLive' /\ CreatedCrashHeard'
  BY <1>1, <1>2, <1>3 DEF Overrun, Shown, CreatedUnknown, OwedStaysDead, CheckedIsShown, OnlyLive,
     CreatedCrashHeard, Crossed, Queued, NoUid, PaneTypeOK, Uids
<1>7. CountsLag' /\ RetriesKept'
  BY <1>1, <1>2, <1>3 DEF Shown, CountsLag, RetriesKept, Due, Coming, Uncounted
<1>8. CrashIsRetried'
  BY <1>1, <1>2, <1>3 DEF Shown, CrashIsRetried, Queued
<1>9. NoSessionOrphaned' /\ ExitedIsOver'
  BY <1>1, <1>2, <1>3 DEF Overrun, Shown, NoSessionOrphaned, ExitedIsOver, NoUid, Uids
<1> QED
  BY <1>4, <1>5, <1>6, <1>7, <1>8, <1>9
\* What is created for a restart is new to everyone; or it fails.
LEMMA CreateForRestartKeeps ==
  ASSUME PaneInv, NEW b \in backoffs, CreateForRestart(b)
  PROVE  PaneInv'
<1> USE DEF PaneInv
<1>1. UNCHANGED <<pane, indexed, exits, supervised, retries, demoting, hands, spent>>
  BY DEF CreateForRestart
<1>2. /\ b.step = "checked" /\ b.of \in Uids /\ b.new = NoUid
      /\ ~Crossed => b.of = pane.uid
      /\ ~Overrun => Shown
  BY DEF Shown, CreateForRestart, PaneTypeOK, OneForEachCrash, OwedStaysDead, CheckedIsShown
<1>3. ASSUME NEW u \in Uids, Fresh(u), session' = [session EXCEPT ![u] = "live"],
             backoffs' = (backoffs \ {b}) \cup {Restart("created", b.of, u)}, UNCHANGED slips
      PROVE  PaneInv'
  <2>1. /\ session[u] = "unborn" /\ session'[u] = "live"
        /\ \A v \in Uids : v # u => session'[v] = session[v]
        /\ session' \in [Uids -> {"unborn", "live", "clean", "crashed", "killed", "closed"}]
        /\ u # pane.uid /\ u # indexed /\ u # demoting /\ ~Queued(u)
        /\ \A c \in backoffs : c.of # u /\ c.new # u
        /\ u # NoUid
    BY SMTT(60), <1>3 DEF Fresh, PaneTypeOK, AllBorn, ClosedForGood, Shown, OneForEachCrash, ExitsOnce, Queued, Ended, NoUid, Uids
  <2>2. PICK n \in backoffs' : n = Restart("created", b.of, u) /\ n.step = "created"
                                /\ n.of = b.of /\ n.new = u
    <3>1. Restart("created", b.of, u) \in backoffs'
      BY <1>3
    <3> QED
      BY <3>1 DEF Restart
  <2>3. \A c : c \in backoffs' <=> (c \in backoffs /\ c # b) \/ c = n
    BY <1>3, <2>2
  <2>4. PaneTypeOK'
    BY <1>1, <1>2, <1>3, <2>1, <2>2, <2>3 DEF PaneTypeOK, Restart
  <2>5. ExitsOnce' /\ AllBorn' /\ ClosedForGood'
    <3>1. \A i \in 1 .. Len(exits) : exits[i] \in Uids /\ exits[i] # u
      BY <2>1 DEF ExitsOnce, Queued
    <3>2. ExitsOnce'
      BY <1>1, <2>1, <3>1 DEF ExitsOnce
    <3>3. AllBorn' /\ ClosedForGood'
      BY <1>1, <1>3, <2>1 DEF AllBorn, ClosedForGood, Shown, PaneTypeOK
    <3> QED
      BY <3>2, <3>3
  <2>6. OneForEachCrash'
    <3>1. \A c \in backoffs' : (c.step \in {"waiting", "checked"} <=> c.new = NoUid)
            /\ session'[c.of] = "crashed" /\ ~Queued(c.of)
            /\ (c.new # NoUid => session'[c.new] # "unborn")
      BY <1>2, <2>1, <2>2, <2>3 DEF OneForEachCrash, PaneTypeOK
    <3>2. \A c, d \in backoffs' : c.of = d.of => c = d
      BY <1>2, <2>2, <2>3 DEF OneForEachCrash
    <3> QED
      BY <1>1, <3>1, <3>2 DEF OneForEachCrash, Queued
  <2>7. CreatedUnknown'
    BY <1>1, <1>2, <2>1, <2>2, <2>3 DEF CreatedUnknown
  <2>8. OwedStaysDead' /\ CheckedIsShown'
    BY <1>1, <1>2, <1>3, <2>2, <2>3 DEF Overrun, Shown, OwedStaysDead, CheckedIsShown, Crossed
  <2>9. OnlyLive' /\ NoSessionOrphaned'
    BY <1>1, <1>2, <1>3, <2>1, <2>2, <2>3 DEF Overrun, Shown, OnlyLive, NoSessionOrphaned, Crossed, NoUid
  <2>10. CreatedCrashHeard'
    BY <1>1, <1>3, <2>1, <2>2, <2>3 DEF CreatedCrashHeard, Queued, PaneTypeOK
  <2>11. CountsLag' /\ RetriesKept'
    BY <1>1, <1>2, <1>3, <2>2, <2>3 DEF Shown, CountsLag, RetriesKept, Due, Coming, Uncounted
  <2>12. CrashIsRetried'
    BY <1>1, <1>2, <1>3, <2>1, <2>2, <2>3 DEF Shown, CrashIsRetried, Queued, PaneTypeOK
  <2>13. ExitedIsOver'
    BY <1>1, <1>3, <2>1 DEF ExitedIsOver, PaneTypeOK
  <2> QED
    BY <2>4, <2>5, <2>6, <2>7, <2>8, <2>9, <2>10, <2>11, <2>12, <2>13
<1>4. ASSUME backoffs' = backoffs \ {b}, Slip({"failed"}), UNCHANGED session
      PROVE  PaneInv'
  <2>1. /\ slips' \subseteq PaneSlips /\ "failed" \in slips'
        /\ \A m : m # "failed" => (m \in slips' <=> m \in slips)
    BY <1>4 DEF Slip, PaneSlips, PaneTypeOK
  <2>2. \A c : c \in backoffs' <=> c \in backoffs /\ c # b
    BY <1>4
  <2>3. PaneTypeOK' /\ ExitsOnce' /\ AllBorn' /\ ClosedForGood'
    BY <1>1, <1>4, <2>1, <2>2 DEF PaneTypeOK, ExitsOnce, AllBorn, ClosedForGood, Shown
  <2>4. OneForEachCrash' /\ CreatedUnknown' /\ OwedStaysDead' /\ CheckedIsShown'
    BY <1>1, <1>4, <2>1, <2>2 DEF Overrun, Shown, OneForEachCrash, CreatedUnknown, OwedStaysDead, CheckedIsShown,
       Crossed, Queued
  <2>5. OnlyLive' /\ NoSessionOrphaned'
    BY <1>1, <1>2, <1>4, <2>1, <2>2 DEF Overrun, Shown, OnlyLive, NoSessionOrphaned, Crossed, NoUid, Uids
  <2>6. CreatedCrashHeard' /\ CrashIsRetried' /\ ExitedIsOver'
    BY <1>1, <1>4, <2>1, <2>2 DEF Shown, CreatedCrashHeard, CrashIsRetried, ExitedIsOver, Queued
  <2>7. CountsLag' /\ RetriesKept'
    BY <1>1, <1>2, <1>4, <2>1, <2>2 DEF Shown, CountsLag, RetriesKept, Due, Coming, Uncounted
  <2> QED
    BY <2>3, <2>4, <2>5, <2>6, <2>7
<1> QED
  BY <1>3, <1>4 DEF CreateForRestart

\* The swap: here the count of restarts and the restarts part.
LEMMA SwapForRestartKeeps ==
  ASSUME PaneInv, NEW b \in backoffs, SwapForRestart(b)
  PROVE  PaneInv'
<1> USE DEF PaneInv
<1>1. UNCHANGED <<indexed, session, exits, supervised, retries, demoting, hands, slips>>
  BY DEF SwapForRestart
<1>2. /\ b.step = "created" /\ b.of \in Uids /\ b.new \in Uids /\ b.new # NoUid
      /\ session[b.new] # "unborn" /\ b.new # pane.uid
      /\ ~Crossed => b.of = pane.uid /\ session[pane.uid] = "crashed"
      /\ \A c \in backoffs : c.of # b.new /\ (c.new = b.new => c = b)
      /\ \A c \in backoffs : c.of = b.of => c = b
  <2>1. b.step = "created" /\ b.of \in Uids /\ b.new \in Uids \cup {NoUid}
    BY DEF SwapForRestart, PaneTypeOK
  <2> QED
    BY <2>1 DEF OneForEachCrash, CheckedIsShown, CreatedUnknown
<1>3. PICK n \in backoffs' : n = Restart("swapped", b.of, b.new) /\ n.step = "swapped"
                              /\ n.of = b.of /\ n.new = b.new
  <2>1. Restart("swapped", b.of, b.new) \in backoffs'
    BY DEF SwapForRestart
  <2> QED
    BY <2>1 DEF Restart
<1>4. \A c : c \in backoffs' <=> (c \in backoffs /\ c # b) \/ c = n
  BY <1>3 DEF SwapForRestart
<1>5. n \in [step : {"waiting", "checked", "created", "swapped"}, of : Uids, new : Uids \cup {NoUid}]
  BY <1>2, <1>3 DEF Restart
<1>6. OneForEachCrash' /\ ExitsOnce'
  <2>1. \A c \in backoffs' : (c.step \in {"waiting", "checked"} <=> c.new = NoUid)
          /\ session[c.of] = "crashed" /\ ~Queued(c.of) /\ (c.new # NoUid => session[c.new] # "unborn")
    BY <1>2, <1>3, <1>4 DEF OneForEachCrash
  <2>2. \A c, d \in backoffs' : c.of = d.of => c = d
    BY <1>2, <1>3, <1>4 DEF OneForEachCrash
  <2> QED
    BY <1>1, <2>1, <2>2 DEF OneForEachCrash, Queued, ExitsOnce
<1>7. CreatedCrashHeard'
  BY <1>1, <1>3, <1>4 DEF CreatedCrashHeard, Queued
<1>8. slips \cap {"crossed", "uncounted"} = {} =>
        /\ Due(b) /\ spent < MaxRetries /\ spent \in Nat /\ retries \in Nat
        /\ \A c \in backoffs : c.step # "swapped"
        /\ Shown => spent <= retries
        /\ spent <= retries + 1
  <2>1. SUFFICES ASSUME slips \cap {"crossed", "uncounted"} = {}
                 PROVE  /\ Due(b) /\ spent < MaxRetries /\ spent \in Nat /\ retries \in Nat
                        /\ \A c \in backoffs : c.step # "swapped"
                        /\ Shown => spent <= retries
                        /\ spent <= retries + 1
    OBVIOUS
  <2>2. Due(b)
    BY <1>2, <2>1 DEF Due, Coming, Crossed
  <2>3. ~Uncounted /\ spent < MaxRetries /\ spent <= retries + 1 /\ (Shown => spent <= retries)
    BY <2>1, <2>2 DEF CountsLag
  <2> QED
    BY <2>2, <2>3 DEF Uncounted, PaneTypeOK
<1>9. CASE Shown
  <2>1. /\ pane' \in [uid : Uids, status : {"running", "exited", "closed"}]
        /\ pane'.uid = b.new /\ pane'.status = "running"
        /\ spent' = spent + 1
    BY <1>2, <1>9 DEF SwapForRestart, Respawned
  <2>2. PaneTypeOK' /\ AllBorn' /\ ClosedForGood'
    BY <1>1, <1>2, <1>4, <1>5, <1>9, <2>1 DEF PaneTypeOK, AllBorn, ClosedForGood, Shown
  <2>3. CreatedUnknown' /\ OwedStaysDead'
    BY <1>1, <1>2, <1>3, <1>4, <2>1 DEF Shown, CreatedUnknown, OwedStaysDead
  <2>4. CheckedIsShown'
    BY <1>1, <1>2, <1>3, <1>4, <2>1 DEF CheckedIsShown, Crossed, Overrun, Shown
  <2>5. OnlyLive' /\ NoSessionOrphaned'
    BY <1>1, <1>2, <1>3, <1>4, <2>1 DEF Overrun, Shown, OnlyLive, NoSessionOrphaned, Crossed, PaneTypeOK
  <2>6. CountsLag' /\ RetriesKept'
    <3>1. SUFFICES ASSUME slips \cap {"crossed", "uncounted"} = {}
                   PROVE  /\ \A c, d \in backoffs' : c.step = "swapped" /\ d.step = "swapped" => c = d
                          /\ spent + 1 <= retries + 1 /\ spent + 1 <= MaxRetries
                          /\ \A c \in backoffs' : c.step \in Coming => c.of # b.new
      BY <1>1, <1>3, <1>4, <2>1 DEF CountsLag, RetriesKept, Due, Uncounted
    <3> QED
      BY <1>2, <1>3, <1>4, <1>8, <1>9, <3>1, SupervisionAssumption DEF Coming
  <2>7. CrashIsRetried'
    BY <1>1, <1>2, <2>1 DEF Shown, CrashIsRetried, CreatedCrashHeard, Queued
  <2>8. ExitedIsOver'
    BY <2>1 DEF ExitedIsOver
  <2> QED
    BY <1>6, <1>7, <2>2, <2>3, <2>4, <2>5, <2>6, <2>7, <2>8
<1>10. CASE ~Shown
  <2>1. UNCHANGED <<pane, spent>> /\ pane.status = "closed" /\ Overrun
    BY <1>2, <1>10 DEF SwapForRestart, Shown, CheckedIsShown
  <2>2. PaneTypeOK' /\ AllBorn' /\ ClosedForGood'
    BY <1>1, <1>4, <1>5, <2>1 DEF PaneTypeOK, AllBorn, ClosedForGood, Shown
  <2>3. CreatedUnknown' /\ OwedStaysDead' /\ CheckedIsShown'
    BY <1>1, <1>2, <1>3, <1>4, <2>1 DEF Shown, CreatedUnknown, OwedStaysDead, CheckedIsShown, Crossed, Overrun
  <2>4. OnlyLive' /\ NoSessionOrphaned' /\ CrashIsRetried' /\ ExitedIsOver'
    BY <1>1, <2>1 DEF Overrun, Shown, OnlyLive, NoSessionOrphaned, CrashIsRetried, ExitedIsOver
  <2>5. CountsLag' /\ RetriesKept'
    <3>1. SUFFICES ASSUME slips \cap {"crossed", "uncounted"} = {}
                   PROVE  /\ \A c, d \in backoffs' : c.step = "swapped" /\ d.step = "swapped" => c = d
                          /\ spent <= retries + 1 /\ spent <= MaxRetries
                          /\ \A c \in backoffs' : c.step \in Coming => c.of # pane.uid
      BY <1>1, <2>1 DEF CountsLag, RetriesKept, Due, Uncounted, Shown
    <3> QED
      BY <1>2, <1>3, <1>4, <1>8, <3>1, SupervisionAssumption DEF Coming, Due
  <2> QED
    BY <1>6, <1>7, <2>2, <2>3, <2>4, <2>5
<1> QED
  BY <1>9, <1>10

\* And here they meet again.
LEMMA CountRestartKeeps ==
  ASSUME PaneInv, NEW b \in backoffs, CountRestart(b)
  PROVE  PaneInv'
<1> USE DEF PaneInv
<1>1. /\ UNCHANGED <<pane, indexed, session, exits, supervised, demoting, hands, spent, slips>>
      /\ b.step = "swapped" /\ (retries' = retries + 1 \/ (~Shown /\ retries' = retries))
      /\ \A c : c \in backoffs' <=> c \in backoffs /\ c # b
  BY DEF CountRestart, Recorded
<1>2. PaneTypeOK' /\ ExitsOnce' /\ AllBorn' /\ ClosedForGood' /\ ExitedIsOver'
  BY <1>1 DEF PaneTypeOK, ExitsOnce, AllBorn, ClosedForGood, Shown, ExitedIsOver
<1>3. OneForEachCrash' /\ CreatedUnknown' /\ OwedStaysDead' /\ CheckedIsShown'
  BY <1>1 DEF Overrun, Shown, OneForEachCrash, CreatedUnknown, OwedStaysDead, CheckedIsShown, Crossed, Queued
<1>4. OnlyLive' /\ CreatedCrashHeard'
  BY <1>1 DEF Overrun, Shown, OnlyLive, CreatedCrashHeard, Crossed, Queued
<1>5. NoSessionOrphaned'
  BY <1>1, <1>4 DEF Overrun, Shown, OnlyLive, NoSessionOrphaned, Crossed
<1>6. CountsLag' /\ RetriesKept'
  BY <1>1 DEF Shown, CountsLag, RetriesKept, Due, Coming, Uncounted, PaneTypeOK
<1>7. CrashIsRetried'
  BY <1>1, SupervisionAssumption DEF Shown, CrashIsRetried, OwedStaysDead, Queued, PaneTypeOK
<1> QED
  BY <1>2, <1>3, <1>4, <1>5, <1>6, <1>7
\* A restart by hand, or the failure of one.
LEMMA RestartByHandKeeps ==
  ASSUME PaneInv, RestartByHand
  PROVE  PaneInv'
<1> USE DEF PaneInv
<1>1. /\ UNCHANGED <<indexed, exits, supervised, retries, backoffs, demoting, spent>>
      /\ hands' \in 0 .. MaxHands /\ Shown
  BY SupervisionAssumption DEF RestartByHand, OneMoreHand, PaneTypeOK
<1>2. /\ pane.uid \in Uids /\ session[pane.uid] # "unborn"
      /\ KilledOld \in [Uids -> {"unborn", "live", "clean", "crashed", "killed", "closed"}]
      /\ KilledOld[pane.uid] # "live" /\ KilledOld[pane.uid] # "unborn"
      /\ session[pane.uid] # "live" => KilledOld[pane.uid] = session[pane.uid]
      /\ KilledOld[pane.uid] = "crashed" => session[pane.uid] = "crashed"
      /\ \A v \in Uids : v # pane.uid => KilledOld[v] = session[v]
  BY DEF KilledOld, PaneTypeOK, AllBorn
<1>3. ASSUME NEW u \in Uids, Fresh(u), session' = [KilledOld EXCEPT ![u] = "live"],
             pane' = Respawned(u),
             Slip({m \in {"crossed"} : \E b \in backoffs : b.step \in {"checked", "created"}})
      PROVE  PaneInv'
  <2>1. /\ u # pane.uid /\ u # indexed /\ u # demoting /\ ~Queued(u) /\ u # NoUid
        /\ \A c \in backoffs : c.of # u /\ c.new # u
        /\ session[u] = "unborn"
    <3>1. session[u] = "unborn" /\ u # NoUid
      BY <1>3 DEF Fresh, NoUid, Uids
    <3>2. session[pane.uid] # "unborn" /\ (indexed # NoUid => session[indexed] # "unborn")
          /\ (demoting # NoUid => session[demoting] # "unborn")
      BY DEF AllBorn
    <3>3. ~Queued(u)
      BY <3>1 DEF ExitsOnce, Queued, PaneTypeOK, Ended
    <3>4. \A c \in backoffs : c.of # u /\ c.new # u
      BY <3>1 DEF OneForEachCrash
    <3> QED BY <3>1, <3>2, <3>3, <3>4
  <2>2. /\ session' \in [Uids -> {"unborn", "live", "clean", "crashed", "killed", "closed"}]
        /\ session'[u] = "live" /\ session'[pane.uid] \notin {"live", "unborn"}
        /\ session[pane.uid] # "live" => session'[pane.uid] = session[pane.uid]
        /\ session'[pane.uid] = "crashed" => session[pane.uid] = "crashed"
        /\ \A v \in Uids : v # u /\ v # pane.uid => session'[v] = session[v]
    BY <1>2, <1>3, <2>1
  <2>3. /\ pane' \in [uid : Uids, status : {"running", "exited", "closed"}]
        /\ pane'.uid = u /\ pane'.status = "running"
    BY <1>3 DEF Respawned
  <2>4. /\ slips \subseteq slips' /\ slips' \subseteq PaneSlips
        /\ "crossed" \notin slips' => \A b \in backoffs : b.step \notin {"checked", "created"}
        /\ \A m : m # "crossed" => (m \in slips' <=> m \in slips)
    BY <1>3 DEF Slip, PaneSlips, PaneTypeOK
  <2>5. PaneTypeOK' /\ ExitsOnce' /\ AllBorn' /\ ClosedForGood'
    BY SMTT(30), <1>1, <1>2, <2>1, <2>2, <2>3, <2>4 DEF PaneTypeOK, ExitsOnce, AllBorn, ClosedForGood, Shown, Queued, Ended
  <2>6. OneForEachCrash'
    BY <1>1, <1>2, <2>1, <2>2 DEF OneForEachCrash, Queued, PaneTypeOK
  <2>7. CreatedUnknown' /\ OwedStaysDead' /\ CheckedIsShown'
    BY <1>1, <2>1, <2>3, <2>4 DEF Overrun, Shown, CreatedUnknown, OwedStaysDead, CheckedIsShown, Crossed
  <2>8. OnlyLive' /\ NoSessionOrphaned'
    BY <1>1, <1>2, <2>1, <2>2, <2>3, <2>4 DEF Overrun, Shown, OnlyLive, NoSessionOrphaned, Crossed
  <2>9. CreatedCrashHeard'
    BY <1>1, <1>2, <2>1, <2>2, <2>4 DEF CreatedCrashHeard, CreatedUnknown, OneForEachCrash,
       Queued, PaneTypeOK
  <2>10. CountsLag' /\ RetriesKept'
    BY <1>1, <2>1, <2>3, <2>4 DEF Shown, CountsLag, RetriesKept, Due, Uncounted
  <2>11. CrashIsRetried' /\ ExitedIsOver'
    BY <2>2, <2>3 DEF Shown, CrashIsRetried, ExitedIsOver
  <2> QED
    BY <2>5, <2>6, <2>7, <2>8, <2>9, <2>10, <2>11
<1>4. ASSUME session' = KilledOld, Slip({"failed"}), UNCHANGED pane
      PROVE  PaneInv'
  <2>1. /\ slips' \subseteq PaneSlips /\ "failed" \in slips'
        /\ \A m : m # "failed" => (m \in slips' <=> m \in slips)
    BY <1>4 DEF Slip, PaneSlips, PaneTypeOK
  <2>2. PaneTypeOK' /\ ExitsOnce' /\ AllBorn' /\ ClosedForGood'
    BY <1>1, <1>2, <1>4, <2>1 DEF PaneTypeOK, ExitsOnce, AllBorn, ClosedForGood, Shown, Ended
  <2>3. OneForEachCrash'
    BY <1>1, <1>2, <1>4 DEF OneForEachCrash, Queued, PaneTypeOK
  <2>4. CreatedUnknown' /\ OwedStaysDead' /\ CheckedIsShown'
    BY <1>1, <1>4, <2>1 DEF Overrun, Shown, CreatedUnknown, OwedStaysDead, CheckedIsShown, Crossed
  <2>5. OnlyLive' /\ NoSessionOrphaned'
    BY <1>1, <1>2, <1>4, <2>1 DEF Overrun, Shown, OnlyLive, NoSessionOrphaned, Crossed
  <2>6. CreatedCrashHeard'
    BY <1>1, <1>2, <1>4, <2>1 DEF CreatedCrashHeard, CreatedUnknown, OneForEachCrash,
       Queued, PaneTypeOK
  <2>7. CountsLag' /\ RetriesKept'
    BY <1>1, <1>4, <2>1 DEF Shown, CountsLag, RetriesKept, Due, Uncounted
  <2>8. CrashIsRetried' /\ ExitedIsOver'
    BY <1>2, <1>4, <2>1 DEF Shown, CrashIsRetried, ExitedIsOver
  <2> QED
    BY <2>2, <2>3, <2>4, <2>5, <2>6, <2>7, <2>8
<1> QED
  BY <1>3, <1>4 DEF RestartByHand

\* Supervision is turned on or off.
LEMMA SetSuperviseKeeps ==
  ASSUME PaneInv, SetSupervise
  PROVE  PaneInv'
<1> USE DEF PaneInv
<1>1. /\ UNCHANGED <<pane, indexed, session, exits, retries, backoffs, demoting, spent, slips>>
      /\ supervised' \in BOOLEAN /\ hands' \in 0 .. MaxHands
  BY SupervisionAssumption DEF SetSupervise, OneMoreHand, PaneTypeOK
<1>2. /\ PaneTypeOK' /\ ExitsOnce' /\ AllBorn' /\ ClosedForGood' /\ OneForEachCrash' /\ CreatedUnknown'
      /\ OwedStaysDead' /\ CheckedIsShown' /\ OnlyLive' /\ CreatedCrashHeard'
  BY <1>1 DEF Overrun, PaneTypeOK, ExitsOnce, AllBorn, ClosedForGood, Shown, OneForEachCrash, CreatedUnknown, OwedStaysDead,
     CheckedIsShown, OnlyLive, CreatedCrashHeard, Queued, Crossed
<1>3. CountsLag' /\ RetriesKept' /\ CrashIsRetried' /\ NoSessionOrphaned' /\ ExitedIsOver'
  BY <1>1 DEF Overrun, Shown, CountsLag, RetriesKept, CrashIsRetried, NoSessionOrphaned, ExitedIsOver, Due,
     Uncounted, Queued
<1> QED
  BY <1>2, <1>3

\* The ticker remembers a session that is over.
LEMMA FindVanishedKeeps ==
  ASSUME PaneInv, FindVanished
  PROVE  PaneInv'
<1> USE DEF PaneInv
<1>1. /\ UNCHANGED <<pane, indexed, session, exits, supervised, retries, backoffs, hands, spent, slips>>
      /\ demoting' = pane.uid /\ session[pane.uid] # "live"
  BY DEF FindVanished, Vanished
<1>2. /\ PaneTypeOK' /\ ExitsOnce' /\ AllBorn' /\ ClosedForGood' /\ OneForEachCrash' /\ CreatedUnknown'
      /\ OwedStaysDead' /\ CheckedIsShown' /\ OnlyLive' /\ CreatedCrashHeard'
  BY <1>1 DEF Overrun, PaneTypeOK, ExitsOnce, AllBorn, ClosedForGood, Shown, OneForEachCrash, CreatedUnknown, OwedStaysDead,
     CheckedIsShown, OnlyLive, CreatedCrashHeard, Queued, Crossed
<1>3. CountsLag' /\ RetriesKept' /\ CrashIsRetried' /\ NoSessionOrphaned' /\ ExitedIsOver'
  BY <1>1 DEF Overrun, Shown, CountsLag, RetriesKept, CrashIsRetried, NoSessionOrphaned, ExitedIsOver, Due,
     Uncounted, Queued
<1> QED
  BY <1>2, <1>3

\* The ticker marks a pane.
LEMMA DemoteKeeps ==
  ASSUME PaneInv, Demote
  PROVE  PaneInv'
<1> USE DEF PaneInv
<1>1. /\ UNCHANGED <<indexed, session, exits, supervised, retries, backoffs, hands, spent>>
      /\ demoting' = NoUid /\ demoting # NoUid /\ demoting \in Uids
      /\ session[demoting] \notin {"live", "unborn"}
  BY DEF Demote, AllBorn, ClosedForGood, Shown, PaneTypeOK
<1>2. /\ pane' \in [uid : Uids, status : {"running", "exited", "closed"}] /\ pane'.uid = pane.uid
      /\ pane.status = "exited" => pane'.status = "exited"
      /\ pane'.status = "closed" <=> pane.status = "closed"
      /\ pane'.status = "exited" => pane.status = "exited" \/ indexed = demoting
  BY <1>1 DEF Demote, Marked, PaneTypeOK, ClosedForGood, Shown
<1>3. /\ slips \subseteq slips' /\ slips' \subseteq PaneSlips
      /\ pane.uid # demoting /\ indexed = demoting => "mistaken" \in slips'
      /\ \A m : m # "mistaken" => (m \in slips' <=> m \in slips)
  BY DEF Demote, Slip, PaneSlips, PaneTypeOK
<1>4. /\ PaneTypeOK' /\ ExitsOnce' /\ AllBorn' /\ ClosedForGood' /\ OneForEachCrash'
  BY <1>1, <1>2, <1>3 DEF PaneTypeOK, ExitsOnce, AllBorn, ClosedForGood, Shown, OneForEachCrash, Queued
<1>5. CreatedUnknown' /\ OwedStaysDead' /\ CheckedIsShown' /\ OnlyLive' /\ CreatedCrashHeard'
  <2>1. /\ Shown' <=> Shown
        /\ pane'.status = "running" => pane.status = "running"
    BY <1>2 DEF Shown, PaneTypeOK
  <2>2. (Overrun' <=> Overrun) /\ (Crossed' <=> Crossed)
    BY <1>3 DEF Overrun, Crossed
  <2>3. CreatedUnknown'
    BY <1>1, <1>2 DEF CreatedUnknown, OneForEachCrash
  <2>4. OwedStaysDead' /\ CheckedIsShown' /\ OnlyLive'
    BY <1>1, <1>2, <2>1, <2>2 DEF OwedStaysDead, CheckedIsShown, OnlyLive
  <2>5. CreatedCrashHeard'
    BY <1>1, <1>3 DEF CreatedCrashHeard, Queued
  <2> QED
    BY <2>3, <2>4, <2>5
<1>6. CountsLag' /\ RetriesKept' /\ CrashIsRetried' /\ NoSessionOrphaned'
  BY <1>1, <1>2, <1>3 DEF Overrun, Shown, CountsLag, RetriesKept, CrashIsRetried, NoSessionOrphaned, Due,
     Uncounted, Queued
<1>7. ExitedIsOver'
  BY <1>1, <1>2, <1>3 DEF ExitedIsOver
<1> QED
  BY <1>4, <1>5, <1>6, <1>7

\* The index is rebuilt.
LEMMA ReindexKeeps ==
  ASSUME PaneInv, Reindex
  PROVE  PaneInv'
<1> USE DEF PaneInv
<1>1. /\ UNCHANGED <<pane, session, exits, supervised, retries, backoffs, demoting, hands, spent, slips>>
      /\ indexed' = pane.uid /\ Shown
  BY DEF Reindex
<1>2. /\ PaneTypeOK' /\ ExitsOnce' /\ AllBorn' /\ ClosedForGood' /\ OneForEachCrash' /\ CreatedUnknown'
      /\ OwedStaysDead' /\ CheckedIsShown' /\ OnlyLive' /\ CreatedCrashHeard'
  BY <1>1 DEF Overrun, PaneTypeOK, ExitsOnce, AllBorn, ClosedForGood, Shown, OneForEachCrash, CreatedUnknown, OwedStaysDead,
     CheckedIsShown, OnlyLive, CreatedCrashHeard, Queued, Crossed
<1>3. CountsLag' /\ RetriesKept' /\ CrashIsRetried' /\ NoSessionOrphaned' /\ ExitedIsOver'
  BY <1>1 DEF Overrun, Shown, CountsLag, RetriesKept, CrashIsRetried, NoSessionOrphaned, ExitedIsOver, Due,
     Uncounted, Queued
<1> QED
  BY <1>2, <1>3

\* The pane is closed.
LEMMA ClosePaneKeeps ==
  ASSUME PaneInv, ClosePane
  PROVE  PaneInv'
<1> USE DEF PaneInv
<1>1. /\ UNCHANGED <<exits, supervised, retries, backoffs, demoting, spent>>
      /\ hands' \in 0 .. MaxHands /\ indexed' = NoUid
  BY SupervisionAssumption DEF ClosePane, OneMoreHand, PaneTypeOK
<1>2. /\ pane' \in [uid : Uids, status : {"running", "exited", "closed"}]
      /\ pane'.uid = pane.uid /\ pane'.status = "closed" /\ pane.uid \in Uids
  BY DEF ClosePane, PaneTypeOK
<1>3. /\ session' \in [Uids -> {"unborn", "live", "clean", "crashed", "killed", "closed"}]
      /\ session'[pane.uid] \notin {"live", "unborn"}
      /\ session[pane.uid] # "live" => session'[pane.uid] = session[pane.uid]
      /\ session'[pane.uid] = "crashed" => session[pane.uid] = "crashed"
      /\ \A v \in Uids : v # pane.uid => session'[v] = session[v]
  BY DEF ClosePane, PaneTypeOK, AllBorn
<1>4. /\ slips' \subseteq PaneSlips
      /\ "closed" \notin slips' => \A b \in backoffs : b.step \notin {"checked", "created"}
      /\ "closed" \in slips => "closed" \in slips'
      /\ \A m : m # "closed" => (m \in slips' <=> m \in slips)
  BY DEF ClosePane, Slip, PaneSlips, PaneTypeOK
<1>5. PaneTypeOK'
  <2>1. \A i \in 1 .. Len(exits) : session'[exits[i]] \in {"clean", "crashed"}
    BY <1>2, <1>3 DEF ExitsOnce, Ended
  <2> QED
    BY <1>1, <1>2, <1>3, <1>4, <2>1 DEF PaneTypeOK
<1>6. ExitsOnce' /\ AllBorn' /\ ClosedForGood'
  BY <1>1, <1>2, <1>3 DEF ExitsOnce, AllBorn, ClosedForGood, Shown, Ended, PaneTypeOK
<1>7. OneForEachCrash'
  BY <1>1, <1>2, <1>3 DEF OneForEachCrash, Queued, PaneTypeOK
<1>8. CreatedUnknown' /\ OwedStaysDead'
  BY <1>1, <1>2 DEF Shown, CreatedUnknown, OwedStaysDead, OneForEachCrash
<1>9. CheckedIsShown'
  BY <1>1, <1>2, <1>4 DEF CheckedIsShown, Crossed, Overrun
<1>10. OnlyLive'
  BY <1>1, <1>2, <1>3, <1>4 DEF OnlyLive, Overrun
<1>11. NoSessionOrphaned'
  BY <1>1, <1>10 DEF OnlyLive, NoSessionOrphaned, Overrun
<1>12. CreatedCrashHeard'
  BY <1>1, <1>2, <1>3, <1>4 DEF CreatedCrashHeard, CreatedUnknown, OneForEachCrash, Queued, PaneTypeOK
<1>13. CountsLag' /\ RetriesKept'
  BY <1>1, <1>2, <1>4 DEF CountsLag, RetriesKept, Due, Uncounted, Shown
<1>14. CrashIsRetried' /\ ExitedIsOver'
  BY <1>2 DEF CrashIsRetried, ExitedIsOver, Shown
<1> QED
  BY <1>5, <1>6, <1>7, <1>8, <1>9, <1>10, <1>11, <1>12, <1>13, <1>14
-----------------------------------------------------------------------------
\* Every reachable state of a supervised pane satisfies the invariant.
THEOREM PaneInvHolds == PaneSpec => []PaneInv
<1>1. PaneInit => PaneInv
  <2> SUFFICES ASSUME PaneInit PROVE PaneInv
    OBVIOUS
  <2>1. /\ 0 \in Uids /\ NoUid \notin Uids /\ exits = <<>> /\ backoffs = {}
        /\ \A i \in 1 .. Len(exits) : FALSE
    BY SupervisionAssumption DEF PaneInit, Uids, NoUid
  <2>2. PaneTypeOK
    BY <2>1, SupervisionAssumption DEF PaneInit, PaneTypeOK
  <2>3. ExitsOnce /\ AllBorn /\ ClosedForGood /\ OneForEachCrash /\ CreatedUnknown /\ OwedStaysDead
    BY <2>1 DEF PaneInit, ExitsOnce, AllBorn, ClosedForGood, Shown, OneForEachCrash, CreatedUnknown, OwedStaysDead
  <2>4. CheckedIsShown /\ OnlyLive /\ CreatedCrashHeard /\ NoSessionOrphaned
    BY <2>1 DEF PaneInit, CheckedIsShown, OnlyLive, CreatedCrashHeard, NoSessionOrphaned, Shown
  <2>5. CountsLag /\ RetriesKept /\ CrashIsRetried /\ ExitedIsOver
    BY <2>1, SupervisionAssumption DEF PaneInit, CountsLag, RetriesKept, CrashIsRetried, ExitedIsOver
  <2> QED
    BY <2>2, <2>3, <2>4, <2>5 DEF PaneInv
<1>2. PaneInv /\ [PaneNext]_paneVars => PaneInv'
  <2> SUFFICES ASSUME PaneInv, [PaneNext]_paneVars PROVE PaneInv'
    OBVIOUS
  <2>1. CASE UNCHANGED paneVars
    <3>1. UNCHANGED <<pane, indexed, session, exits, supervised, retries, backoffs, demoting,
                      hands, spent, slips>>
      BY <2>1 DEF paneVars
    <3>2. /\ PaneTypeOK' /\ ExitsOnce' /\ AllBorn' /\ ClosedForGood' /\ OneForEachCrash' /\ CreatedUnknown'
          /\ OwedStaysDead' /\ CheckedIsShown' /\ OnlyLive' /\ CreatedCrashHeard'
      BY <3>1 DEF PaneInv, PaneTypeOK, ExitsOnce, AllBorn, ClosedForGood, Shown, Overrun, OneForEachCrash, CreatedUnknown,
         OwedStaysDead, CheckedIsShown, OnlyLive, CreatedCrashHeard, Queued, Crossed
    <3>3. CountsLag' /\ RetriesKept' /\ CrashIsRetried' /\ NoSessionOrphaned' /\ ExitedIsOver'
      BY <3>1 DEF PaneInv, Shown, CountsLag, RetriesKept, CrashIsRetried, NoSessionOrphaned,
         ExitedIsOver, Due, Uncounted, Queued
    <3> QED
      BY <3>2, <3>3 DEF PaneInv
  <2>2. CASE PaneNext
    BY <2>2, HandleExitKeeps, SessionEndsKeeps, ShowHealthKeeps, CheckRestartKeeps,
       CreateForRestartKeeps, SwapForRestartKeeps, CountRestartKeeps, RestartByHandKeeps,
       SetSuperviseKeeps, FindVanishedKeeps, DemoteKeeps, ReindexKeeps,
       ClosePaneKeeps
       DEF PaneNext, ServerStep
  <2> QED
    BY <2>1, <2>2
<1> QED
  BY <1>1, <1>2, PTL DEF PaneSpec

\* The state of a supervised pane is of its types; beyond them, an exit that waits
\* is that of a session that ended.
THEOREM PaneTyped == PaneSpec => []PaneTypeOK
BY PaneInvHolds, PTL DEF PaneInv

\* A crash of a supervised pane is answered with a restart (process_session_event,
\* supervise_exit) until the retries are used up.
THEOREM CrashesRetried == PaneSpec => []CrashIsRetried
BY PaneInvHolds, PTL DEF PaneInv

\* A restart that was scheduled (do_restart) leaves no live session without a pane,
\* whatever was done by hand during the backoff; only a restart by hand or a close
\* of the pane between its last look at the pane and its swap can orphan one.
THEOREM NeverOrphaned == PaneSpec => []NoSessionOrphaned
BY PaneInvHolds, PTL DEF PaneInv

\* However exits, backoffs and commands interleave, a pane is restarted at most
\* MaxRetries times between two signs of health (record_restart, note_healthy).
THEOREM RetriesBounded == PaneSpec => []RetriesKept
BY PaneInvHolds, PTL DEF PaneInv

\* A pane shown as exited has no live session (mark_exited, reconcile_exits).
THEOREM ExitedNotLive == PaneSpec => []ExitedIsOver
BY PaneInvHolds, PTL DEF PaneInv

(***************************************************************************)
(* An agent's mail.                                                        *)
(***************************************************************************)

\* The inbox drops its oldest messages at its bound.
InboxBounded == oldest >= posted - MaxPerPane + 1

\* A message is entered in the ledger once, after it was posted.
EnteredOnce == ledger.pending + Cardinality(arming) <= posted

\* The ledger has one waiter at most, and knows of it.
OneWaiter ==
  /\ \A v, w \in waiters : v = w
  /\ waiters # {} => ledger.waiting

MailInv ==
  /\ MailTypeOK
  /\ InboxBounded /\ EnteredOnce /\ OneWaiter
  /\ NoMailPassedOver
-----------------------------------------------------------------------------
\* What max(oldest, last - MaxPerPane + 1) is.
LEMMA LargerOfTwo ==
  ASSUME NEW a \in Int, NEW b \in Int
  PROVE  Max({a, b}) = IF a >= b THEN a ELSE b
<1>1. \E x \in {a, b} : \A y \in {a, b} : x >= y
  OBVIOUS
<1>2. Max({a, b}) \in {a, b} /\ \A y \in {a, b} : Max({a, b}) >= y
  BY <1>1 DEF Max
<1> QED
  BY <1>2

\* The size of an inbox that drops its oldest.
LEMMA InboxSize ==
  ASSUME NEW first \in Int, NEW last \in Int, first >= last - MaxPerPane + 1
  PROVE  Cardinality(first .. last) <= MaxPerPane
<1>1. Cardinality(first .. last) = IF first > last THEN 0 ELSE last - first + 1
  BY FS_Interval
<1> QED
  BY <1>1, MailAssumption

\* A set of which any two members are equal.
LEMMA AtMostOne ==
  ASSUME NEW S, \A v, w \in S : v = w
  PROVE  Cardinality(S) <= 1
<1>1. CASE S = {}
  BY <1>1, FS_EmptySet
<1>2. CASE S # {}
  <2>1. PICK x \in S : TRUE
    BY <1>2
  <2>2. S = {x}
    BY <2>1
  <2> QED
    BY <2>2, FS_Singleton
<1> QED
  BY <1>1, <1>2

\* The messages on their way to the ledger are finitely many.
LEMMA ArmingFinite ==
  ASSUME MailTypeOK
  PROVE  IsFiniteSet(arming) /\ Cardinality(arming) \in Nat /\ posted \in Nat
<1>1. posted \in Nat /\ IsFiniteSet(1 .. posted)
  BY FS_Interval, MailAssumption DEF MailTypeOK
<1>2. IsFiniteSet(arming)
  BY <1>1, FS_Subset DEF MailTypeOK
<1> QED
  BY <1>1, <1>2, FS_CardinalityType

\* A post.
LEMMA PostKeeps ==
  ASSUME MailInv, Post
  PROVE  MailInv'
<1> USE MailAssumption DEF MailInv
<1>1. /\ posted \in Nat /\ oldest \in Nat \ {0} /\ posted < LastPost
      /\ posted' = posted + 1 /\ arming' = arming \cup {posted'}
      /\ UNCHANGED <<ledger, waiters, host, quiet, rested, told, mislaid>>
  BY DEF Post, MailTypeOK
<1>2. oldest' = IF oldest >= posted' - MaxPerPane + 1 THEN oldest ELSE posted' - MaxPerPane + 1
  <2>1. oldest' = Max({oldest, posted' - MaxPerPane + 1})
    BY DEF Post, HeldFrom
  <2>2. oldest \in Int /\ posted' - MaxPerPane + 1 \in Int
    BY <1>1
  <2> QED
    BY <2>1, <2>2, LargerOfTwo
<1>3. /\ posted' \in 0 .. LastPost /\ oldest' \in 1 .. LastPost + 1 /\ oldest' >= oldest
      /\ arming' \subseteq 1 .. posted' /\ told \subseteq 1 .. posted'
      /\ \A w \in waiters : w \in [by : 1 .. posted', run : 0 .. LastRun]
  BY <1>1, <1>2 DEF MailTypeOK
<1>4. InboxBounded'
  BY <1>1, <1>2 DEF InboxBounded
<1>5. Cardinality(Inbox)' <= MaxPerPane
  <2>1. (Inbox)' = oldest' .. posted'
    BY DEF Inbox
  <2>2. oldest' >= posted' - MaxPerPane + 1
    BY <1>4 DEF InboxBounded
  <2>3. oldest' \in Int /\ posted' \in Int
    BY <1>3
  <2> QED
    BY <2>1, <2>2, <2>3, InboxSize
<1>6. MailTypeOK'
  BY <1>1, <1>3, <1>5 DEF MailTypeOK
<1>7. EnteredOnce'
  <2>1. posted' \notin arming
    BY <1>1 DEF MailTypeOK
  <2>2. Cardinality(arming') = Cardinality(arming) + 1
    BY <1>1, <2>1, ArmingFinite, FS_AddElement
  <2> QED
    BY <1>1, <2>2, ArmingFinite DEF EnteredOnce, MailTypeOK
<1>8. OneWaiter'
  BY <1>1 DEF OneWaiter
<1>9. NoMailPassedOver'
  BY <1>1, <1>3 DEF NoMailPassedOver, Inbox, MailTypeOK
<1> QED
  BY <1>4, <1>6, <1>7, <1>8, <1>9

\* A message is entered in the ledger, or finds the pane gone.
LEMMA ArmKeeps ==
  ASSUME MailInv, NEW m \in arming, Arm(m)
  PROVE  MailInv'
<1> USE MailAssumption DEF MailInv
<1>1. /\ UNCHANGED <<posted, oldest, host, quiet, rested, told>>
      /\ arming' = arming \ {m} /\ m \in 1 .. posted /\ m \in 1 .. LastPost
      /\ Cardinality(arming') = Cardinality(arming) - 1
      /\ Cardinality(arming) \in Nat /\ Cardinality(arming) >= 1
  <2>1. arming' = arming \ {m} /\ m \in 1 .. posted /\ m \in 1 .. LastPost
    BY DEF Arm, MailTypeOK
  <2>2. Cardinality(arming') = Cardinality(arming) - 1
    BY <2>1, ArmingFinite, FS_RemoveElement
  <2>3. IsFiniteSet(arming')
    BY <2>1, ArmingFinite, FS_Subset
  <2>4. Cardinality(arming') \in Nat
    BY <2>3, FS_CardinalityType
  <2> QED
    BY <2>1, <2>2, <2>4, ArmingFinite DEF Arm
<1>2. ASSUME host.there, ~host.over, ledger' = Entered(m), waiters' = Spawned(m),
             Mislay({x \in {"overtaken"} : ledger.pending > 0 /\ m < ledger.first})
      PROVE  MailInv'
  <2>1. /\ ledger' \in [pending : 0 .. LastPost, first : 0 .. LastPost, waiting : BOOLEAN]
        /\ ledger'.pending = ledger.pending + 1 /\ ledger'.pending > 0
        /\ ledger'.first = IF ledger.pending = 0 THEN m ELSE ledger.first
        /\ ledger'.first # 0 /\ ledger'.waiting
    <3>1. ledger.pending + 1 <= posted /\ ledger.pending \in Nat /\ posted <= LastPost /\ posted \in Nat
      BY <1>1 DEF EnteredOnce, MailTypeOK
    <3>2. ledger'.pending = ledger.pending + 1 /\ ledger'.waiting
          /\ ledger'.first = IF ledger.pending = 0 THEN m ELSE ledger.first
      BY <1>2 DEF Entered, MailTypeOK
    <3>3. ledger' \in [pending : 0 .. LastPost, first : 0 .. LastPost, waiting : BOOLEAN]
      <4>1. ledger.pending + 1 \in 0 .. LastPost /\ m \in 0 .. LastPost
        BY <1>1, <3>1
      <4> QED
        BY <1>2, <4>1 DEF Entered, MailTypeOK
    <3>4. ledger'.first # 0
      BY <1>1, <3>1, <3>2 DEF MailTypeOK
    <3> QED
      BY <3>1, <3>2, <3>3, <3>4
  <2>2. /\ \A v, w \in waiters' : v = w
        /\ \A w \in waiters' : w \in [by : 1 .. posted, run : 0 .. LastRun]
    BY <1>1, <1>2 DEF Spawned, OneWaiter, MailTypeOK
  <2>3. /\ mislaid' \subseteq Mishandlings /\ mislaid \subseteq mislaid'
        /\ ledger.pending > 0 /\ m < ledger.first => "overtaken" \in mislaid'
    BY <1>2 DEF Mislay, Mishandlings, MailTypeOK
  <2>4. MailTypeOK'
    <3>1. (Inbox)' = Inbox
      BY <1>1 DEF Inbox
    <3>2. arming' \subseteq 1 .. posted
      BY <1>1 DEF MailTypeOK
    <3>3. Cardinality(waiters') <= 1
      BY <2>2, AtMostOne
    <3> QED
      BY <1>1, <2>1, <2>2, <2>3, <3>1, <3>2, <3>3 DEF MailTypeOK
  <2>5. InboxBounded' /\ EnteredOnce' /\ OneWaiter'
    BY <1>1, <2>1, <2>2 DEF InboxBounded, EnteredOnce, OneWaiter, MailTypeOK
  <2>6. NoMailPassedOver'
    BY SMTT(30), <1>1, <2>1, <2>3 DEF NoMailPassedOver, Inbox, MailTypeOK
  <2> QED
    BY <2>4, <2>5, <2>6
<1>3. ASSUME Mislay({"unentered"}), UNCHANGED <<ledger, waiters>>
      PROVE  MailInv'
  <2>1. "unentered" \in mislaid' /\ mislaid' \subseteq Mishandlings
    BY <1>3 DEF Mislay, Mishandlings, MailTypeOK
  <2>2. (Inbox)' = Inbox /\ arming' \subseteq 1 .. posted
    BY <1>1 DEF Inbox, MailTypeOK
  <2>3. MailTypeOK'
    BY <1>1, <1>3, <2>1, <2>2 DEF MailTypeOK
  <2>4. InboxBounded' /\ EnteredOnce' /\ OneWaiter'
    BY <1>1, <1>3 DEF InboxBounded, EnteredOnce, OneWaiter, MailTypeOK
  <2>5. NoMailPassedOver'
    BY <2>1 DEF NoMailPassedOver
  <2> QED
    BY <2>3, <2>4, <2>5
<1> QED
  BY <1>2, <1>3 DEF Arm

\* The waiter leaves, gives up or types its line: none is left.
LEMMA WaiterPollsKeeps ==
  ASSUME MailInv, NEW w \in waiters, WaiterPolls(w)
  PROVE  MailInv'
<1> USE MailAssumption DEF MailInv
<1>1. /\ UNCHANGED <<posted, oldest, arming, host, quiet>>
      /\ (Inbox)' = Inbox /\ waiters' = {}
  <2>1. waiters = {w}
    BY DEF OneWaiter
  <2> QED
    BY <2>1 DEF WaiterPolls, Inbox, LeaveClosed, GiveUpWaiting, TypeLine
<1>2. Cardinality(waiters') <= 1
  BY <1>1, FS_EmptySet
<1>3. ASSUME LeaveClosed(w) PROVE MailInv'
  <2>1. mislaid \subseteq mislaid' /\ mislaid' \subseteq Mishandlings
        /\ UNCHANGED <<ledger, rested, told>>
    BY <1>3 DEF LeaveClosed, Mislay, Mishandlings, MailTypeOK
  <2>2. MailTypeOK'
    BY <1>1, <1>2, <2>1 DEF MailTypeOK
  <2>3. InboxBounded' /\ EnteredOnce' /\ OneWaiter' /\ NoMailPassedOver'
    BY <1>1, <2>1 DEF InboxBounded, EnteredOnce, OneWaiter, NoMailPassedOver
  <2> QED
    BY <2>2, <2>3
<1>4. ASSUME GiveUpWaiting(w) PROVE MailInv'
  <2>1. /\ ledger' \in [pending : 0 .. LastPost, first : 0 .. LastPost, waiting : BOOLEAN]
        /\ ledger'.pending = ledger.pending /\ ledger'.first = ledger.first
        /\ UNCHANGED <<rested, told, mislaid>>
    BY <1>4 DEF GiveUpWaiting, KeptBatch, MailTypeOK
  <2>2. MailTypeOK'
    BY <1>1, <1>2, <2>1 DEF MailTypeOK
  <2>3. InboxBounded' /\ EnteredOnce' /\ OneWaiter' /\ NoMailPassedOver'
    BY <1>1, <2>1 DEF InboxBounded, EnteredOnce, OneWaiter, NoMailPassedOver
  <2> QED
    BY <2>2, <2>3
<1>5. ASSUME TypeLine(w) PROVE MailInv'
  <2>1. ledger'.pending = 0 /\ ledger'.first = 0 /\ rested' \in BOOLEAN
        /\ ledger' \in [pending : 0 .. LastPost, first : 0 .. LastPost, waiting : BOOLEAN]
    <3>1. 0 \in 0 .. LastPost
      OBVIOUS
    <3>2. ledger' = EmptyLedger /\ rested' = FALSE
      BY <1>5 DEF TypeLine
    <3> QED
      BY <3>1, <3>2 DEF EmptyLedger
  <2>2. /\ mislaid \subseteq mislaid' /\ mislaid' \subseteq Mishandlings
        /\ told \subseteq told' /\ told' \subseteq 1 .. posted
        /\ \/ "mistyped" \in mislaid'
           \/ \A m \in Inbox : m >= ledger.first => m \in told'
    <3>1. told \subseteq 1 .. posted /\ mislaid \subseteq Mishandlings
          /\ Inbox \subseteq 1 .. posted
      BY DEF MailTypeOK, Inbox
    <3>2. CASE /\ told' = told \cup {m \in Inbox : m >= ledger.first} /\ UNCHANGED mislaid
      BY <3>1, <3>2
    <3>3. CASE Mislay({"mistyped"}) /\ UNCHANGED told
      BY <3>1, <3>3 DEF Mislay, Mishandlings
    <3> QED
      BY <1>5, <3>2, <3>3 DEF TypeLine
  <2>3. MailTypeOK'
    BY <1>1, <1>2, <2>1, <2>2 DEF MailTypeOK
  <2>4. InboxBounded' /\ OneWaiter'
    BY <1>1 DEF InboxBounded, OneWaiter
  <2>5. EnteredOnce'
    BY <1>1, <2>1, ArmingFinite DEF EnteredOnce, MailTypeOK
  <2>6. NoMailPassedOver'
    BY <1>1, <2>1, <2>2 DEF NoMailPassedOver, MailTypeOK, Inbox
  <2> QED
    BY <2>3, <2>4, <2>5, <2>6
<1> QED
  BY <1>3, <1>4, <1>5 DEF WaiterPolls

\* The pane and the clock touch neither the inbox nor the ledger.
LEMMA AroundKeeps ==
  ASSUME MailInv, CloseOrReopen \/ EndProgram \/ RestartProgram \/ TurnBeginsOrEnds
                  \/ IntervalPasses \/ UNCHANGED mailVars
  PROVE  MailInv'
<1> USE MailAssumption DEF MailInv
<1>1. /\ UNCHANGED <<posted, oldest, arming, ledger, waiters, told, mislaid>>
      /\ host' \in [there : BOOLEAN, run : 0 .. LastRun, over : BOOLEAN]
      /\ quiet' \in BOOLEAN /\ rested' \in BOOLEAN
  <2>0. host \in [there : BOOLEAN, run : 0 .. LastRun, over : BOOLEAN]
        /\ quiet \in BOOLEAN /\ rested \in BOOLEAN
    BY DEF MailTypeOK
  <2>1. CASE CloseOrReopen
    BY <2>0, <2>1 DEF CloseOrReopen
  <2>2. CASE EndProgram
    BY <2>0, <2>2 DEF EndProgram
  <2>3. CASE RestartProgram
    <3>1. host.run + 1 \in 0 .. LastRun
      BY <2>0, <2>3 DEF RestartProgram
    <3> QED
      BY <2>0, <2>3, <3>1 DEF RestartProgram
  <2>4. CASE TurnBeginsOrEnds
    BY <2>0, <2>4 DEF TurnBeginsOrEnds
  <2>5. CASE IntervalPasses
    BY <2>0, <2>5 DEF IntervalPasses
  <2>6. CASE UNCHANGED mailVars
    BY <2>0, <2>6 DEF mailVars
  <2> QED
    BY <2>1, <2>2, <2>3, <2>4, <2>5, <2>6
<1>2. (Inbox)' = Inbox
  BY <1>1 DEF Inbox
<1>3. MailTypeOK'
  BY <1>1, <1>2 DEF MailTypeOK
<1>4. InboxBounded' /\ EnteredOnce' /\ OneWaiter' /\ NoMailPassedOver'
  BY <1>1, <1>2 DEF InboxBounded, EnteredOnce, OneWaiter, NoMailPassedOver
<1> QED
  BY <1>3, <1>4
-----------------------------------------------------------------------------
\* Every reachable state of an agent's mail satisfies the invariant.
THEOREM MailInvHolds == MailSpec => []MailInv
<1>1. MailInit => MailInv
  <2> SUFFICES ASSUME MailInit PROVE MailInv
    OBVIOUS
  <2>1. /\ posted = 0 /\ oldest = 1 /\ arming = {} /\ waiters = {} /\ Inbox = {}
        /\ ledger.pending = 0 /\ ledger.first = 0 /\ ~ledger.waiting
        /\ ledger \in [pending : 0 .. LastPost, first : 0 .. LastPost, waiting : BOOLEAN]
    BY MailAssumption DEF MailInit, EmptyLedger, Inbox
  <2>2. Cardinality(arming) = 0 /\ Cardinality(waiters) = 0 /\ Cardinality(Inbox) = 0
    BY <2>1, FS_EmptySet
  <2>3. MailTypeOK
    BY <2>1, <2>2, MailAssumption DEF MailInit, MailTypeOK
  <2>4. InboxBounded /\ EnteredOnce /\ OneWaiter /\ NoMailPassedOver
    BY <2>1, <2>2, MailAssumption DEF InboxBounded, EnteredOnce, OneWaiter, NoMailPassedOver
  <2> QED
    BY <2>3, <2>4 DEF MailInv
<1>2. MailInv /\ [MailNext]_mailVars => MailInv'
  BY PostKeeps, ArmKeeps, WaiterPollsKeeps, AroundKeeps DEF MailNext
<1> QED
  BY <1>1, <1>2, PTL DEF MailSpec

\* The state of an agent's mail is of its types: beyond them, the inbox keeps to
\* MAX_PER_PANE (MessageInbox::post) and one waiter at most waits for a batch
\* (NudgeLedger::arm).
THEOREM MailTyped == MailSpec => []MailTypeOK
BY MailInvHolds, PTL DEF MailInv

\* A message that the inbox holds and that was entered in the ledger lies behind
\* the cursor of a line typed, or in the batch the next line will name.
THEOREM NoMailLost == MailSpec => []NoMailPassedOver
BY MailInvHolds, PTL DEF MailInv

(***************************************************************************)
(* The control server, whichever kind of work it has.                      *)
(***************************************************************************)

\* The runners keep the invariant of the queue while there are runners; a poller only looks
\* at the queue, and a pane or mail leaves it alone.
ControlInv ==
  /\ IInv /\ WorkersTypeOK
  /\ serves = "runners" => RunnersInv /\ CountedOnce

LEMMA ControlInvInit == ControlInit => ControlInv
  BY RunnersInit DEF ControlInit, ControlInv, RunnersInv

LEMMA ControlKeeps ==
  ControlInv /\ [ControlNext /\ UNCHANGED serves]_controlVars => ControlInv'
<1> SUFFICES ASSUME ControlInv, [ControlNext /\ UNCHANGED serves]_controlVars
             PROVE  ControlInv'
  OBVIOUS
<1>1. UNCHANGED serves
  BY DEF controlVars
<1>2. ASSUME [WorkersNext]_allVars, serves = "runners" PROVE ControlInv'
  BY <1>1, <1>2, RunnersStep DEF ControlInv, RunnersInv
<1>3. ASSUME UNCHANGED workerVars, IInv', serves # "runners" PROVE ControlInv'
  BY <1>1, <1>3 DEF ControlInv, WorkersTypeOK, workerVars, ackVars, IInv
<1>4. ASSUME UNCHANGED allVars PROVE ControlInv'
  <2>1. CASE serves = "runners"
    BY <1>2, <1>4, <2>1
  <2>2. CASE serves # "runners"
    <3>1. UNCHANGED vars /\ UNCHANGED workerVars
      BY <1>4 DEF allVars
    <3> QED BY <1>3, <2>2, <3>1, StutterKeeps DEF ControlInv
  <2> QED BY <2>1, <2>2
<1>5. CASE serves = "runners" /\ RunnersNext
  BY <1>2, <1>5 DEF RunnersNext
<1>6. CASE serves = "poller" /\ PollerNext
  <2>1. [Next]_vars /\ UNCHANGED workerVars
    BY <1>6 DEF PollerNext, ObserverNext, Poll
  <2> QED BY <1>3, <1>6, <2>1, NextKeeps DEF ControlInv
<1>7. CASE serves = "pane" /\ PaneNext /\ UNCHANGED <<allVars, observerVars, mailVars>>
  BY <1>4, <1>7
<1>8. CASE serves = "mail" /\ MailNext /\ UNCHANGED <<allVars, observerVars, paneVars>>
  BY <1>4, <1>8
<1>9. CASE UNCHANGED controlVars
  BY <1>4, <1>9 DEF controlVars
<1> QED
  BY <1>5, <1>6, <1>7, <1>8, <1>9 DEF ControlNext

\* A server whose work is of one kind does with its pane and its mail what each does by
\* itself, or nothing.
LEMMA ControlParts == ControlSpec => PaneSpec /\ MailSpec
<1>1. ControlInit => PaneInit /\ MailInit
  BY DEF ControlInit
<1>2. [ControlNext /\ UNCHANGED serves]_controlVars => [PaneNext]_paneVars
  BY DEF controlVars, ControlNext, RunnersNext, PollerNext
<1>3. [ControlNext /\ UNCHANGED serves]_controlVars => [MailNext]_mailVars
  BY DEF controlVars, ControlNext, RunnersNext, PollerNext
<1> QED
  BY <1>1, <1>2, <1>3, PTL DEF ControlSpec, PaneSpec, MailSpec

\* The state of the control server is of its types, whichever kind of work it has: its
\* queue and the runners' claims, its pane, its mail.
THEOREM ControlTyped == ControlSpec => []ControlTypeOK
<1>1. ControlSpec => []ControlInv
  BY ControlInvInit, ControlKeeps, PTL DEF ControlSpec
<1>2. ControlInv /\ PaneTypeOK /\ MailTypeOK => ControlTypeOK
  BY DEF ControlInv, ControlTypeOK
<1> QED
  BY <1>1, <1>2, ControlParts, PaneTyped, MailTyped, PTL
=============================================================================
