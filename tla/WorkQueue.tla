------------------------------ MODULE WorkQueue ------------------------------
(***************************************************************************)
(* The durable work queue of the control plane (core/src/control/work.rs): *)
(* tasks are enqueued, claimed under a lease with a fencing token, acked,  *)
(* nacked, extended, reaped when their lease runs out, and purged when     *)
(* they are finished.  The rows live in SQLite and survive a crash; the    *)
(* counters that number tasks and claims live in the process and are read  *)
(* back from the rows when the queue is opened again.                      *)
(*                                                                         *)
(* One process owns the queue behind a mutex, so each operation is one     *)
(* step.  The exception is the sweep (reaper, boot recovery), which        *)
(* updates its rows one by one: a crash can cut it short.                  *)
(*                                                                         *)
(* The result of an UPDATE is discarded: when the database refuses one,    *)
(* the row stays as it was and the caller is told Ok all the same.         *)
(***************************************************************************)
EXTENDS Integers, FiniteSets

CONSTANTS
  Ids,          \* task ids: a uuid is never handed out twice
  Queues,       \* queue names
  Workers,      \* worker names, as recorded in claimed_by
  NoWorker,     \* a row no worker holds
  Keys,         \* dedupe keys
  NoKey,        \* a job without a dedupe key
  NoJob,        \* the job of an id that has no row
  Jobs,         \* enqueue options: [queue, key, priority, maxAttempts, timeout, delay]
  Leases,       \* leaseMs of a claim; 0 means the task's own timeout
  Delays,       \* delayMs of a nack: overrides the computed backoff
  Extras,       \* extraMs of a heartbeat
  BackoffBase, BackoffCap,
  MaxDeps,      \* bound: how many earlier tasks a new task names
  MaxLead,      \* bound: how far ahead of the clock a lease is extended
  MaxNow        \* bound: the last instant of the clock

Job == [queue : Queues, key : Keys \cup {NoKey}, priority : Int,
        maxAttempts : Nat \ {0}, timeout : Nat \ {0}, delay : Nat]

ASSUME JobsAssumption ==
  /\ Jobs \subseteq Job
  /\ NoKey \notin Keys

ASSUME TimesAssumption ==
  /\ Leases \subseteq Nat
  /\ Delays \subseteq Nat
  /\ Extras \subseteq Nat \ {0}
  /\ BackoffBase \in Nat
  /\ BackoffCap \in Nat
  /\ {MaxDeps, MaxLead, MaxNow} \subseteq Nat

MaxShift == 20

\* The provers' backends know nothing of powers: the only ones the backoff uses.
ASSUME PowersAssumption == \A shift \in 0 .. MaxShift : 2 ^ shift \in Nat

VARIABLES
  task,         \* the tasks table, indexed by id
  seq,          \* WorkQueue.seq, 0 while no process has the queue open
  fence,        \* WorkQueue.fence, likewise
  up,           \* a process has the queue open
  now,          \* the wall clock, milliseconds scaled down
  completed     \* history: the ids that ever reached done

vars == <<task, seq, fence, up, now, completed>>

-----------------------------------------------------------------------------
(* Rows. *)

Live     == {"queued", "claimed"}
Terminal == {"done", "failed", "dead"}

\* An id that was never enqueued is absent; one whose row was deleted is purged.
NoRow(state) ==
  [state |-> state, job |-> NoJob, deps |-> {}, seq |-> 0, attempts |-> 0,
   availableAt |-> 0, claimedBy |-> NoWorker, fence |-> 0, deadline |-> 0,
   updatedAt |-> 0]

Stored   == {id \in Ids : task[id].state \in Live \cup Terminal}
Issued   == {id \in Ids : task[id].state # "absent"}
InFlight == {id \in Ids : task[id].state = "claimed"}

\* Slip: a claimed task no longer holds its key.
LiveByDedupeQueuedOnly(queue, key) ==
  {id \in Ids : /\ task[id].state = "queued"
                /\ task[id].job.queue = queue
                /\ task[id].job.key = key}

\* The row with this key that an enqueue would collapse into.
LiveByDedupe(queue, key) ==
  {id \in Ids : /\ task[id].state \in Live
                /\ task[id].job.queue = queue
                /\ task[id].job.key = key}

\* Slip: a dependency that failed or was purged no longer blocks.
DepsOver(id) ==
  \A dep \in task[id].deps : task[dep].state \notin Live

DepsDone(id) ==
  \A dep \in task[id].deps : task[dep].state = "done"

Claimable(queue) ==
  {id \in Ids : /\ task[id].state = "queued"
                /\ task[id].job.queue = queue
                /\ task[id].availableAt <= now
                /\ DepsDone(id)}

\* ORDER BY priority DESC, available_at ASC, seq ASC.
Precedes(a, b) ==
  \/ task[a].job.priority > task[b].job.priority
  \/ /\ task[a].job.priority = task[b].job.priority
     /\ \/ task[a].availableAt < task[b].availableAt
        \/ /\ task[a].availableAt = task[b].availableAt
           /\ task[a].seq < task[b].seq

\* Slip: any worker may settle a claimed task, the late one too.
HoldsAnyToken(id, token) == task[id].state = "claimed"

Holds(id, token) == task[id].state = "claimed" /\ task[id].fence = token

\* Slip: one try too many.
DeadLettersLate(row) == row.attempts > row.job.maxAttempts

DeadLetters(row) == row.attempts >= row.job.maxAttempts

\* attempts counts the claim that failed, so the first retry waits the base.
Backoff(attempts) ==
  LET shift == IF attempts > MaxShift THEN MaxShift ELSE attempts - 1
      wait  == BackoffBase * 2 ^ shift
  IN  IF wait < BackoffCap THEN wait ELSE BackoffCap

Leased(row, w, token, lease) ==
  [row EXCEPT !.state = "claimed", !.claimedBy = w, !.fence = token,
              !.attempts = row.attempts + 1, !.deadline = now + lease,
              !.updatedAt = now]

Extended(row, extra) ==
  [row EXCEPT !.deadline = row.deadline + extra, !.updatedAt = now]

Finished(row, state) ==
  [row EXCEPT !.state = state, !.deadline = 0, !.updatedAt = now]

\* Slip: the requeue clears the token along with the claim.
ReleasedUnfenced(row, at) ==
  [row EXCEPT !.state = "queued", !.claimedBy = NoWorker, !.deadline = 0,
              !.fence = 0, !.availableAt = at, !.updatedAt = now]

Released(row, at) ==
  [row EXCEPT !.state = "queued", !.claimedBy = NoWorker, !.deadline = 0,
              !.availableAt = at, !.updatedAt = now]

Recovered(row) ==
  IF DeadLetters(row) THEN Finished(row, "dead") ELSE Released(row, now)

Recover(ids) ==
  [id \in Ids |-> IF id \in ids THEN Recovered(task[id]) ELSE task[id]]

-----------------------------------------------------------------------------
(* Operations. *)

Init ==
  /\ task = [id \in Ids |-> NoRow("absent")]
  /\ seq = 0 /\ fence = 0
  /\ up = TRUE
  /\ now = 0
  /\ completed = {}

\* A duplicate of a live key returns the existing task and changes nothing.
Enqueue(id, job, deps) ==
  /\ up
  /\ task[id].state = "absent"
  /\ job.key # NoKey => LiveByDedupe(job.queue, job.key) = {}
  /\ seq' = seq + 1
  /\ task' = [task EXCEPT ![id] =
       [state |-> "queued", job |-> job, deps |-> deps, seq |-> seq + 1, attempts |-> 0,
        availableAt |-> now + job.delay, claimedBy |-> NoWorker, fence |-> 0,
        deadline |-> 0, updatedAt |-> now]]
  /\ UNCHANGED <<fence, up, now, completed>>

Claim(id, queue, w, lease) ==
  /\ up
  /\ id \in Claimable(queue)
  /\ \A other \in Claimable(queue) \ {id} : Precedes(id, other)
  /\ fence' = fence + 1
  /\ task' = [task EXCEPT ![id] =
       Leased(@, w, fence + 1, IF lease > 0 THEN lease ELSE @.job.timeout)]
  /\ UNCHANGED <<seq, up, now, completed>>

\* The UPDATE failed, and its error is discarded.
NotWritten == UNCHANGED <<task, completed>>

\* Acking a done task with its own token succeeds and changes nothing.
Ack(id, token) ==
  /\ up
  /\ Holds(id, token)
  /\ \/ /\ task' = [task EXCEPT ![id] = Finished(@, "done")]
        /\ completed' = completed \cup {id}
     \/ NotWritten
  /\ UNCHANGED <<seq, fence, up, now>>

NackGiveUp(id, token) ==
  /\ up
  /\ Holds(id, token)
  /\ task' = [task EXCEPT ![id] = Finished(@, "failed")] \/ NotWritten
  /\ UNCHANGED <<seq, fence, up, now, completed>>

\* The retry waits the computed backoff or the override the request carries.
NackRequeue(id, token) ==
  /\ up
  /\ Holds(id, token)
  /\ \/ \E wait \in {Backoff(task[id].attempts)} \cup Delays :
          task' = [task EXCEPT ![id] =
            IF DeadLetters(@) THEN Finished(@, "dead") ELSE Released(@, now + wait)]
     \/ NotWritten
  /\ UNCHANGED <<seq, fence, up, now, completed>>

Extend(id, token, extra) ==
  /\ up
  /\ Holds(id, token)
  /\ task' = [task EXCEPT ![id] = Extended(@, extra)] \/ NotWritten
  /\ UNCHANGED <<seq, fence, up, now, completed>>

\* Slip: the sweep passes over the claims that have no retry left.
ExpiredWithRetries ==
  {id \in InFlight : task[id].deadline <= now /\ ~DeadLetters(task[id])}

Expired == {id \in InFlight : task[id].deadline <= now}

\* The reaper tick; the rows whose UPDATE fails wait for the next one.
ReapRows(swept) ==
  /\ up
  /\ Expired # {}
  /\ task' = Recover(swept)
  /\ UNCHANGED <<seq, fence, up, now, completed>>

Reap == \E swept \in SUBSET Expired : ReapRows(swept)

\* cutoff is olderThan; the default, now, drops every finished task.
Purge(queue, cutoff) ==
  LET old == {id \in Ids : /\ task[id].state \in Terminal
                           /\ task[id].job.queue = queue
                           /\ task[id].updatedAt <= cutoff}
  IN  /\ up
      /\ old # {}
      /\ task' = [id \in Ids |-> IF id \in old THEN NoRow("purged") ELSE task[id]]
      /\ UNCHANGED <<seq, fence, up, now, completed>>

\* The process dies, perhaps part-way through a reaper sweep.
Crash ==
  /\ up
  /\ \E swept \in SUBSET Expired : task' = Recover(swept)
  /\ up' = FALSE
  /\ seq' = 0 /\ fence' = 0
  /\ UNCHANGED <<now, completed>>

\* Slip: the counters start from nothing again.
MaxOfNothing(values) == {0}

\* COALESCE(MAX(column), 0) over the rows that are left.
MaxOf(values) == {m \in values \cup {0} : \A v \in values : v <= m}

\* open(), then recover_in_flight(): the claims of the last process are undone, but
\* for the rows whose UPDATE fails.
Open ==
  /\ ~up
  /\ seq'   \in MaxOf({task[id].seq : id \in Stored})
  /\ fence' \in MaxOf({task[id].fence : id \in Stored})
  /\ \E swept \in SUBSET InFlight : task' = Recover(swept)
  /\ up' = TRUE
  /\ UNCHANGED <<now, completed>>

\* The new process dies during the recovery.
OpenCutShort ==
  /\ ~up
  /\ \E swept \in SUBSET InFlight \ {{}, InFlight} : task' = Recover(swept)
  /\ UNCHANGED <<seq, fence, up, now, completed>>

\* Time moves only while a row waits for it, so that MaxNow goes a long way.
Tick ==
  /\ now < MaxNow
  /\ \E id \in Ids :
       \/ task[id].state = "queued"  /\ task[id].availableAt > now
       \/ task[id].state = "claimed" /\ task[id].deadline > now
       \/ task[id].state \in Terminal /\ task[id].updatedAt = now
  /\ now' = now + 1
  /\ UNCHANGED <<task, seq, fence, up, completed>>

Next ==
  \/ \E id \in Ids, job \in Jobs, deps \in SUBSET Issued :
       Cardinality(deps) <= MaxDeps /\ Enqueue(id, job, deps)
  \/ \E id \in Ids, queue \in Queues, w \in Workers, lease \in Leases :
       Claim(id, queue, w, lease)
  \/ \E id \in Ids, token \in 1 .. fence : Ack(id, token)
  \/ \E id \in Ids, token \in 1 .. fence : NackGiveUp(id, token)
  \/ \E id \in Ids, token \in 1 .. fence : NackRequeue(id, token)
  \/ \E id \in Ids, token \in 1 .. fence, extra \in Extras :
       task[id].deadline + extra <= now + MaxLead /\ Extend(id, token, extra)
  \/ Reap
  \/ \E queue \in Queues, cutoff \in 0 .. now : Purge(queue, cutoff)
  \/ Crash
  \/ Open
  \/ OpenCutShort
  \/ Tick

Spec == Init /\ [][Next]_vars

-----------------------------------------------------------------------------
(* Properties. *)

\* The columns of a row hold what the schema says, and the counters are numbers.
Row ==
  [state : {"absent", "purged"} \cup Live \cup Terminal, job : Jobs \cup {NoJob},
   deps : SUBSET Ids, seq : Nat, attempts : Nat, availableAt : Nat,
   claimedBy : Workers \cup {NoWorker}, fence : Nat, deadline : Nat,
   updatedAt : Nat]

TypeOK ==
  /\ task \in [Ids -> Row]
  /\ \A id \in Stored : task[id].job \in Jobs
  /\ seq \in Nat /\ fence \in Nat /\ now \in Nat
  /\ up \in BOOLEAN
  /\ completed \in SUBSET Ids

\* No two rows share a list cursor position or a fencing token, whatever was
\* purged and however often the counters were read back from what was left:
\* a late worker's token never matches somebody else's claim.
NumbersUnique ==
  \A a, b \in Stored :
    a # b => /\ task[a].seq # task[b].seq
             /\ task[a].fence # 0 => task[a].fence # task[b].fence

\* A dedupe key names at most one live task of a queue: claims, requeues and
\* recoveries never bring a second one to life.
DedupeHolds ==
  \A a, b \in Ids :
    /\ a # b
    /\ task[a].state \in Live /\ task[b].state \in Live
    /\ task[a].job.key # NoKey
    /\ task[a].job.queue = task[b].job.queue
    => task[a].job.key # task[b].job.key

\* A task runs at most maxAttempts times, is dead-lettered by the last of them
\* and never before, whichever of nack, reaper and boot recovery fails it.
RetryBudget ==
  \A id \in Stored :
    LET row == task[id]
    IN  /\ row.attempts <= row.job.maxAttempts
        /\ row.state = "queued" => row.attempts < row.job.maxAttempts
        /\ row.state = "dead"   => row.attempts = row.job.maxAttempts
        /\ row.state \in {"claimed", "done", "failed"} => row.attempts > 0

\* No worker was ever given a task before each task it depends on was done; a
\* dependency that failed, or was purged, does not count.
DepsHonoured ==
  \A id \in Stored : task[id].attempts > 0 => task[id].deps \subseteq completed

-----------------------------------------------------------------------------
(* What a claimer may rely on. *)

Phase ==
  [id \in Ids |-> CASE task[id].state \in {"absent", "queued"} -> "free"
                    [] task[id].state = "claimed" -> "held"
                    [] OTHER -> "closed"]

Epoch == [id \in Ids |-> task[id].fence]

Lease == INSTANCE FencedLease WITH phase <- Phase, epoch <- Epoch

\* The queue implements fenced leases: across crashes, recoveries and purges a
\* task is granted with a token newer than any it carried and shared with no
\* other task, only a held task is closed, and a closed one stays closed.
LeaseSpec == Lease!Spec
=============================================================================
