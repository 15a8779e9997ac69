-------------------------- MODULE WorkQueueWorkers --------------------------
(***************************************************************************)
(* The worker runners (app/src/worker.rs) that drain a queue of WorkQueue  *)
(* over HTTP.  A runner is a process of its own, in a pane of the session  *)
(* daemon or anywhere else: it survives a restart of the process that owns *)
(* the queue.  A request may be carried out and its reply lost; the runner *)
(* never retries one, it exits, and somebody starts it again.              *)
(***************************************************************************)
EXTENDS WorkQueue

CONSTANTS
  Drained,     \* the queue the runners drain
  NoTask,      \* a runner without a task
  MaxBeats     \* bound: heartbeats of one run of a child

ASSUME BeatsAssumption == MaxBeats \in Nat /\ NoTask \notin Ids

VARIABLES
  worker,      \* where each runner is in its loop
  counted,     \* history: the acks a runner was told succeeded, <<worker, id, token>>
  unwritten    \* mishap: the acks among them whose UPDATE had failed

ackVars == <<counted, unwritten>>
workerVars == <<worker, ackVars>>
allVars == <<vars, workerVars>>

Runner(pc, id, token) ==
  [pc |-> pc, id |-> id, token |-> token, beating |-> pc = "running", beats |-> 0]

Gone == Runner("exited", NoTask, 0)
Idle == Runner("polling", NoTask, 0)

Become(w, runner) == worker' = [worker EXCEPT ![w] = runner]

-----------------------------------------------------------------------------
(* The loop of drain(). *)

Start(w) ==
  /\ worker[w].pc = "exited"
  /\ Become(w, Idle)
  /\ UNCHANGED <<vars, ackVars>>

\* claim_one: the reply may be lost after the claim was committed.
ClaimOne(w) ==
  /\ worker[w].pc = "polling"
  /\ \E id \in Ids : /\ Claim(id, Drained, w, 0)
                     /\ \/ Become(w, Runner("running", id, fence'))
                        \/ Become(w, Gone)
  /\ UNCHANGED ackVars

\* The retry window passed with nothing to claim.
GiveUp(w) ==
  /\ worker[w].pc = "polling"
  /\ up
  /\ Claimable(Drained) = {}
  /\ Become(w, Gone)
  /\ UNCHANGED <<vars, ackVars>>

\* A request finds no server.
ServerGone(w) ==
  /\ worker[w].pc \in {"polling", "acking", "nacking"}
  /\ ~up
  /\ Become(w, Gone)
  /\ UNCHANGED <<vars, ackVars>>

\* The heartbeat thread renews by a full lease and ends at the first error.
Heartbeat(w) ==
  /\ worker[w].pc = "running"
  /\ worker[w].beating
  /\ worker[w].beats < MaxBeats
  /\ \E delivered \in BOOLEAN :
       worker' = [worker EXCEPT ![w].beats = @ + 1, ![w].beating = delivered]
  /\ Extend(worker[w].id, worker[w].token, task[worker[w].id].job.timeout)
  /\ UNCHANGED ackVars

HeartbeatFails(w) ==
  /\ worker[w].pc = "running"
  /\ worker[w].beating
  /\ ~up \/ ~Holds(worker[w].id, worker[w].token)
  /\ worker' = [worker EXCEPT ![w].beating = FALSE]
  /\ UNCHANGED <<vars, ackVars>>

\* The child exits, or the worktree or the child could not be made; the
\* heartbeat thread has been joined before the outcome is reported.
ChildDone(w) ==
  /\ worker[w].pc = "running"
  /\ \E pc \in {"acking", "nacking"} :
       Become(w, Runner(pc, worker[w].id, worker[w].token))
  /\ UNCHANGED <<vars, ackVars>>

\* The runner is told Ok whether the row was written or not.
SendAck(w) ==
  LET ack == <<w, worker[w].id, worker[w].token>>
  IN  /\ worker[w].pc = "acking"
      /\ Ack(worker[w].id, worker[w].token)
      /\ \/ /\ Become(w, Idle)
            /\ counted' = counted \cup {ack}
            /\ unwritten' = IF task' = task THEN unwritten \cup {ack} ELSE unwritten
         \/ /\ Become(w, Gone)
            /\ UNCHANGED ackVars

SendNack(w) ==
  /\ worker[w].pc = "nacking"
  /\ NackRequeue(worker[w].id, worker[w].token)
  /\ Become(w, Idle) \/ Become(w, Gone)
  /\ UNCHANGED ackVars

\* 404 or 409 ends the runner.
Refused(w) ==
  /\ worker[w].pc \in {"acking", "nacking"}
  /\ up
  /\ ~Holds(worker[w].id, worker[w].token)
  /\ Become(w, Gone)
  /\ UNCHANGED <<vars, ackVars>>

\* The runner is killed with its pane.
Die(w) ==
  /\ worker[w].pc \in {"running", "acking", "nacking"}
  /\ Become(w, Gone)
  /\ UNCHANGED <<vars, ackVars>>

Settle(w) == SendAck(w) \/ SendNack(w) \/ Refused(w) \/ ServerGone(w)

-----------------------------------------------------------------------------

WorkersInit ==
  /\ Init
  /\ worker = [w \in Workers |-> Gone]
  /\ counted = {} /\ unwritten = {}

\* Everything that happens in the queue without a runner.
Server ==
  /\ \/ \E id \in Ids, job \in Jobs : Enqueue(id, job, {})
     \/ Reap \/ Crash \/ Open \/ Tick
     \/ \E queue \in Queues : Purge(queue, now)
  /\ UNCHANGED workerVars

WorkersNext ==
  \/ Server
  \/ \E w \in Workers :
       \/ Start(w) \/ ClaimOne(w) \/ GiveUp(w)
       \/ Heartbeat(w) \/ HeartbeatFails(w) \/ ChildDone(w)
       \/ Settle(w) \/ Die(w)

WorkersSpec == WorkersInit /\ [][WorkersNext]_allVars

-----------------------------------------------------------------------------
WorkersTypeOK ==
  /\ TypeOK
  /\ worker \in [Workers ->
       [pc : {"exited", "polling", "running", "acking", "nacking"},
        id : Ids \cup {NoTask}, token : Nat, beating : BOOLEAN, beats : 0 .. MaxBeats]]
  /\ counted \subseteq Workers \X Ids \X Nat
  /\ unwritten \subseteq counted

\* A runner that is told its ack succeeded can rely on it, if the row was written:
\* the task is done under the token the runner holds, every other ack told to succeed
\* of the same task had not been written, and no requeue, reap or recovery takes it
\* back.  The discarded error is the only way to be told of a success that is none.
CountedOnce ==
  \A c \in counted \ unwritten :
    LET row == task[c[2]]
    IN  /\ row.state = "purged" \/ (row.state = "done" /\ row.fence = c[3])
        /\ \A d \in counted \ unwritten : d[2] = c[2] => d = c

\* Once the server stays up, every task is finished or dead-lettered, though
\* runners die, replies are lost, writes fail and leases run out: none stays
\* claimed by a runner that is gone, none stays queued.
EventuallySettled ==
  <>[]up => \A id \in Ids : task[id].state \in Live ~> task[id].state \notin Live
=============================================================================
