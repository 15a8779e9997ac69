-------------------------- MODULE WorkQueueObserver --------------------------
(***************************************************************************)
(* A client that follows a queue by polling GET /queues/{queue}/tasks with *)
(* the latestSeq of the last answer as its cursor (core/src/control/       *)
(* routes.rs, tasks_list), beside the work queue it reads.                 *)
(***************************************************************************)
EXTENDS WorkQueue

CONSTANT Watched   \* the queue the client follows

VARIABLES
  cursor,      \* the latestSeq of the last answer
  listed       \* every id an answer contained

observerVars == <<cursor, listed>>

After(queue, from) ==
  {id \in Stored : task[id].job.queue = queue /\ task[id].seq > from}

\* Slip: the page is cut without an order.
PageUnordered(queue, from) == SUBSET After(queue, from)

\* One page: the rows after the cursor in seq order, cut at the limit.
Page(queue, from) ==
  {ids \in SUBSET After(queue, from) :
     \A a \in ids, b \in After(queue, from) \ ids : task[a].seq < task[b].seq}

Poll ==
  /\ up
  /\ \E page \in Page(Watched, cursor) \ {{}} :
       /\ listed' = listed \cup page
       /\ cursor' \in MaxOf({task[id].seq : id \in page})
  /\ UNCHANGED vars

ObserverInit == Init /\ cursor = 0 /\ listed = {}

ObserverNext ==
  \/ Poll
  \/ Next /\ UNCHANGED observerVars

ObserverSpec == ObserverInit /\ [][ObserverNext]_<<vars, observerVars>>


-----------------------------------------------------------------------------
\* The cursor never passes a task the client was not shown: "seq is a global
\* monotonic id that doubles as the list cursor" (docs/worker-pool.md).
CursorComplete ==
  \A id \in Stored :
    task[id].job.queue = Watched /\ task[id].seq <= cursor => id \in listed
=============================================================================
