--------------------------- MODULE MCControlServer ---------------------------
(***************************************************************************)
(* The control server with one kind of work at a time, chosen at the       *)
(* start: two runners that drain the work queue, which have one task that  *)
(* may be tried twice; a client that polls one of two queues while the     *)
(* process that owns them stays up; a supervised pane; an agent's mail.    *)
(***************************************************************************)
EXTENDS WorkQueueWorkers, WorkQueueObserver, PaneSupervision, PaneMail

CONSTANTS t1, t2, t3, w1, w2

VARIABLE serves

controlVars == <<serves, allVars, observerVars, paneVars, mailVars>>

MCJobs ==
  {[queue |-> q, key |-> NoKey, priority |-> 0, maxAttempts |-> n,
    timeout |-> 1, delay |-> 0] : q \in Queues, n \in 1 .. 2}

ControlInit ==
  /\ WorkersInit /\ cursor = 0 /\ listed = {}
  /\ PaneInit /\ MailInit
  /\ serves \in {"runners", "poller", "pane", "mail"}

RunnersTask(id) ==
  task'[id].job # NoJob => /\ id = t1
                           /\ task'[id].job.queue = Drained
                           /\ task'[id].job.maxAttempts = 2

RunnersNext ==
  /\ WorkersNext
  /\ \A id \in Ids : RunnersTask(id)
  /\ UNCHANGED <<observerVars, paneVars, mailVars>>

PollerTask(id) ==
  task'[id].job # NoJob => /\ task'[id].job.maxAttempts = 1
                           /\ task'[id].claimedBy # w2

\* The ids are alike: they are given out in order.
InOrder ==
  /\ task'[t2].state # "absent" => task[t1].state # "absent"
  /\ task'[t3].state # "absent" => task[t2].state # "absent"

PollerNext ==
  /\ ObserverNext
  /\ up' /\ now' <= 1 /\ InOrder /\ \A id \in Ids : PollerTask(id)
  /\ UNCHANGED <<workerVars, paneVars, mailVars>>

ControlNext ==
  \/ serves = "runners" /\ RunnersNext
  \/ serves = "poller" /\ PollerNext
  \/ serves = "pane" /\ PaneNext /\ UNCHANGED <<allVars, observerVars, mailVars>>
  \/ serves = "mail" /\ MailNext /\ UNCHANGED <<allVars, observerVars, paneVars>>

\* The runners' share: the reaper ticks and does not fail to write for ever, time
\* passes, the server is started again; every runner that is gone is started again,
\* and none stops between two steps.
RunnersServed(step) == serves \in {"runners", "poller"} /\ step

RunnersFairness ==
  /\ WF_allVars(RunnersServed(ReapRows(Expired) /\ UNCHANGED workerVars))
  /\ WF_allVars(RunnersServed(Tick /\ UNCHANGED workerVars))
  /\ WF_allVars(RunnersServed(Open /\ UNCHANGED workerVars))
  /\ \A w \in Workers : /\ WF_allVars(RunnersServed(Start(w)))
                        /\ WF_allVars(RunnersServed(ClaimOne(w)))
                        /\ WF_allVars(RunnersServed(ChildDone(w)))
                        /\ WF_allVars(RunnersServed(Settle(w)))

\* The tasks a poller looks at are drained by nobody: no such behaviour is fair, and
\* nothing is asked of where one ends.
ControlSpec ==
  /\ ControlInit
  /\ [][ControlNext /\ UNCHANGED serves]_controlVars
  /\ RunnersFairness /\ PaneFairness /\ MailFairness
-----------------------------------------------------------------------------
\* The state of each kind of work is of its types.  Beyond them: a runner's claim
\* is of a task there is, an exit that waits is that of a session that ended, an
\* inbox keeps to its bound and one waiter at most waits for its batch.
ControlTypeOK == WorkersTypeOK /\ PaneTypeOK /\ MailTypeOK
=============================================================================
