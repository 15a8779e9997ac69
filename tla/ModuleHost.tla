----------------------------- MODULE ModuleHost -----------------------------
(***************************************************************************)
(* The host of one module (core/src/module/host.rs, supervisor.rs) and the *)
(* worker of the application that drives it (app/src/module_runtime.rs).   *)
(* The module is a child process.  A thread per child waits for its exit   *)
(* and starts it again after a backoff; the worker, one job at a time,     *)
(* starts, stops and replaces it as the user and the control server's      *)
(* address ask.  What both know of the module is in a slot, which each     *)
(* looks at and changes under a lock it holds for one step only.           *)
(***************************************************************************)
EXTENDS Integers, Sequences, FiniteSets

CONSTANTS
  MaxRestarts,   \* RestartPolicy: restarts within the window
  LastSlot,      \* bound: the last slot that is made for the module
  LastChild,     \* bound: the last process of the module
  MaxAsks        \* bound: changes of mind, moves of the server, licences lost

ASSUME HostAssumption == {MaxRestarts, LastSlot, LastChild, MaxAsks} \subseteq Nat

VARIABLES
  slot,          \* Slot: SlotState, and the crashes the supervisor counts
  known,         \* the slot in the host's map, or None
  child,         \* what has become of each process of the module
  thread,        \* the worker, and the thread that waits for each process
  posted,        \* jobs the worker has not taken yet
  enabled,       \* what the store says of the module
  dirty,         \* modules_dirty: the store has changed since the last look
  outdated,      \* processes that were told an older address of the server
  calls,         \* processes that have a module.activate to act on
  mail,          \* processes whose host.rail.register is on its way
  panel,         \* the process whose entries the left panel shows, or None
  asks,          \* bound: asks so far
  strays         \* history: what has gone wrong for the module

railVars == <<calls, mail, panel>>
hostVars == <<slot, known, child, thread, posted, enabled, dirty, outdated,
              railVars, asks, strays>>

Slots == 1 .. LastSlot
Children == 1 .. LastChild
None == 0
Worker == 0        \* every other thread has the number of the process it waits for

\* unheeded  a stop came while a waiting thread was starting the module again
\* replaced  the module was started anew before the last of its slot was over
\* hasty     the wish of the user was held against a status that was to change
\* hurried   a stop was over before the waiting thread had seen the exit
\* stuck     a crash was written over the status of a later stop or start, or a stop
\*           left it there
\* wiped     the panel dropped the entries of a later process
\* unshown   a process was started by a waiting thread, which activates nothing
\* unheard   the server moved while a process was at its handshake
\* barren    a process that was activated registered nothing, or was refused
\* belated   the panel got the entries of a process that it had been told is gone, or
\*           that a later one had replaced
Strays == {"unheeded", "replaced", "hasty", "hurried", "stuck", "wiped", "unshown", "unheard",
           "barren", "belated"}

Statuses == {"new", "starting", "running", "crashed", "disabled", "broken"}
StartStages == {"verify", "bumped", "spawning", "greeting", "greeted"}
WorkerStages == {"idle", "activate", "asking", "mark", "marked", "stopping", "lingering", "stopped"}
WaiterStages == {"none", "watching", "parting", "falling", "deciding", "waiting", "over"}

Alive == {k \in Children : child[k].at \in {"greeting", "up"}}

HostTypeOK ==
  /\ slot \in [Slots -> [status : Statuses, live : Children \cup {None},
                         generation : Nat, expected : BOOLEAN,
                         crashes : 0 .. MaxRestarts]]
  /\ known \in Slots \cup {None}
  /\ child \in [Children -> [at : {"unborn", "greeting", "up", "ended"}, of : Slots \cup {None}]]
  /\ \A t \in DOMAIN thread :
       /\ thread[t].at \in StartStages \cup (IF t = Worker THEN WorkerStages ELSE WaiterStages)
       /\ thread[t].job \in {"none", "start", "remove", "refresh", "sweep"}
       /\ thread[t].at \notin {"idle", "none", "over"} => thread[t].slot \in Slots
  /\ DOMAIN thread = Children \cup {Worker}
  /\ \A i \in DOMAIN posted : posted[i] \in {"start", "remove", "refresh"}
  /\ enabled \in BOOLEAN /\ dirty \in BOOLEAN
  /\ {outdated, calls, mail} \subseteq SUBSET Children /\ panel \in Children \cup {None}
  /\ asks \in 0 .. MaxAsks /\ strays \subseteq Strays
  /\ \A s \in Slots : slot[s].live # None => child[slot[s].live].of = s

NewSlot == [status |-> "new", live |-> None, generation |-> 0, expected |-> FALSE, crashes |-> 0]
AtEase(stage) == [at |-> stage, slot |-> None, generation |-> 0, child |-> None, job |-> "none"]

\* ModuleRuntime: what is enabled is started at launch.
HostInit ==
  /\ slot = [s \in Slots |-> NewSlot] /\ known = None
  /\ child = [k \in Children |-> [at |-> "unborn", of |-> None]]
  /\ thread = [t \in Children \cup {Worker} |-> AtEase(IF t = Worker THEN "idle" ELSE "none")]
  /\ posted = <<"start">> /\ enabled = TRUE /\ dirty = FALSE
  /\ outdated = {} /\ calls = {} /\ mail = {} /\ panel = None /\ asks = 0 /\ strays = {}

Stray(names) == strays' = strays \cup names
Turn(t, stage) == thread' = [thread EXCEPT ![t].at = stage]
Of(t) == slot[thread[t].slot]
Set(t, state) == slot' = [slot EXCEPT ![thread[t].slot] = state]
ShowAs(t, status) == Set(t, [Of(t) EXCEPT !.status = status])
End(t) == thread' = [thread EXCEPT ![t] = AtEase(IF t = Worker THEN "idle" ELSE "over")]
IsLive(s) == s # None /\ slot[s].status \in {"starting", "running"}
Newer(t) == Of(t).generation # thread[t].generation
-----------------------------------------------------------------------------
(* Slot::start, on the worker or on the thread that waited for the last    *)
(* process.                                                                *)

FailToVerify(t) ==
  /\ thread[t].at = "verify"
  /\ ShowAs(t, "broken") /\ End(t)
  /\ UNCHANGED <<child, railVars, strays>>

Bump(t) ==
  /\ thread[t].at = "verify"
  /\ Set(t, [Of(t) EXCEPT !.generation = @ + 1, !.expected = FALSE, !.live = None])
  /\ thread' = [thread EXCEPT ![t].at = "bumped", ![t].generation = Of(t).generation + 1]
  /\ UNCHANGED <<child, railVars, strays>>

ShowStarting(t) ==
  /\ thread[t].at = "bumped"
  /\ ShowAs(t, "starting") /\ Turn(t, "spawning")
  /\ UNCHANGED <<child, railVars, strays>>

Newborn(k) == child[k].at = "unborn" /\ \A j \in Children : j < k => child[j].at # "unborn"

SpawnChild(t) ==
  /\ thread[t].at = "spawning"
  /\ \E k \in Children :
       /\ Newborn(k)
       /\ child' = [child EXCEPT ![k] = [at |-> "greeting", of |-> thread[t].slot]]
       /\ thread' = [thread EXCEPT ![t].at = "greeting", ![t].child = k]
  /\ UNCHANGED <<slot, railVars, strays>>

SpawnFails(t) ==
  /\ thread[t].at = "spawning"
  /\ ShowAs(t, "disabled") /\ End(t)
  /\ UNCHANGED <<child, railVars, strays>>

GreetFails(t) ==
  /\ thread[t].at = "greeting"
  /\ \E status \in {"disabled", "broken"} : ShowAs(t, status)
  /\ child' = [child EXCEPT ![thread[t].child].at = "ended"]
  /\ End(t)
  /\ UNCHANGED <<railVars, strays>>

Greet(t) ==
  /\ thread[t].at = "greeting" /\ thread[t].child \in Alive
  /\ child' = [child EXCEPT ![thread[t].child].at = "up"]
  /\ Set(t, [Of(t) EXCEPT !.live = thread[t].child])
  /\ Turn(t, "greeted")
  /\ UNCHANGED <<railVars, strays>>

\* Slip: a process that was replaced is taken for activated.
ServedAsIs(t) == IF thread[t].job = "start" THEN "activate" ELSE "idle"

\* The worker activates what it has started.
Served(t) == "activate"

Serve(t) ==
  /\ thread[t].at = "greeted"
  /\ ShowAs(t, "running")
  /\ thread' = [thread EXCEPT
       ![t] = IF t = Worker THEN [@ EXCEPT !.at = Served(t)] ELSE AtEase("over"),
       ![thread[t].child] = [AtEase("watching") EXCEPT !.slot = thread[t].slot,
                                                       !.generation = thread[t].generation]]
  /\ Stray({m \in {"unshown"} : t # Worker})
  /\ UNCHANGED <<child, railVars>>

StartMoves(t) ==
  FailToVerify(t) \/ Bump(t) \/ ShowStarting(t) \/ SpawnChild(t) \/ SpawnFails(t)
    \/ GreetFails(t) \/ Greet(t) \/ Serve(t)
-----------------------------------------------------------------------------
(* wait_loop, on the thread of process k.                                  *)

ChildDies(k) ==
  /\ k \in Alive
  /\ child' = [child EXCEPT ![k].at = "ended"] /\ calls' = calls \ {k}
  /\ UNCHANGED <<slot, thread, mail, panel, strays>>

NoticeExit(k) ==
  /\ thread[k].at = "watching" /\ child[k].at = "ended"
  /\ IF Newer(k)
     THEN End(k) /\ UNCHANGED slot
     ELSE /\ Set(k, [Of(k) EXCEPT !.live = None])
          /\ Turn(k, IF Of(k).expected THEN "parting" ELSE "falling")
  /\ UNCHANGED <<child, railVars, strays>>

SendGone(k) ==
  /\ thread[k].at \in {"parting", "falling"}
  /\ panel' = None
  /\ IF thread[k].at = "parting" THEN End(k) ELSE Turn(k, "deciding")
  /\ Stray({m \in {"wiped"} : panel \notin {None, k}})
  /\ UNCHANGED <<slot, child, calls, mail>>

\* on_crash: how many of the crashes are still in the window is up to the clock.
JudgeCrash(k) ==
  /\ thread[k].at = "deciding"
  /\ \E recent \in 0 .. Of(k).crashes :
       IF recent < MaxRestarts
       THEN /\ Set(k, [Of(k) EXCEPT !.status = "crashed", !.crashes = recent + 1])
            /\ Turn(k, "waiting")
       ELSE /\ Set(k, [Of(k) EXCEPT !.status = "disabled", !.crashes = recent])
            /\ End(k)
  /\ Stray({m \in {"stuck"} : Newer(k) \/ Of(k).expected})
  /\ UNCHANGED <<child, railVars>>

CalledOff(k) == Newer(k) \/ Of(k).expected

WakeUp(k) ==
  /\ thread[k].at = "waiting"
  /\ IF CalledOff(k) THEN End(k) ELSE Turn(k, "verify")
  /\ UNCHANGED <<slot, child, railVars, strays>>

WaiterMoves(k) ==
  StartMoves(k) \/ ChildDies(k) \/ NoticeExit(k) \/ SendGone(k) \/ JudgeCrash(k) \/ WakeUp(k)
-----------------------------------------------------------------------------
(* run_worker: one job after the other.                                    *)

Lingers(s) == \E k \in Children : child[k].of = s /\ (k \in Alive \/ thread[k].at \notin {"none", "over"})

Assign(job, stage, s) ==
  thread' = [thread EXCEPT ![Worker] = [AtEase(stage) EXCEPT !.job = job, !.slot = s]]

Free(s) == slot[s] = NewSlot /\ known # s /\ \A r \in Slots : r < s => slot[r] # NewSlot

\* Host::spawn_with.
TakeStart ==
  \/ /\ IsLive(known)
     /\ Assign("start", "activate", known)
     /\ UNCHANGED <<known, strays>>
  \/ /\ ~IsLive(known)
     /\ \E s \in Slots :
          Free(s) /\ known' = s /\ Assign("start", "verify", s)
     /\ Stray({m \in {"replaced"} : known # None /\ Lingers(known)})

TakeRemove ==
  /\ IF known = None THEN UNCHANGED thread ELSE Assign("remove", "mark", known)
  /\ known' = None
  /\ UNCHANGED strays

\* Host::stale_control_url.
Stale(s) == IsLive(s) /\ slot[s].live \in outdated

TakeRefresh ==
  /\ IF Stale(known) THEN Assign("refresh", "mark", known) ELSE UNCHANGED thread
  /\ Stray({m \in {"unheard"} : ~Stale(known) /\ outdated \cap Alive # {}})
  /\ UNCHANGED known

TakeJob ==
  /\ thread[Worker].at = "idle" /\ posted # <<>>
  /\ posted' = Tail(posted)
  /\ CASE Head(posted) = "start"   -> TakeStart
       [] Head(posted) = "remove"  -> TakeRemove
       [] Head(posted) = "refresh" -> TakeRefresh
  /\ UNCHANGED <<slot, child, railVars, asks>>

\* sweep_licenses finds that the licence of the module is lost.
Sweep ==
  /\ thread[Worker].at = "idle" /\ posted = <<>>
  /\ IsLive(known) /\ asks < MaxAsks
  /\ asks' = asks + 1
  /\ Assign("sweep", "mark", known)
  /\ UNCHANGED <<slot, known, child, posted, railVars, strays>>

\* Host::activate writes the request, unless no process is there to read it.
CallActivate ==
  /\ thread[Worker].at = "activate"
  /\ IF known # None /\ slot[known].live \in Alive
     THEN calls' = calls \cup {slot[known].live} /\ Turn(Worker, "asking")
     ELSE End(Worker) /\ UNCHANGED calls
  /\ UNCHANGED <<slot, child, mail, panel, strays>>

\* The answer, an error, call_timeout, or the end of the connection: the worker goes
\* on with whichever comes first, and does not ask again.
CallEnds ==
  /\ thread[Worker].at = "asking" /\ End(Worker)
  /\ UNCHANGED <<slot, child, railVars, strays>>

\* Slip: the exit that follows is not expected.
StoppedAsIs(state) == state

Stopped(state) == [state EXCEPT !.expected = TRUE]

Restarting(s) == \E k \in Children : thread[k].slot = s /\ thread[k].at \in StartStages

\* Slot::shutdown.
MarkStop ==
  /\ thread[Worker].at = "mark"
  /\ Set(Worker, Stopped(Of(Worker)))
  /\ LET live == Of(Worker).live
     IN  thread' = [thread EXCEPT ![Worker].child = live,
           ![Worker].at = IF live # None \/ IsLive(thread[Worker].slot) THEN "marked" ELSE "stopped"]
         /\ Stray({m \in {"stuck"} : live = None /\ Of(Worker).status = "crashed"}
                  \cup {m \in {"unheeded"} : Restarting(thread[Worker].slot)})
  /\ UNCHANGED <<child, railVars>>

ShowDisabled ==
  /\ thread[Worker].at = "marked"
  /\ ShowAs(Worker, "disabled")
  /\ Turn(Worker, IF thread[Worker].child = None THEN "stopped" ELSE "stopping")
  /\ UNCHANGED <<child, railVars, strays>>

\* Slip: a module that does not go in time is left alone.
EndChildNever ==
  /\ thread[Worker].at = "stopping" /\ Turn(Worker, "lingering")
  /\ UNCHANGED <<slot, child, railVars, strays>>

\* The module goes when it is told to, or is killed.
EndChild ==
  /\ thread[Worker].at = "stopping"
  /\ child' = [child EXCEPT ![thread[Worker].child].at = "ended"]
  /\ calls' = calls \ {thread[Worker].child}
  /\ Turn(Worker, "lingering")
  /\ UNCHANGED <<slot, mail, panel, strays>>

EndWait ==
  /\ thread[Worker].at = "lingering"
  /\ Turn(Worker, "stopped")
  /\ Stray({m \in {"hurried"} : Of(Worker).live # None})
  /\ UNCHANGED <<slot, child, railVars>>

\* Host::remove tells the panel, Host::respawn goes on with Slot::start.
AfterStop ==
  /\ thread[Worker].at = "stopped"
  /\ panel' = IF thread[Worker].job = "remove" THEN None ELSE panel
  /\ IF thread[Worker].job = "refresh"
     THEN Turn(Worker, "verify") /\ Set(Worker, [Of(Worker) EXCEPT !.crashes = 0])
     ELSE End(Worker) /\ UNCHANGED slot
  /\ UNCHANGED <<child, calls, mail, strays>>

WorkerMoves ==
  \/ TakeJob \/ Sweep
  \/ /\ StartMoves(Worker) \/ CallActivate \/ CallEnds \/ MarkStop \/ ShowDisabled
        \/ EndChild \/ EndWait \/ AfterStop
     /\ UNCHANGED <<known, posted, asks>>
-----------------------------------------------------------------------------
(* module.activate in the module, and read_loop, on a thread per process.  *)

\* The module registers its entries, or has none, or fails.
Register(k) ==
  /\ k \in calls /\ calls' = calls \ {k}
  /\ \/ mail' = mail \cup {k} /\ UNCHANGED strays
     \/ Stray({"barren"}) /\ UNCHANGED mail
  /\ UNCHANGED panel

\* The thread that waits for k has yet to tell the panel that it is gone.
Untold(k) == thread[k].at \in {"watching", "parting", "falling"}

\* rail_register, whatever the generation of the slot is by then.  It may refuse the
\* entries; what a process that has ended wrote may also be lost.
HearModule(k) ==
  /\ k \in mail /\ thread[k].at # "none" /\ mail' = mail \ {k}
  /\ \/ panel' = k /\ Stray({m \in {"belated"} : ~Untold(k) \/ panel \notin {None, k}})
     \/ UNCHANGED panel /\ Stray({m \in {"barren"} : k \in Alive})
  /\ UNCHANGED calls

-----------------------------------------------------------------------------
(* The window's thread: the user, the store and the control server.        *)

\* The marketplace's routes set the state and raise the flag.
Enable ==
  /\ asks < MaxAsks /\ asks' = asks + 1
  /\ enabled' = ~enabled /\ dirty' = TRUE
  /\ UNCHANGED <<slot, known, child, thread, posted, outdated, railVars, strays>>

\* A start is on its way of which the status does not tell yet.
Coming ==
  \/ \E i \in DOMAIN posted : posted[i] = "start"
  \/ thread[Worker].job \in {"start", "refresh"} /\ thread[Worker].at # "idle"
  \/ known # None /\ Lingers(known)

Going == \E i \in DOMAIN posted : posted[i] = "remove"

Reconcile ==
  /\ dirty /\ dirty' = FALSE
  /\ posted' = CASE enabled /\ ~IsLive(known) -> Append(posted, "start")
                 [] ~enabled /\ IsLive(known) -> Append(posted, "remove")
                 [] OTHER -> posted
  /\ Stray({m \in {"hasty"} : \/ ~enabled /\ ~IsLive(known) /\ Coming
                              \/ enabled /\ IsLive(known) /\ Going})
  /\ UNCHANGED <<slot, known, child, thread, enabled, outdated, railVars, asks>>

\* attach_control finds another address; only a process that is spawned from now
\* on is told.
MoveServer ==
  /\ asks < MaxAsks /\ asks' = asks + 1
  /\ outdated' = {k \in Children : child[k].at # "unborn"}
  /\ posted' = Append(posted, "refresh")
  /\ UNCHANGED <<slot, known, child, thread, enabled, dirty, railVars, strays>>

HostNext ==
  \/ /\ WorkerMoves
     /\ UNCHANGED <<enabled, dirty, outdated>>
  \/ /\ \E k \in Children : WaiterMoves(k)
     /\ UNCHANGED <<known, posted, enabled, dirty, outdated, asks>>
  \/ /\ \E k \in Children : Register(k) \/ HearModule(k)
     /\ UNCHANGED <<slot, known, child, thread, posted, enabled, dirty, outdated, asks>>
  \/ Enable \/ Reconcile \/ MoveServer

HostSpec == HostInit /\ [][HostNext]_hostVars
-----------------------------------------------------------------------------
\* Nothing is left to do but to wait for the exit of what runs.
HostAtRest ==
  /\ thread[Worker].at = "idle" /\ posted = <<>> /\ ~dirty
  /\ \A k \in Children : thread[k].at \in {"none", "over"} \/ (thread[k].at = "watching" /\ k \in Alive)
  /\ calls = {} /\ mail = {}

\* One module is one process at a time, whoever starts, stops and replaces it.
OneProcess ==
  strays \cap {"replaced", "unheeded"} = {} => Cardinality(Alive) <= 1

\* When nothing is left to do, the module runs only if it is enabled, under the
\* slot the host knows, and with the status it has; one that is enabled and does
\* not run is shown as disabled or broken, never as crashed.
RestsAsWanted ==
  HostAtRest /\ strays \cap {"replaced", "unheeded", "hasty", "stuck"} = {} =>
    /\ Alive # {} => enabled /\ IsLive(known) /\ Alive = {slot[known].live}
    /\ enabled => known # None
    /\ known # None => slot[known].status \in {"disabled", "broken"}
                       \/ (slot[known].status = "running" /\ Alive # {})

\* When nothing is left to do, the panel shows the entries of the process that
\* runs, and of none that does not, and that process knows the server's address.
InTouch ==
  HostAtRest /\ strays \subseteq {"hasty"} =>
    /\ panel # None => panel \in Alive
    /\ Alive \subseteq {panel} \ outdated
=============================================================================
