--------------------------- MODULE ModuleHostProofs ---------------------------
(***************************************************************************)
(* Proofs about the host of a module, for any number of restarts, slots,   *)
(* processes and asks.                                                     *)
(***************************************************************************)
EXTENDS ModuleHost, FiniteSetTheorems, TLAPS

Actors == Children \cup {Worker}
HostJobs == {"none", "start", "remove", "refresh", "sweep"}
OffDuty == {"idle", "none", "over"}
AllStages == StartStages \cup WorkerStages \cup WaiterStages
Thread == [at : AllStages, slot : Slots \cup {None}, generation : Nat,
           child : Children \cup {None}, job : HostJobs]
SlotState == [status : Statuses, live : Children \cup {None}, generation : Nat,
              expected : BOOLEAN, crashes : 0 .. MaxRestarts]

HostDataTyped ==
  /\ slot \in [Slots -> SlotState]
  /\ known \in Slots \cup {None}
  /\ child \in [Children -> [at : {"unborn", "greeting", "up", "ended"}, of : Slots \cup {None}]]
  /\ thread \in [Actors -> Thread]
  /\ posted \in Seq({"start", "remove", "refresh"})
  /\ enabled \in BOOLEAN /\ dirty \in BOOLEAN
  /\ outdated \subseteq Children /\ calls \subseteq Children /\ mail \subseteq Children
  /\ panel \in Children \cup {None}
  /\ asks \in 0 .. MaxAsks /\ strays \subseteq Strays

\* Each thread is at a stage of its own kind, with a slot while it is on duty; no
\* process waits with a generation its slot has yet to reach.
WorkerFits ==
  /\ thread[Worker].at \in StartStages \cup WorkerStages
  /\ thread[Worker].at = "idle" <=> thread[Worker].job = "none"
  /\ thread[Worker].at \in StartStages => thread[Worker].job \in {"start", "refresh"}
  /\ thread[Worker].at \in {"activate", "asking"} => thread[Worker].job \in {"start", "refresh"}
  /\ thread[Worker].at \in {"mark", "marked", "stopping", "lingering", "stopped"} =>
       thread[Worker].job \in {"remove", "refresh", "sweep"}
  /\ thread[Worker].at # "idle" =>
       thread[Worker].slot \in Slots /\ thread[Worker].generation <= Of(Worker).generation
WaiterFits(k) ==
  /\ thread[k].at \in StartStages \cup WaiterStages /\ thread[k].job = "none"
  /\ thread[k].at \notin OffDuty =>
       thread[k].slot \in Slots /\ thread[k].generation <= Of(k).generation
ThreadsTyped == WorkerFits /\ \A k \in Children : WaiterFits(k)

\* What has become of a process, and which thread waits for it.
ChildFits(k) ==
  /\ child[k].at = "unborn" <=> child[k].of = None
  /\ child[k].at = "unborn" => k \notin outdated
  /\ thread[k].at # "none" => child[k].at \in {"up", "ended"}
  /\ thread[k].at \notin {"none", "watching"} => child[k].at = "ended"
  /\ thread[k].at \notin OffDuty => thread[k].slot = child[k].of
SlotFits(s) ==
  slot[s].live # None =>
    child[slot[s].live].of = s /\ child[slot[s].live].at \in {"up", "ended"}
ChildrenTyped == (\A k \in Children : ChildFits(k)) /\ \A s \in Slots : SlotFits(s)

Greets(t) == thread[t].at \in {"greeting", "greeted"}

\* A process that no thread waits for yet has one that starts it.
GreetFits(t) ==
  Greets(t) =>
    /\ thread[t].child \in Children
    /\ thread[thread[t].child].at = "none"
    /\ child[thread[t].child].of = thread[t].slot
    /\ child[thread[t].child].at \in
         {IF thread[t].at = "greeting" THEN "greeting" ELSE "up", "ended"}
GreetApart ==
  \A t, u \in Actors : Greets(t) /\ Greets(u) /\ thread[t].child = thread[u].child => t = u
Tended(k) ==
  k \in Alive => thread[k].at = "watching" \/ \E t \in Actors : Greets(t) /\ thread[t].child = k
StopHolds ==
  /\ thread[Worker].at = "marked" /\ thread[Worker].child # None =>
       child[thread[Worker].child].at \in {"up", "ended"}
  /\ thread[Worker].at = "stopping" =>
       thread[Worker].child # None /\ child[thread[Worker].child].at \in {"up", "ended"}
StartersTyped ==
  /\ \A t \in Actors : GreetFits(t)
  /\ GreetApart /\ (\A k \in Children : Tended(k)) /\ StopHolds

\* The worker is at what is known, unless it is to remove it.
WorksOnKnown ==
  thread[Worker].at # "idle" =>
    IF thread[Worker].job = "remove" THEN known = None ELSE thread[Worker].slot = known

HostTyped == HostDataTyped /\ ThreadsTyped /\ ChildrenTyped /\ StartersTyped /\ WorksOnKnown

Starts(t) == thread[t].at \in StartStages
Heir(k) == thread[k].at \in {"watching", "falling", "deciding", "waiting"} /\ ~CalledOff(k)
Acts(t) == Starts(t) \/ (t # Worker /\ Heir(t))
Stops == thread[Worker].at \in {"marked", "stopping", "lingering", "stopped"}

Clean == strays \cap {"replaced", "unheeded"} = {}

\* One thread at a time starts the module or is to start it again.
OneActs == \A t, u \in Actors : Acts(t) /\ Acts(u) => t = u

\* It does so in the slot that is known, unless that is about to be stopped.
ActInKnown(t) ==
  Acts(t) =>
    \/ thread[t].slot = known
    \/ /\ thread[Worker].at = "mark" /\ thread[Worker].job = "remove" /\ known = None
       /\ thread[t].slot = thread[Worker].slot
ActsInKnown == \A t \in Actors : ActInKnown(t)

\* A start is of the slot's generation, and nobody has called it off.
StartCurrent(t) ==
  Starts(t) /\ (t = Worker => thread[t].at # "verify") =>
    /\ ~Newer(t) /\ ~Of(t).expected
    /\ thread[t].at \in {"bumped", "spawning", "greeting"} => Of(t).live = None
    /\ thread[t].at = "greeted" => Of(t).live = thread[t].child
StartsCurrent == \A t \in Actors : StartCurrent(t)

\* A process that lives is being started, or waited for by a thread that is to start
\* it again, or about to be stopped.
Accounted(k) ==
  k \in Alive =>
    \/ \E t \in Actors : Greets(t) /\ thread[t].child = k
    \/ /\ thread[k].at = "watching" /\ Of(k).live = k
       /\ \/ Heir(k)
          \/ /\ thread[Worker].at \in {"marked", "stopping"}
             /\ thread[Worker].slot = thread[k].slot /\ thread[Worker].child = k
AliveIsAccountedFor == \A k \in Children : Accounted(k)

\* A stop leaves nobody to start the module again, and no process.
StopIsStop ==
  Stops =>
    /\ Of(Worker).expected /\ \A t \in Actors : ~Acts(t)
    /\ thread[Worker].at \in {"lingering", "stopped"} => Alive = {}

\* The thread that waits for a slot's last process waits for the one the slot holds.
Owns(k) == thread[k].at = "watching" /\ ~Newer(k) => Of(k).live = k
WatchersOwn == \A k \in Children : Owns(k)

CleanInv ==
  Clean => OneActs /\ ActsInKnown /\ StartsCurrent /\ AliveIsAccountedFor /\ StopIsStop /\ WatchersOwn

\* The status tells what is being done about the module: that it is being started,
\* that it runs or has crashed, or that nothing is done.
StartShown(t) == thread[t].at \in {"spawning", "greeting", "greeted"} => Of(t).status = "starting"
StartsShown == \A t \in Actors : StartShown(t)
HeirShown(k) ==
  Heir(k) => Of(k).status = IF thread[k].at = "waiting" THEN "crashed" ELSE "running"
HeirsShown == \A k \in Children : HeirShown(k)
RestShown ==
  known # None /\ thread[Worker].at # "marked" /\ (\A t \in Actors : ~Acts(t)) =>
    slot[known].status \in {"disabled", "broken"}

LastIs(job, other) ==
  \E i \in DOMAIN posted : posted[i] = job /\ \A j \in DOMAIN posted : j > i => posted[j] # other
NonePosted(job) == \A i \in DOMAIN posted : posted[i] # job

\* Unless the store has changed since, what it says is what the worker is to do last,
\* or has done.
WishIsPosted ==
  ~dirty =>
    IF enabled THEN LastIs("start", "remove") \/ (NonePosted("remove") /\ known # None)
    ELSE \/ LastIs("remove", "start")
         \/ /\ NonePosted("start")
            /\ \/ known = None
               \/ thread[Worker].job \notin {"start", "refresh"} /\ \A t \in Actors : ~Acts(t)

Told == Clean /\ "stuck" \notin strays
StatusInv == Told => StartsShown /\ HeirsShown /\ RestShown
WishInv == Told /\ "hasty" \notin strays => WishIsPosted

Touch == strays \subseteq {"hasty"}

\* A process that is waited for is the slot's own.
Watches(k) == thread[k].at = "watching" => Of(k).live = k /\ ~Newer(k)
LeavesNone ==
  thread[Worker].at = "verify" \/ thread[Worker].at = "stopped"
    \/ (thread[Worker].at = "marked" /\ thread[Worker].child = None) => Of(Worker).live = None
WatchesLive == (\A k \in Children : Watches(k)) /\ LeavesNone

\* The panel's entries are those of a process whose exit it has yet to be told.
PanelIsTold ==
  panel # None => Untold(panel)

\* A process that serves is shown, or is being activated, or is activated next.
ServeShown(k) ==
  k \in Alive /\ thread[k].at = "watching" =>
    panel = k \/ k \in calls \cup mail \/ thread[Worker].at = "activate"
ServedIsShown == \A k \in Children : ServeShown(k)

\* A process with an old address is going to be replaced.
GoesSoon(k) ==
  k \in Alive /\ k \in outdated =>
    \/ \E i \in DOMAIN posted : posted[i] = "refresh"
    \/ thread[Worker].job = "refresh" /\ thread[Worker].at \in {"mark", "marked", "stopping"}
OutdatedGoes == \A k \in Children : GoesSoon(k)

TouchInv == Touch => WatchesLive /\ PanelIsTold /\ ServedIsShown /\ OutdatedGoes
-----------------------------------------------------------------------------
(* What each move does, thread by thread and slot by slot.                 *)

Rest(t) == AtEase(IF t = Worker THEN "idle" ELSE "over")
OnlyThread(t) == \A u \in Actors \ {t} : thread'[u] = thread[u]
OnlySlot(s) == \A r \in Slots \ {s} : slot'[r] = slot[r]
OnlyChild(k) == \A j \in Children \ {k} : child'[j] = child[j]
SameThread(t) == /\ thread'[t].slot = thread[t].slot /\ thread'[t].job = thread[t].job
                 /\ thread'[t].generation = thread[t].generation /\ thread'[t].child = thread[t].child
SameSlot(s) == /\ slot'[s].live = slot[s].live /\ slot'[s].generation = slot[s].generation
               /\ slot'[s].expected = slot[s].expected
EndsChild(k) == child'[k].at = "ended" /\ child'[k].of = child[k].of

\* The start fails: FailToVerify, SpawnFails, GreetFails.
GivesUp(t) ==
  /\ thread[t].at \in {"verify", "spawning", "greeting"}
  /\ OnlyThread(t) /\ thread'[t] = Rest(t)
  /\ OnlySlot(thread[t].slot) /\ SameSlot(thread[t].slot)
  /\ slot'[thread[t].slot].status \in {"disabled", "broken"}
  /\ IF thread[t].at = "greeting" THEN OnlyChild(thread[t].child) /\ EndsChild(thread[t].child)
     ELSE UNCHANGED child
  /\ UNCHANGED <<calls, mail, panel, strays>>

Bumps(t) ==
  /\ thread[t].at = "verify" /\ thread'[t].at = "bumped"
  /\ OnlyThread(t) /\ thread'[t].slot = thread[t].slot /\ thread'[t].job = thread[t].job
  /\ thread'[t].child = thread[t].child /\ thread'[t].generation = Of(t).generation + 1
  /\ OnlySlot(thread[t].slot)
  /\ slot'[thread[t].slot].status = Of(t).status /\ slot'[thread[t].slot].live = None
  /\ slot'[thread[t].slot].generation = Of(t).generation + 1
  /\ ~slot'[thread[t].slot].expected
  /\ UNCHANGED <<child, calls, mail, panel, strays>>

ShowsStarting(t) ==
  /\ thread[t].at = "bumped" /\ thread'[t].at = "spawning"
  /\ OnlyThread(t) /\ SameThread(t) /\ OnlySlot(thread[t].slot) /\ SameSlot(thread[t].slot)
  /\ slot'[thread[t].slot].status = "starting"
  /\ UNCHANGED <<child, calls, mail, panel, strays>>

Spawns(t, k) ==
  /\ thread[t].at = "spawning" /\ thread'[t].at = "greeting"
  /\ OnlyThread(t) /\ thread'[t].slot = thread[t].slot /\ thread'[t].job = thread[t].job
  /\ thread'[t].child = k /\ thread'[t].generation = thread[t].generation
  /\ child[k].at = "unborn" /\ child'[k].at = "greeting" /\ child'[k].of = thread[t].slot
  /\ OnlyChild(k)
  /\ UNCHANGED <<slot, calls, mail, panel, strays>>

Greeted(t) ==
  /\ thread[t].at = "greeting" /\ thread'[t].at = "greeted" /\ thread[t].child \in Alive
  /\ OnlyThread(t) /\ SameThread(t) /\ OnlySlot(thread[t].slot)
  /\ slot'[thread[t].slot].status = Of(t).status
  /\ slot'[thread[t].slot].live = thread[t].child
  /\ slot'[thread[t].slot].generation = Of(t).generation
  /\ slot'[thread[t].slot].expected = Of(t).expected
  /\ OnlyChild(thread[t].child) /\ child'[thread[t].child].at = "up"
  /\ child'[thread[t].child].of = child[thread[t].child].of
  /\ UNCHANGED <<calls, mail, panel, strays>>

Serves(t) ==
  LET k == thread[t].child IN
  /\ thread[t].at = "greeted" /\ k # t
  /\ \A u \in Actors \ {t, k} : thread'[u] = thread[u]
  /\ IF t = Worker THEN thread'[t].at = "activate" /\ SameThread(t) ELSE thread'[t] = Rest(t)
  /\ thread'[k].at = "watching" /\ thread'[k].slot = thread[t].slot
  /\ thread'[k].generation = thread[t].generation /\ thread'[k].job = "none"
  /\ thread'[k].child = None
  /\ OnlySlot(thread[t].slot) /\ SameSlot(thread[t].slot)
  /\ slot'[thread[t].slot].status = "running"
  /\ strays' = strays \cup {m \in {"unshown"} : t # Worker}
  /\ UNCHANGED <<child, calls, mail, panel>>

Dies(k) ==
  /\ k \in Alive /\ OnlyChild(k) /\ EndsChild(k) /\ calls' = calls \ {k}
  /\ UNCHANGED <<slot, thread, mail, panel, strays>>

Notices(k) ==
  /\ thread[k].at = "watching" /\ child[k].at = "ended" /\ OnlyThread(k)
  /\ \/ Newer(k) /\ thread'[k] = Rest(k) /\ UNCHANGED slot
     \/ /\ ~Newer(k) /\ SameThread(k)
        /\ thread'[k].at = IF Of(k).expected THEN "parting" ELSE "falling"
        /\ OnlySlot(thread[k].slot)
        /\ slot'[thread[k].slot].live = None
        /\ slot'[thread[k].slot].status = Of(k).status
        /\ slot'[thread[k].slot].generation = Of(k).generation
        /\ slot'[thread[k].slot].expected = Of(k).expected
  /\ UNCHANGED <<child, calls, mail, panel, strays>>

SendsGone(k) ==
  /\ OnlyThread(k)
  /\ \/ thread[k].at = "parting" /\ thread'[k] = Rest(k)
     \/ thread[k].at = "falling" /\ thread'[k].at = "deciding" /\ SameThread(k)
  /\ panel' = None /\ strays' = strays \cup {m \in {"wiped"} : panel \notin {None, k}}
  /\ UNCHANGED <<slot, child, calls, mail>>

Judges(k) ==
  /\ thread[k].at = "deciding" /\ OnlyThread(k)
  /\ OnlySlot(thread[k].slot) /\ SameSlot(thread[k].slot)
  /\ \/ /\ thread'[k].at = "waiting" /\ SameThread(k) /\ slot'[thread[k].slot].status = "crashed"
     \/ thread'[k] = Rest(k) /\ slot'[thread[k].slot].status = "disabled"
  /\ strays' = strays \cup {m \in {"stuck"} : CalledOff(k)}
  /\ UNCHANGED <<child, calls, mail, panel>>

Wakes(k) ==
  /\ thread[k].at = "waiting" /\ OnlyThread(k)
  /\ IF CalledOff(k) THEN thread'[k] = Rest(k) ELSE thread'[k].at = "verify" /\ SameThread(k)
  /\ UNCHANGED <<slot, child, calls, mail, panel, strays>>

WaiterDoes(k) == Dies(k) \/ Notices(k) \/ SendsGone(k) \/ Judges(k) \/ Wakes(k)
StarterDoes(t) ==
  \/ GivesUp(t) \/ Bumps(t) \/ ShowsStarting(t) \/ (\E k \in Children : Spawns(t, k)) \/ Greeted(t)
  \/ Serves(t)

\* The worker takes a job on.
Assigned(job, stage, s) ==
  /\ OnlyThread(Worker)
  /\ thread'[Worker].at = stage /\ thread'[Worker].job = job /\ thread'[Worker].slot = s
  /\ thread'[Worker].generation = 0 /\ thread'[Worker].child = None

Marks ==
  /\ thread[Worker].at = "mark"
  /\ OnlyThread(Worker) /\ thread'[Worker].slot = thread[Worker].slot
  /\ thread'[Worker].job = thread[Worker].job
  /\ thread'[Worker].generation = thread[Worker].generation
  /\ thread'[Worker].child = Of(Worker).live
  /\ thread'[Worker].at =
       IF Of(Worker).live # None \/ IsLive(thread[Worker].slot) THEN "marked" ELSE "stopped"
  /\ OnlySlot(thread[Worker].slot) /\ slot'[thread[Worker].slot].expected
  /\ slot'[thread[Worker].slot].status = Of(Worker).status
  /\ slot'[thread[Worker].slot].live = Of(Worker).live
  /\ slot'[thread[Worker].slot].generation = Of(Worker).generation
  /\ strays' = strays \cup {m \in {"stuck"} : Of(Worker).live = None /\ Of(Worker).status = "crashed"}
                      \cup {m \in {"unheeded"} : Restarting(thread[Worker].slot)}
  /\ UNCHANGED <<child, calls, mail, panel>>

ShowsDisabled ==
  /\ thread[Worker].at = "marked" /\ OnlyThread(Worker) /\ SameThread(Worker)
  /\ thread'[Worker].at = IF thread[Worker].child = None THEN "stopped" ELSE "stopping"
  /\ OnlySlot(thread[Worker].slot) /\ SameSlot(thread[Worker].slot)
  /\ slot'[thread[Worker].slot].status = "disabled"
  /\ UNCHANGED <<child, calls, mail, panel, strays>>

EndsIt ==
  /\ thread[Worker].at = "stopping" /\ thread'[Worker].at = "lingering"
  /\ OnlyThread(Worker) /\ SameThread(Worker)
  /\ OnlyChild(thread[Worker].child) /\ EndsChild(thread[Worker].child)
  /\ calls' = calls \ {thread[Worker].child}
  /\ UNCHANGED <<slot, mail, panel, strays>>

WaitsForEnd ==
  /\ thread[Worker].at = "lingering" /\ thread'[Worker].at = "stopped"
  /\ OnlyThread(Worker) /\ SameThread(Worker)
  /\ strays' = strays \cup {m \in {"hurried"} : Of(Worker).live # None}
  /\ UNCHANGED <<slot, child, calls, mail, panel>>

GoesOnAfterStop ==
  /\ thread[Worker].at = "stopped" /\ OnlyThread(Worker)
  /\ panel' = IF thread[Worker].job = "remove" THEN None ELSE panel
  /\ IF thread[Worker].job = "refresh"
     THEN /\ thread'[Worker].at = "verify" /\ SameThread(Worker)
          /\ OnlySlot(thread[Worker].slot) /\ SameSlot(thread[Worker].slot)
          /\ slot'[thread[Worker].slot].status = Of(Worker).status
     ELSE thread'[Worker] = Rest(Worker) /\ UNCHANGED slot
  /\ UNCHANGED <<child, calls, mail, strays>>

\* The worker asks the module to activate itself, or is done with asking.
Activates ==
  /\ thread[Worker].at \in {"activate", "asking"} /\ OnlyThread(Worker)
  /\ \/ thread'[Worker] = Rest(Worker)
     \/ thread[Worker].at = "activate" /\ thread'[Worker].at = "asking" /\ SameThread(Worker)
  /\ UNCHANGED <<slot, child, mail, panel, strays>>

\* Its entries are on their way, or reach the panel.
Hears(k) == (Register(k) \/ HearModule(k)) /\ UNCHANGED <<slot, known, child, thread, posted, enabled, dirty, outdated, asks>>

\* The worker is no process, and no slot or process is None.
LEMMA Numbers ==
  /\ Worker \notin Children /\ None \notin Children /\ None \notin Slots /\ Worker \in Actors
  /\ Children \subseteq Actors
  /\ \A t \in Actors : t = Worker \/ t \in Children
BY HostAssumption DEF Worker, None, Children, Slots, Actors

\* What HostTyped says of a thread on duty.
LEMMA OnDuty ==
  ASSUME HostTyped, NEW t \in Actors, thread[t].at \notin OffDuty
  PROVE  /\ thread \in [Actors -> Thread] /\ slot \in [Slots -> SlotState]
         /\ thread[t] \in Thread /\ thread[t].slot \in Slots /\ Of(t) \in SlotState
BY Numbers DEF HostTyped, HostDataTyped, ThreadsTyped, WorkerFits, WaiterFits, OffDuty, StartStages, WorkerStages, WaiterStages, Of

\* Each step of a start is one of the effects above.
LEMMA StarterMoves ==
  ASSUME HostTyped, NEW t \in Actors, StartMoves(t)
  PROVE  StarterDoes(t) /\ thread[t].at \in StartStages
<1> USE DEF Rest, OnlyThread, OnlySlot, OnlyChild, SameThread, SameSlot, EndsChild, ShowAs, Set, Turn, End,
            railVars
<1>0. thread[t].at \in StartStages
  BY DEF StartMoves, StartStages, FailToVerify, Bump, ShowStarting, SpawnChild, SpawnFails, GreetFails,
     Greet, Serve
<1>1. /\ thread \in [Actors -> Thread] /\ slot \in [Slots -> SlotState]
      /\ thread[t] \in Thread /\ thread[t].slot \in Slots /\ Of(t) \in SlotState
      /\ Of(t) = slot[thread[t].slot]
      /\ child \in [Children -> [at : {"unborn", "greeting", "up", "ended"}, of : Slots \cup {None}]]
  BY <1>0, OnDuty DEF StartStages, OffDuty, HostTyped, HostDataTyped, Of
<1> SUFFICES StarterDoes(t)
  BY <1>0
<1>2. CASE FailToVerify(t)
  BY <1>1, <1>2 DEF FailToVerify, StarterDoes, GivesUp, SlotState, Thread
<1>3. CASE Bump(t)
  BY <1>1, <1>3 DEF Bump, StarterDoes, Bumps, SlotState, Thread
<1>4. CASE ShowStarting(t)
  BY <1>1, <1>4 DEF ShowStarting, StarterDoes, ShowsStarting, SlotState, Thread
<1>5. CASE SpawnChild(t)
  BY <1>1, <1>5 DEF SpawnChild, Newborn, StarterDoes, Spawns, SlotState, Thread
<1>6. CASE SpawnFails(t)
  BY <1>1, <1>6 DEF SpawnFails, StarterDoes, GivesUp, SlotState, Thread
<1>7. CASE GreetFails(t)
  <2>1. thread[t].child \in Children
    BY <1>7 DEF HostTyped, StartersTyped, GreetFits, Greets, GreetFails
  <2> QED
    BY <1>1, <1>7, <2>1 DEF GreetFails, StarterDoes, GivesUp, SlotState, Thread
<1>8. CASE Greet(t)
  BY <1>1, <1>8 DEF Greet, StarterDoes, Greeted, SlotState, Thread, Alive
<1>9. CASE Serve(t)
  <2>1. thread[t].child \in Actors \ {t}
    BY <1>9, Numbers DEF HostTyped, StartersTyped, GreetFits, Greets, Serve
  <2>2. Serves(t)
    BY <1>1, <1>9, <2>1 DEF Serve, Served, Stray, Serves, SlotState, Thread, AtEase
  <2> QED
    BY <2>2 DEF StarterDoes
<1> QED
  BY <1>0, <1>2, <1>3, <1>4, <1>5, <1>6, <1>7, <1>8, <1>9 DEF StartMoves

\* So is each step of a thread that waits.
LEMMA WaiterDoesMoves ==
  ASSUME HostTyped, NEW k \in Children,
         ChildDies(k) \/ NoticeExit(k) \/ SendGone(k) \/ JudgeCrash(k) \/ WakeUp(k)
  PROVE  WaiterDoes(k)
<1> USE DEF Rest, OnlyThread, OnlySlot, OnlyChild, SameThread, SameSlot, EndsChild, ShowAs, Set, Turn,
            End, Stray, railVars
<1>0. k \in Actors
  BY Numbers
<1>1. CASE ChildDies(k)
  BY <1>1 DEF ChildDies, WaiterDoes, Dies, Alive, HostTyped, HostDataTyped
<1>2. thread[k].at \notin OffDuty =>
      /\ thread \in [Actors -> Thread] /\ slot \in [Slots -> SlotState]
      /\ thread[k] \in Thread /\ thread[k].slot \in Slots /\ Of(k) \in SlotState
      /\ Of(k) = slot[thread[k].slot]
  BY <1>0, OnDuty DEF Of
<1>3. CASE NoticeExit(k)
  BY <1>0, <1>2, <1>3, Numbers DEF NoticeExit, WaiterDoes, Notices, SlotState, Thread, OffDuty
<1>4. CASE SendGone(k)
  BY <1>0, <1>2, <1>4, Numbers DEF SendGone, WaiterDoes, SendsGone, SlotState, Thread, OffDuty
<1>5. CASE JudgeCrash(k)
  <2>1. thread[k].at = "deciding" /\ k # Worker
    BY <1>5, Numbers DEF JudgeCrash
  <2>2. strays' = strays \cup {m \in {"stuck"} : CalledOff(k)} /\ UNCHANGED <<child, calls, mail, panel>>
    BY <1>5 DEF JudgeCrash, CalledOff
  <2>3. PICK recent \in 0 .. Of(k).crashes :
       IF recent < MaxRestarts
       THEN /\ Set(k, [Of(k) EXCEPT !.status = "crashed", !.crashes = recent + 1])
            /\ Turn(k, "waiting")
       ELSE /\ Set(k, [Of(k) EXCEPT !.status = "disabled", !.crashes = recent])
            /\ End(k)
    BY <1>5 DEF JudgeCrash
  <2>4. \/ /\ Set(k, [Of(k) EXCEPT !.status = "crashed", !.crashes = recent + 1])
           /\ thread' = [thread EXCEPT ![k].at = "waiting"]
        \/ /\ Set(k, [Of(k) EXCEPT !.status = "disabled", !.crashes = recent])
           /\ thread' = [thread EXCEPT ![k] = AtEase("over")]
    BY <2>1, <2>3
  <2>5. /\ thread \in [Actors -> Thread] /\ slot \in [Slots -> SlotState]
        /\ thread[k] \in Thread /\ thread[k].slot \in Slots /\ Of(k) \in SlotState
        /\ Of(k) = slot[thread[k].slot]
    BY <1>2, <2>1 DEF OffDuty
  <2> DEFINE again == [Of(k) EXCEPT !.status = "crashed", !.crashes = recent + 1]
             never == [Of(k) EXCEPT !.status = "disabled", !.crashes = recent]
  <2>9. /\ again.status = "crashed" /\ again.live = Of(k).live
        /\ again.generation = Of(k).generation /\ again.expected = Of(k).expected
        /\ never.status = "disabled" /\ never.live = Of(k).live
        /\ never.generation = Of(k).generation /\ never.expected = Of(k).expected
    BY <2>5 DEF SlotState
  <2>10. \/ Set(k, again) /\ thread' = [thread EXCEPT ![k].at = "waiting"]
         \/ Set(k, never) /\ thread' = [thread EXCEPT ![k] = AtEase("over")]
    BY <2>4
  <2> HIDE DEF again, never
  <2>6. OnlyThread(k) /\ OnlySlot(thread[k].slot) /\ SameSlot(thread[k].slot)
    BY <1>0, <2>5, <2>9, <2>10 DEF Thread
  <2>7. \/ /\ thread'[k].at = "waiting" /\ SameThread(k) /\ slot'[thread[k].slot].status = "crashed"
        \/ thread'[k] = Rest(k) /\ slot'[thread[k].slot].status = "disabled"
    BY <1>0, <2>1, <2>5, <2>9, <2>10 DEF Thread
  <2>8. Judges(k)
    BY <2>1, <2>2, <2>6, <2>7 DEF Judges
  <2> QED
    BY <2>8 DEF WaiterDoes
<1>6. CASE WakeUp(k)
  BY <1>0, <1>2, <1>6, Numbers DEF WakeUp, WaiterDoes, Wakes, SlotState, Thread, OffDuty
<1> QED
  BY <1>1, <1>3, <1>4, <1>5, <1>6

\* And each step of a stop.
LEMMA StopMoves ==
  ASSUME HostTyped, MarkStop \/ ShowDisabled \/ EndChild \/ EndWait \/ AfterStop
  PROVE  Marks \/ ShowsDisabled \/ EndsIt \/ WaitsForEnd \/ GoesOnAfterStop
<1> USE DEF Rest, OnlyThread, OnlySlot, OnlyChild, SameThread, SameSlot, EndsChild, ShowAs, Set, Turn,
            End, Stray, railVars
<1>0. Worker \in Actors /\ thread[Worker].at \notin OffDuty
  BY Numbers DEF MarkStop, ShowDisabled, EndChild, EndWait, AfterStop, OffDuty
<1>1. /\ thread \in [Actors -> Thread] /\ slot \in [Slots -> SlotState]
      /\ thread[Worker] \in Thread /\ thread[Worker].slot \in Slots /\ Of(Worker) \in SlotState
      /\ Of(Worker) = slot[thread[Worker].slot]
  BY <1>0, OnDuty DEF Of
<1>2. CASE MarkStop
  BY <1>0, <1>1, <1>2 DEF MarkStop, Stopped, Marks, SlotState, Thread
<1>3. CASE ShowDisabled
  BY <1>0, <1>1, <1>3 DEF ShowDisabled, ShowsDisabled, SlotState, Thread
<1>4. CASE EndChild
  <2>1. thread[Worker].child \in Children
    BY <1>1, <1>4 DEF EndChild, HostTyped, StartersTyped, StopHolds, Thread
  <2> QED
    BY <1>0, <1>1, <1>4, <2>1 DEF EndChild, EndsIt, HostTyped, HostDataTyped, Thread
<1>5. CASE EndWait
  BY <1>0, <1>1, <1>5 DEF EndWait, WaitsForEnd, Thread
<1>6. CASE AfterStop
  BY <1>0, <1>1, <1>6 DEF AfterStop, GoesOnAfterStop, SlotState, Thread
<1> QED
  BY <1>2, <1>3, <1>4, <1>5, <1>6

\* The four records keep their fields' types, whatever a thread does.
LEMMA DataStarter ==
  ASSUME HostTyped, NEW t \in Actors, StartMoves(t),
         UNCHANGED <<known, posted, asks, enabled, dirty, outdated>>
  PROVE  HostDataTyped'
<1> USE DEF ShowAs, Set, Turn, End, Stray, railVars
<1>0. thread[t].at \in StartStages
  BY StarterMoves
<1>1. /\ thread \in [Actors -> Thread] /\ slot \in [Slots -> SlotState]
      /\ thread[t] \in Thread /\ thread[t].slot \in Slots /\ Of(t) \in SlotState
      /\ child \in [Children -> [at : {"unborn", "greeting", "up", "ended"}, of : Slots \cup {None}]]
      /\ {"starting", "running", "disabled", "broken"} \subseteq Statuses
  BY <1>0, OnDuty DEF StartStages, OffDuty, HostTyped, HostDataTyped, Statuses
<1>2. /\ \A stage \in {"idle", "over"} : AtEase(stage) \in Thread
      /\ \A stage \in {"bumped", "spawning", "greeting", "greeted", "activate", "watching"} :
           stage \in AllStages
  BY DEF AtEase, Thread, AllStages, StartStages, WorkerStages, WaiterStages, HostJobs
<1>3. ASSUME NEW status \in {"starting", "running", "disabled", "broken"}, ShowAs(t, status)
      PROVE  slot' \in [Slots -> SlotState]
  BY <1>1, <1>3 DEF SlotState
<1>4. ASSUME End(t) PROVE thread' \in [Actors -> Thread]
  BY <1>1, <1>2, <1>4
<1>5. ASSUME NEW stage \in {"bumped", "spawning", "greeting", "greeted"}, Turn(t, stage)
      PROVE  thread' \in [Actors -> Thread]
  BY <1>1, <1>2, <1>5 DEF Thread
<1>6. SUFFICES /\ slot' \in [Slots -> SlotState] /\ thread' \in [Actors -> Thread]
               /\ child' \in [Children -> [at : {"unborn", "greeting", "up", "ended"},
                                           of : Slots \cup {None}]]
               /\ calls' = calls /\ mail' = mail /\ panel' = panel /\ strays' \subseteq Strays
  BY DEF HostTyped, HostDataTyped
<1> USE DEF HostTyped, HostDataTyped
<1>7. CASE FailToVerify(t)
  BY <1>1, <1>3, <1>4, <1>7 DEF FailToVerify
<1>8. CASE Bump(t)
  <2>4. Of(t).generation + 1 \in Nat
    BY <1>1 DEF SlotState
  <2>5. PICK n \in Nat : n = Of(t).generation + 1
    BY <2>4
  <2>6. [Of(t) EXCEPT !.generation = n, !.expected = FALSE, !.live = None] \in SlotState
    BY <1>1 DEF SlotState
  <2>1. [Of(t) EXCEPT !.generation = @ + 1, !.expected = FALSE, !.live = None] \in SlotState
    BY <1>1, <2>5, <2>6 DEF SlotState
  <2>2. [thread[t] EXCEPT !.at = "bumped", !.generation = Of(t).generation + 1] \in Thread
    BY <1>1, <1>2, <2>4 DEF Thread
  <2>3. thread' = [thread EXCEPT ![t] = [thread[t] EXCEPT !.at = "bumped", !.generation = Of(t).generation + 1]]
    BY <1>1, <1>8 DEF Bump
  <2> QED
    BY <1>1, <1>8, <2>1, <2>2, <2>3 DEF Bump
<1>9. CASE ShowStarting(t)
  BY <1>1, <1>3, <1>5, <1>9 DEF ShowStarting
<1>10. CASE SpawnChild(t)
  <2>1. PICK k \in Children :
          /\ child' = [child EXCEPT ![k] = [at |-> "greeting", of |-> thread[t].slot]]
          /\ thread' = [thread EXCEPT ![t].at = "greeting", ![t].child = k]
    BY <1>10 DEF SpawnChild
  <2>2. [thread[t] EXCEPT !.at = "greeting", !.child = k] \in Thread
    BY <1>1, <1>2 DEF Thread
  <2>3. thread' = [thread EXCEPT ![t] = [thread[t] EXCEPT !.at = "greeting", !.child = k]]
    BY <1>1, <2>1
  <2>4. thread' \in [Actors -> Thread]
    BY <1>1, <2>2, <2>3
  <2> QED
    BY <1>1, <1>10, <2>1, <2>4 DEF SpawnChild
<1>11. CASE SpawnFails(t)
  BY <1>1, <1>3, <1>4, <1>11 DEF SpawnFails
<1>12. CASE GreetFails(t)
  <2>1. slot' \in [Slots -> SlotState] /\ thread' \in [Actors -> Thread]
    BY <1>1, <1>3, <1>4, <1>12 DEF GreetFails
  <2> QED
    BY ZenonT(40), <1>1, <1>12, <2>1 DEF GreetFails
<1>13. CASE Greet(t)
  <2>1. thread[t].child \in Children /\ thread' \in [Actors -> Thread]
    BY <1>5, <1>13 DEF Greet, Alive
  <2>2. slot' \in [Slots -> SlotState]
    BY <1>1, <1>13, <2>1 DEF Greet, SlotState
  <2> QED
    BY <1>1, <1>13, <2>1, <2>2 DEF Greet
<1>14. CASE Serve(t)
  <2>1. slot' \in [Slots -> SlotState]
    BY <1>1, <1>3, <1>14 DEF Serve
  <2>2. [AtEase("watching") EXCEPT !.slot = thread[t].slot, !.generation = thread[t].generation] \in Thread
    BY <1>1, <1>2 DEF AtEase, Thread, HostJobs
  <2>3. (IF t = Worker THEN [thread[t] EXCEPT !.at = Served(t)] ELSE AtEase("over")) \in Thread
    BY <1>1, <1>2 DEF Thread, Served
  <2>4. thread' \in [Actors -> Thread]
    BY <1>1, <1>14, <2>2, <2>3 DEF Serve
  <2> QED
    BY <1>1, <1>14, <2>1, <2>4 DEF Serve, Strays
<1> QED
  BY <1>7, <1>8, <1>9, <1>10, <1>11, <1>12, <1>13, <1>14 DEF StartMoves

\* Whatever a thread that waits does.
LEMMA DataWaiter ==
  ASSUME HostTyped, NEW k \in Children,
         ChildDies(k) \/ NoticeExit(k) \/ SendGone(k) \/ JudgeCrash(k) \/ WakeUp(k),
         UNCHANGED <<known, posted, asks, enabled, dirty, outdated>>
  PROVE  HostDataTyped'
<1> USE DEF ShowAs, Set, Turn, End, Stray, railVars
<1>0. k \in Actors /\ k # Worker /\ thread \in [Actors -> Thread] /\ slot \in [Slots -> SlotState]
      /\ thread[k] \in Thread
      /\ AtEase("over") \in Thread /\ {"parting", "falling", "deciding", "waiting", "verify"} \subseteq AllStages
  BY Numbers DEF HostTyped, HostDataTyped, AtEase, Thread, AllStages, StartStages, WaiterStages, HostJobs
<1>1. thread[k].at \notin OffDuty => thread[k].slot \in Slots /\ Of(k) \in SlotState
  BY <1>0, OnDuty
<1>8. /\ End(k) => thread' \in [Actors -> Thread]
      /\ \A stage \in {"parting", "falling", "deciding", "waiting", "verify"} :
           Turn(k, stage) => thread' \in [Actors -> Thread]
  BY <1>0 DEF Thread
<1>2. SUFFICES /\ slot' \in [Slots -> SlotState] /\ thread' \in [Actors -> Thread]
               /\ child' \in [Children -> [at : {"unborn", "greeting", "up", "ended"},
                                           of : Slots \cup {None}]]
               /\ calls' \subseteq calls /\ mail' = mail /\ panel' \in Children \cup {None}
               /\ strays' \subseteq Strays
  BY DEF HostTyped, HostDataTyped
<1> USE DEF HostTyped, HostDataTyped
<1>3. CASE ChildDies(k)
  BY <1>3 DEF ChildDies
<1>4. CASE NoticeExit(k)
  <2>1. thread[k].slot \in Slots /\ Of(k) \in SlotState
    BY <1>1, <1>4 DEF NoticeExit, OffDuty
  <2>4. [Of(k) EXCEPT !.live = None] \in SlotState
    BY <2>1 DEF SlotState
  <2>2. slot' \in [Slots -> SlotState]
    BY <1>0, <1>4, <2>1, <2>4 DEF NoticeExit
  <2>3. thread' \in [Actors -> Thread]
    BY <1>4, <1>8 DEF NoticeExit
  <2> QED
    BY <1>4, <2>2, <2>3 DEF NoticeExit
<1>5. CASE SendGone(k)
  <2>1. thread' \in [Actors -> Thread]
    BY <1>5, <1>8 DEF SendGone
  <2> QED
    BY <1>0, <1>5, <2>1 DEF SendGone, Strays
<1>6. CASE JudgeCrash(k)
  <2>1. thread[k].slot \in Slots /\ Of(k) \in SlotState
    BY <1>1, <1>6 DEF JudgeCrash, OffDuty
  <2>2. PICK recent \in 0 .. Of(k).crashes :
       IF recent < MaxRestarts
       THEN /\ Set(k, [Of(k) EXCEPT !.status = "crashed", !.crashes = recent + 1])
            /\ Turn(k, "waiting")
       ELSE /\ Set(k, [Of(k) EXCEPT !.status = "disabled", !.crashes = recent])
            /\ End(k)
    BY <1>6 DEF JudgeCrash
  <2>3. MaxRestarts \in Nat /\ Of(k).crashes \in 0 .. MaxRestarts
    BY <2>1, HostAssumption DEF SlotState
  <2>4. recent \in 0 .. MaxRestarts /\ (recent < MaxRestarts => recent + 1 \in 0 .. MaxRestarts)
    BY <2>3
  <2>5. [Of(k) EXCEPT !.status = "disabled", !.crashes = recent] \in SlotState
    BY <2>1, <2>4 DEF SlotState, Statuses
  <2>6. recent < MaxRestarts =>
          [Of(k) EXCEPT !.status = "crashed", !.crashes = recent + 1] \in SlotState
    BY <2>1, <2>4 DEF SlotState, Statuses
  <2>7. slot' \in [Slots -> SlotState]
    BY <1>0, <2>1, <2>2, <2>5, <2>6
  <2>8. thread' \in [Actors -> Thread]
    BY <1>8, <2>2
  <2> QED
    BY <1>6, <2>7, <2>8 DEF JudgeCrash, Strays
<1>7. CASE WakeUp(k)
  <2>1. thread' \in [Actors -> Thread]
    BY <1>7, <1>8 DEF WakeUp
  <2> QED
    BY <1>7, <2>1 DEF WakeUp
<1> QED
  BY <1>3, <1>4, <1>5, <1>6, <1>7

\* Whatever job the worker takes on, and however it ends it.
LEMMA DataWorker ==
  ASSUME HostTyped,
         \/ TakeJob \/ Sweep
         \/ /\ CallActivate \/ CallEnds \/ MarkStop \/ ShowDisabled \/ EndChild \/ EndWait
                 \/ AfterStop
            /\ UNCHANGED <<known, posted, asks>>,
         UNCHANGED <<enabled, dirty, outdated>>
  PROVE  HostDataTyped'
<1> USE DEF ShowAs, Set, Turn, End, Stray, railVars
<1>0. /\ Worker \in Actors /\ thread \in [Actors -> Thread] /\ slot \in [Slots -> SlotState]
      /\ thread[Worker] \in Thread /\ AtEase("idle") \in Thread
      /\ {"asking", "marked", "stopping", "lingering", "stopped", "verify"} \subseteq AllStages
      /\ thread[Worker].at # "idle" => thread[Worker].slot \in Slots /\ Of(Worker) \in SlotState
  <2>1. thread[Worker].at # "idle" => thread[Worker].at \notin OffDuty
    BY DEF HostTyped, ThreadsTyped, WorkerFits, OffDuty, StartStages, WorkerStages
  <2> QED
    BY <2>1, OnDuty, Numbers DEF HostTyped, HostDataTyped, AtEase, Thread, AllStages, StartStages, WorkerStages, HostJobs
<1>1. ASSUME NEW job \in HostJobs, NEW stage \in {"activate", "verify", "mark"}, NEW s \in Slots,
             Assign(job, stage, s)
      PROVE  thread' \in [Actors -> Thread]
  <2>1. [AtEase(stage) EXCEPT !.job = job, !.slot = s] \in Thread
    BY DEF AtEase, Thread, AllStages, StartStages, WorkerStages
  <2> QED
    BY <1>0, <1>1, <2>1 DEF Assign
<1>2. {"start", "remove", "refresh", "sweep"} \subseteq HostJobs /\ None \notin Slots
  BY Numbers DEF HostJobs
<1> USE DEF HostTyped, HostDataTyped
<1>3. CASE TakeJob
  <2>1. /\ posted' \in Seq({"start", "remove", "refresh"}) /\ UNCHANGED <<slot, child, calls, mail, panel, asks>>
        /\ TakeStart \/ TakeRemove \/ TakeRefresh
    <3>1. posted' = Tail(posted) /\ posted # <<>> /\ Head(posted) \in {"start", "remove", "refresh"}
      BY <1>3 DEF TakeJob
    <3>2. posted' \in Seq({"start", "remove", "refresh"})
      BY <3>1
    <3> QED
      BY <1>3, <3>1, <3>2 DEF TakeJob
  <2>2. CASE TakeStart
    <3>1. thread' \in [Actors -> Thread] /\ known' \in Slots \cup {None}
      <4>1. CASE IsLive(known) /\ Assign("start", "activate", known) /\ UNCHANGED <<known, strays>>
        BY <1>1, <1>2, <4>1 DEF IsLive
      <4>2. CASE \E s \in Slots : Free(s) /\ known' = s /\ Assign("start", "verify", s)
        BY <1>1, <1>2, <4>2
      <4> QED
        BY <2>2, <4>1, <4>2 DEF TakeStart
    <3>2. strays' \subseteq Strays
      BY <2>2 DEF TakeStart, Strays
    <3> QED
      BY <2>1, <3>1, <3>2
  <2>3. CASE TakeRemove
    <3>1. thread' \in [Actors -> Thread]
      BY <1>1, <1>2, <2>3 DEF TakeRemove
    <3> QED
      BY <2>1, <2>3, <3>1 DEF TakeRemove
  <2>4. CASE TakeRefresh
    <3>1. thread' \in [Actors -> Thread]
      BY <1>1, <1>2, <2>4 DEF TakeRefresh, Stale, IsLive
    <3>2. strays' \subseteq Strays
      BY <2>4 DEF TakeRefresh, Strays
    <3> QED
      BY <2>1, <2>4, <3>1, <3>2 DEF TakeRefresh
  <2> QED
    BY <2>1, <2>2, <2>3, <2>4
<1>4. CASE Sweep
  <2>1. thread' \in [Actors -> Thread]
    BY <1>1, <1>2, <1>4 DEF Sweep, IsLive
  <2>2. strays' = strays /\ asks' \in 0 .. MaxAsks
    BY <1>4, HostAssumption DEF Sweep
  <2> QED
    BY <1>4, <2>1, <2>2 DEF Sweep
<1>5. CASE (CallActivate \/ CallEnds) /\ UNCHANGED <<known, posted, asks>>
  <2>1. [thread[Worker] EXCEPT !.at = "asking"] \in Thread
    BY <1>0 DEF Thread
  <2>2. thread' \in [Actors -> Thread]
    BY <1>0, <1>5, <2>1 DEF CallActivate, CallEnds
  <2>3. calls' \subseteq Children
    BY <1>5 DEF CallActivate, CallEnds, Alive
  <2> QED
    BY <1>5, <2>2, <2>3 DEF CallActivate, CallEnds
<1>6. CASE MarkStop /\ UNCHANGED <<known, posted, asks>>
  <2>1. thread[Worker].slot \in Slots /\ Of(Worker) \in SlotState
    BY <1>0, <1>6 DEF MarkStop
  <2>2. thread' \in [Actors -> Thread]
    BY <1>0, <1>6, <2>1 DEF MarkStop, Thread, SlotState
  <2>3. slot' \in [Slots -> SlotState]
    BY <1>0, <1>6, <2>1 DEF MarkStop, Stopped, SlotState
  <2>4. strays' \subseteq Strays
    BY <1>6 DEF MarkStop, Strays
  <2> QED
    BY <1>6, <2>2, <2>3, <2>4 DEF MarkStop
<1>7. CASE ShowDisabled /\ UNCHANGED <<known, posted, asks>>
  <2>1. thread[Worker].slot \in Slots /\ Of(Worker) \in SlotState
    BY <1>0, <1>7 DEF ShowDisabled
  <2>2. thread' \in [Actors -> Thread]
    BY <1>0, <1>7 DEF ShowDisabled, Thread
  <2>3. slot' \in [Slots -> SlotState]
    BY <1>0, <1>7, <2>1 DEF ShowDisabled, SlotState, Statuses
  <2> QED
    BY <1>7, <2>2, <2>3 DEF ShowDisabled
<1>8. CASE EndChild /\ UNCHANGED <<known, posted, asks>>
  <2>1. thread' \in [Actors -> Thread]
    BY <1>0, <1>8 DEF EndChild, Thread
  <2> QED
    BY <1>8, <2>1 DEF EndChild
<1>9. CASE EndWait /\ UNCHANGED <<known, posted, asks>>
  <2>1. thread' \in [Actors -> Thread]
    BY <1>0, <1>9 DEF EndWait, Thread
  <2>2. strays' \subseteq Strays
    BY <1>9 DEF EndWait, Strays
  <2> QED
    BY <1>9, <2>1, <2>2 DEF EndWait
<1>10. CASE AfterStop /\ UNCHANGED <<known, posted, asks>>
  <2>1. thread[Worker].slot \in Slots /\ Of(Worker) \in SlotState
    BY <1>0, <1>10 DEF AfterStop
  <2>2. /\ Turn(Worker, "verify") => thread' \in [Actors -> Thread]
        /\ End(Worker) => thread' \in [Actors -> Thread]
    <3>1. [thread[Worker] EXCEPT !.at = "verify"] \in Thread
      BY <1>0 DEF Thread
    <3> QED
      BY <1>0, <3>1
  <2>5. 0 \in 0 .. MaxRestarts
    BY HostAssumption
  <2>3. [Of(Worker) EXCEPT !.crashes = 0] \in SlotState
    BY <2>1, <2>5 DEF SlotState
  <2>4. slot' \in [Slots -> SlotState] /\ thread' \in [Actors -> Thread]
    BY <1>0, <1>10, <2>1, <2>2, <2>3 DEF AfterStop
  <2> QED
    BY <1>10, <2>4 DEF AfterStop
<1> QED
  BY <1>3, <1>4, <1>5, <1>6, <1>7, <1>8, <1>9, <1>10

\* Whatever the window does.
LEMMA DataWindow ==
  ASSUME HostTyped, Enable \/ Reconcile \/ MoveServer
  PROVE  HostDataTyped'
<1> USE DEF HostTyped, HostDataTyped, Stray, railVars
<1>1. CASE Enable
  <2>1. asks' \in 0 .. MaxAsks
    BY <1>1, HostAssumption DEF Enable
  <2> QED
    BY <1>1, <2>1 DEF Enable
<1>2. CASE Reconcile
  <2>1. posted' \in Seq({"start", "remove", "refresh"})
    BY <1>2 DEF Reconcile
  <2>2. strays' \subseteq Strays
    BY <1>2 DEF Reconcile, Strays
  <2> QED
    BY <1>2, <2>1, <2>2 DEF Reconcile
<1>3. CASE MoveServer
  <2>1. asks' \in 0 .. MaxAsks /\ outdated' \subseteq Children
    BY <1>3, HostAssumption DEF MoveServer
  <2>2. posted' \in Seq({"start", "remove", "refresh"})
    BY <1>3 DEF MoveServer
  <2> QED
    BY <1>3, <2>1, <2>2 DEF MoveServer
<1> QED
  BY <1>1, <1>2, <1>3

\* Whatever a start comes to, threads, processes and starts go together as before.
LEMMA StarterTyped ==
  ASSUME HostTyped, HostDataTyped', NEW t \in Actors, StarterDoes(t), thread[t].at \in StartStages,
         UNCHANGED <<known, outdated>>
  PROVE  HostTyped'
<1>0. /\ WorkerFits /\ (\A k \in Children : WaiterFits(k)) /\ (\A k \in Children : ChildFits(k))
      /\ (\A r \in Slots : SlotFits(r)) /\ (\A u \in Actors : GreetFits(u)) /\ GreetApart
      /\ (\A k \in Children : Tended(k)) /\ StopHolds /\ WorksOnKnown
  BY DEF HostTyped, ThreadsTyped, ChildrenTyped, StartersTyped
<1>9. /\ \A u \in Actors : thread[u].generation \in Nat /\ thread[u].slot \in Slots \cup {None}
                            /\ thread[u].child \in Children \cup {None}
      /\ \A r \in Slots : slot[r].generation \in Nat /\ slot'[r].generation \in Nat /\ slot[r].live \in Children \cup {None}
      /\ \A k \in Children : child[k].at \in {"unborn", "greeting", "up", "ended"}
  BY DEF HostTyped, HostDataTyped, Thread, SlotState
<1>10. (t = Worker \/ t \in Children) /\ thread[t].slot \in Slots
  BY <1>0, Numbers DEF StartStages, WorkerFits, WaiterFits, OffDuty
<1>1. ASSUME GivesUp(t) PROVE HostTyped'
  <2>1. /\ thread[t].at \in {"verify", "spawning", "greeting"}
        /\ \A u \in Actors : u # t => thread'[u] = thread[u]
        /\ thread'[t].at = (IF t = Worker THEN "idle" ELSE "over") /\ thread'[t].job = "none"
        /\ \A r \in Slots : slot'[r].live = slot[r].live
        /\ \A r \in Slots : slot'[r].generation = slot[r].generation
        /\ \A k \in Children : child'[k].of = child[k].of
        /\ \A k \in Children : child'[k].at = child[k].at \/
                  (child'[k].at = "ended" /\ thread[t].at = "greeting" /\ k = thread[t].child)
        /\ thread[t].at = "greeting" => child'[thread[t].child].at = "ended"
    BY <1>9, <1>10, <1>1, Numbers DEF GivesUp, OnlyThread, OnlySlot, OnlyChild, SameThread, SameSlot, EndsChild, Rest, AtEase
  <2>2. WorkerFits'
    BY <1>0, <1>9, <1>10, <2>1, Numbers DEF WorkerFits, StartStages, WorkerStages, Of
  <2>3. ASSUME NEW k \in Children PROVE WaiterFits(k)'
    BY <1>0, <1>9, <1>10, <2>1, <2>3, Numbers DEF WaiterFits, WorkerFits, StartStages, WaiterStages, OffDuty, Of
  <2>4. ASSUME NEW k \in Children PROVE ChildFits(k)'
    BY <1>0, <1>9, <1>10, <2>1, <2>4, Numbers DEF ChildFits, GreetFits, Greets, OffDuty
  <2>5. ASSUME NEW r \in Slots PROVE SlotFits(r)'
    BY <1>0, <1>9, <1>10, <2>1, <2>5, Numbers DEF SlotFits, GreetFits, Greets
  <2>6. ASSUME NEW u \in Actors PROVE GreetFits(u)'
    BY <1>0, <1>9, <1>10, <2>1, <2>6, Numbers DEF GreetFits, GreetApart, ChildFits, Greets
  <2>7. GreetApart'
    BY <1>0, <1>9, <1>10, <2>1, Numbers DEF GreetApart, GreetFits, ChildFits, Greets
  <2>8. ASSUME NEW k \in Children PROVE Tended(k)'
    BY <1>0, <1>9, <1>10, <2>1, <2>8, Numbers DEF Tended, Alive, GreetFits, Greets
  <2>9. StopHolds'
    BY <1>0, <1>9, <1>10, <2>1, Numbers DEF StopHolds, ChildFits, SlotFits
  <2>10. WorksOnKnown'
    BY <1>0, <1>9, <1>10, <2>1, Numbers DEF WorksOnKnown, WorkerFits
  <2> QED
    BY <2>2, <2>3, <2>4, <2>5, <2>6, <2>7, <2>8, <2>9, <2>10 DEF HostTyped, ThreadsTyped, ChildrenTyped, StartersTyped
<1>2. ASSUME Bumps(t) PROVE HostTyped'
  <2>1. /\ thread[t].at = "verify" /\ thread'[t].at = "bumped"
        /\ \A u \in Actors : u # t => thread'[u] = thread[u]
        /\ thread'[t].slot = thread[t].slot /\ thread'[t].job = thread[t].job
        /\ thread'[t].generation = slot'[thread[t].slot].generation
        /\ \A r \in Slots : slot'[r].live = slot[r].live \/ slot'[r].live = None
        /\ \A r \in Slots : slot[r].generation <= slot'[r].generation
        /\ UNCHANGED child
    BY <1>9, <1>10, <1>2, Numbers DEF Bumps, Of, OnlyThread, OnlySlot, OnlyChild, SameThread, SameSlot, EndsChild, Rest, AtEase
  <2>2. WorkerFits'
    BY <1>0, <1>9, <1>10, <2>1, Numbers DEF WorkerFits, StartStages, WorkerStages, Of
  <2>3. ASSUME NEW k \in Children PROVE WaiterFits(k)'
    BY <1>0, <1>9, <1>10, <2>1, <2>3, Numbers DEF WaiterFits, WorkerFits, StartStages, WaiterStages, OffDuty, Of
  <2>4. ASSUME NEW k \in Children PROVE ChildFits(k)'
    BY <1>0, <1>9, <1>10, <2>1, <2>4, Numbers DEF ChildFits, GreetFits, Greets, OffDuty
  <2>5. ASSUME NEW r \in Slots PROVE SlotFits(r)'
    BY <1>0, <1>9, <1>10, <2>1, <2>5, Numbers DEF SlotFits, GreetFits, Greets
  <2>6. ASSUME NEW u \in Actors PROVE GreetFits(u)'
    BY <1>0, <1>9, <1>10, <2>1, <2>6, Numbers DEF GreetFits, GreetApart, ChildFits, Greets
  <2>7. GreetApart'
    BY <1>0, <1>9, <1>10, <2>1, Numbers DEF GreetApart, GreetFits, ChildFits, Greets
  <2>8. ASSUME NEW k \in Children PROVE Tended(k)'
    BY <1>0, <1>9, <1>10, <2>1, <2>8, Numbers DEF Tended, Alive, GreetFits, Greets
  <2>9. StopHolds'
    BY <1>0, <1>9, <1>10, <2>1, Numbers DEF StopHolds, ChildFits, SlotFits
  <2>10. WorksOnKnown'
    BY <1>0, <1>9, <1>10, <2>1, Numbers DEF WorksOnKnown, WorkerFits
  <2> QED
    BY <2>2, <2>3, <2>4, <2>5, <2>6, <2>7, <2>8, <2>9, <2>10 DEF HostTyped, ThreadsTyped, ChildrenTyped, StartersTyped
<1>3. ASSUME ShowsStarting(t) PROVE HostTyped'
  <2>1. /\ thread[t].at = "bumped" /\ thread'[t].at = "spawning"
        /\ \A u \in Actors : u # t => thread'[u] = thread[u]
        /\ thread'[t].slot = thread[t].slot /\ thread'[t].job = thread[t].job
        /\ thread'[t].generation = thread[t].generation /\ thread'[t].child = thread[t].child
        /\ \A r \in Slots : slot'[r].live = slot[r].live
        /\ \A r \in Slots : slot'[r].generation = slot[r].generation
        /\ UNCHANGED child
    BY <1>9, <1>10, <1>3, Numbers DEF ShowsStarting, OnlyThread, OnlySlot, OnlyChild, SameThread, SameSlot, EndsChild, Rest, AtEase
  <2>2. WorkerFits'
    BY <1>0, <1>9, <1>10, <2>1, Numbers DEF WorkerFits, StartStages, WorkerStages, Of
  <2>3. ASSUME NEW k \in Children PROVE WaiterFits(k)'
    BY <1>0, <1>9, <1>10, <2>1, <2>3, Numbers DEF WaiterFits, WorkerFits, StartStages, WaiterStages, OffDuty, Of
  <2>4. ASSUME NEW k \in Children PROVE ChildFits(k)'
    BY <1>0, <1>9, <1>10, <2>1, <2>4, Numbers DEF ChildFits, GreetFits, Greets, OffDuty
  <2>5. ASSUME NEW r \in Slots PROVE SlotFits(r)'
    BY <1>0, <1>9, <1>10, <2>1, <2>5, Numbers DEF SlotFits, GreetFits, Greets
  <2>6. ASSUME NEW u \in Actors PROVE GreetFits(u)'
    BY <1>0, <1>9, <1>10, <2>1, <2>6, Numbers DEF GreetFits, GreetApart, ChildFits, Greets
  <2>7. GreetApart'
    BY <1>0, <1>9, <1>10, <2>1, Numbers DEF GreetApart, GreetFits, ChildFits, Greets
  <2>8. ASSUME NEW k \in Children PROVE Tended(k)'
    BY <1>0, <1>9, <1>10, <2>1, <2>8, Numbers DEF Tended, Alive, GreetFits, Greets
  <2>9. StopHolds'
    BY <1>0, <1>9, <1>10, <2>1, Numbers DEF StopHolds, ChildFits, SlotFits
  <2>10. WorksOnKnown'
    BY <1>0, <1>9, <1>10, <2>1, Numbers DEF WorksOnKnown, WorkerFits
  <2> QED
    BY <2>2, <2>3, <2>4, <2>5, <2>6, <2>7, <2>8, <2>9, <2>10 DEF HostTyped, ThreadsTyped, ChildrenTyped, StartersTyped
<1>4. ASSUME NEW k0 \in Children, Spawns(t, k0) PROVE HostTyped'
  <2>1. /\ thread[t].at = "spawning" /\ thread'[t].at = "greeting"
        /\ \A u \in Actors : u # t => thread'[u] = thread[u]
        /\ thread'[t].slot = thread[t].slot /\ thread'[t].job = thread[t].job
        /\ thread'[t].generation = thread[t].generation /\ thread'[t].child = k0
        /\ UNCHANGED slot
        /\ k0 \in Children /\ child[k0].at = "unborn" /\ child'[k0].at = "greeting" /\ child'[k0].of = thread[t].slot
        /\ \A k \in Children : k # k0 => child'[k] = child[k]
    BY <1>9, <1>10, <1>4, Numbers DEF Spawns, OnlyThread, OnlySlot, OnlyChild, SameThread, SameSlot, EndsChild, Rest, AtEase
  <2>2. WorkerFits'
    BY <1>0, <1>9, <1>10, <2>1, Numbers DEF WorkerFits, StartStages, WorkerStages, Of
  <2>3. ASSUME NEW k \in Children PROVE WaiterFits(k)'
    BY <1>0, <1>9, <1>10, <2>1, <2>3, Numbers DEF WaiterFits, WorkerFits, StartStages, WaiterStages, OffDuty, Of
  <2>4. ASSUME NEW k \in Children PROVE ChildFits(k)'
    BY <1>0, <1>9, <1>10, <2>1, <2>4, Numbers DEF ChildFits, GreetFits, Greets, OffDuty
  <2>5. ASSUME NEW r \in Slots PROVE SlotFits(r)'
    BY <1>0, <1>9, <1>10, <2>1, <2>5, Numbers DEF SlotFits, GreetFits, Greets
  <2>6. ASSUME NEW u \in Actors PROVE GreetFits(u)'
    BY <1>0, <1>9, <1>10, <2>1, <2>6, Numbers DEF GreetFits, GreetApart, ChildFits, Greets
  <2>7. GreetApart'
    BY <1>0, <1>9, <1>10, <2>1, Numbers DEF GreetApart, GreetFits, ChildFits, Greets
  <2>8. ASSUME NEW k \in Children PROVE Tended(k)'
    BY <1>0, <1>9, <1>10, <2>1, <2>8, Numbers DEF Tended, Alive, GreetFits, Greets
  <2>9. StopHolds'
    BY <1>0, <1>9, <1>10, <2>1, Numbers DEF StopHolds, ChildFits, SlotFits
  <2>10. WorksOnKnown'
    BY <1>0, <1>9, <1>10, <2>1, Numbers DEF WorksOnKnown, WorkerFits
  <2> QED
    BY <2>2, <2>3, <2>4, <2>5, <2>6, <2>7, <2>8, <2>9, <2>10 DEF HostTyped, ThreadsTyped, ChildrenTyped, StartersTyped
<1>5. ASSUME Greeted(t) PROVE HostTyped'
  <2>0. thread[t].child \in Children
    BY <1>5 DEF Greeted, Alive
  <2>1. /\ thread[t].child \in Children
        /\ thread[t].at = "greeting" /\ thread'[t].at = "greeted"
        /\ \A u \in Actors : u # t => thread'[u] = thread[u]
        /\ thread'[t].slot = thread[t].slot /\ thread'[t].job = thread[t].job
        /\ thread'[t].generation = thread[t].generation /\ thread'[t].child = thread[t].child
        /\ \A r \in Slots : slot'[r].generation = slot[r].generation
        /\ slot'[thread[t].slot].live = thread[t].child
        /\ \A r \in Slots : r # thread[t].slot => slot'[r].live = slot[r].live
        /\ \A k \in Children : child'[k].of = child[k].of
        /\ child'[thread[t].child].at = "up"
        /\ \A k \in Children : k # thread[t].child => child'[k].at = child[k].at
    <3>1. /\ child'[thread[t].child].at = "up" /\ child'[thread[t].child].of = child[thread[t].child].of
          /\ \A k \in Children : k # thread[t].child => child'[k] = child[k]
      BY <1>5 DEF Greeted, OnlyChild
    <3>2. /\ thread[t].at = "greeting" /\ thread'[t].at = "greeted"
          /\ \A u \in Actors : u # t => thread'[u] = thread[u]
          /\ thread'[t].slot = thread[t].slot /\ thread'[t].job = thread[t].job
          /\ thread'[t].generation = thread[t].generation /\ thread'[t].child = thread[t].child
      BY <1>5 DEF Greeted, OnlyThread, SameThread
    <3>3. /\ \A r \in Slots : slot'[r].generation = slot[r].generation
          /\ slot'[thread[t].slot].live = thread[t].child
          /\ \A r \in Slots : r # thread[t].slot => slot'[r].live = slot[r].live
      BY <1>5, <1>10 DEF Greeted, OnlySlot, Of
    <3> QED
      BY <2>0, <3>1, <3>2, <3>3
  <2>2. WorkerFits'
    BY <1>0, <1>9, <1>10, <2>1, Numbers DEF WorkerFits, StartStages, WorkerStages, Of
  <2>3. ASSUME NEW k \in Children PROVE WaiterFits(k)'
    BY <1>0, <1>9, <1>10, <2>1, <2>3, Numbers DEF WaiterFits, WorkerFits, StartStages, WaiterStages, OffDuty, Of
  <2>4. ASSUME NEW k \in Children PROVE ChildFits(k)'
    BY <1>0, <1>9, <1>10, <2>1, <2>4, Numbers DEF ChildFits, GreetFits, Greets, OffDuty
  <2>5. ASSUME NEW r \in Slots PROVE SlotFits(r)'
    BY <1>0, <1>9, <1>10, <2>1, <2>5, Numbers DEF SlotFits, GreetFits, Greets
  <2>6. ASSUME NEW u \in Actors PROVE GreetFits(u)'
    BY <1>0, <1>9, <1>10, <2>1, <2>6, Numbers DEF GreetFits, GreetApart, ChildFits, Greets
  <2>7. GreetApart'
    BY <1>0, <1>9, <1>10, <2>1, Numbers DEF GreetApart, GreetFits, ChildFits, Greets
  <2>8. ASSUME NEW k \in Children PROVE Tended(k)'
    BY <1>0, <1>9, <1>10, <2>1, <2>8, Numbers DEF Tended, Alive, GreetFits, Greets
  <2>9. StopHolds'
    BY <1>0, <1>9, <1>10, <2>1, Numbers DEF StopHolds, ChildFits, SlotFits
  <2>10. WorksOnKnown'
    BY <1>0, <1>9, <1>10, <2>1, Numbers DEF WorksOnKnown, WorkerFits
  <2> QED
    BY <2>2, <2>3, <2>4, <2>5, <2>6, <2>7, <2>8, <2>9, <2>10 DEF HostTyped, ThreadsTyped, ChildrenTyped, StartersTyped
<1>6. ASSUME Serves(t) PROVE HostTyped'
  <2>1. /\ thread[t].at = "greeted"
        /\ thread[t].child # t /\ thread[t].child \in Children
        /\ \A u \in Actors : u # t /\ u # thread[t].child => thread'[u] = thread[u]
        /\ IF t = Worker THEN thread'[t].at = "activate" /\ thread'[t].slot = thread[t].slot /\ thread'[t].job = thread[t].job
                           /\ thread'[t].generation = thread[t].generation
           ELSE thread'[t].at = "over" /\ thread'[t].job = "none"
        /\ thread'[thread[t].child].at = "watching" /\ thread'[thread[t].child].slot = thread[t].slot
        /\ thread'[thread[t].child].generation = thread[t].generation /\ thread'[thread[t].child].job = "none"
        /\ \A r \in Slots : slot'[r].live = slot[r].live
        /\ \A r \in Slots : slot'[r].generation = slot[r].generation
        /\ UNCHANGED child
    BY <1>0, <1>9, <1>10, <1>10, <1>6, Numbers DEF Serves, GreetFits, Greets, OnlyThread, OnlySlot, OnlyChild, SameThread, SameSlot, EndsChild, Rest, AtEase
  <2>2. WorkerFits'
    BY <1>0, <1>9, <1>10, <2>1, Numbers DEF WorkerFits, StartStages, WorkerStages, Of
  <2>3. ASSUME NEW k \in Children PROVE WaiterFits(k)'
    BY <1>0, <1>9, <1>10, <2>1, <2>3, Numbers DEF WaiterFits, WorkerFits, StartStages, WaiterStages, OffDuty, Of
  <2>4. ASSUME NEW k \in Children PROVE ChildFits(k)'
    BY <1>0, <1>9, <1>10, <2>1, <2>4, Numbers DEF ChildFits, GreetFits, Greets, OffDuty
  <2>5. ASSUME NEW r \in Slots PROVE SlotFits(r)'
    BY <1>0, <1>9, <1>10, <2>1, <2>5, Numbers DEF SlotFits, GreetFits, Greets
  <2>6. ASSUME NEW u \in Actors PROVE GreetFits(u)'
    BY <1>0, <1>9, <1>10, <2>1, <2>6, Numbers DEF GreetFits, GreetApart, ChildFits, Greets
  <2>7. GreetApart'
    BY <1>0, <1>9, <1>10, <2>1, Numbers DEF GreetApart, GreetFits, ChildFits, Greets
  <2>8. ASSUME NEW k \in Children PROVE Tended(k)'
    BY <1>0, <1>9, <1>10, <2>1, <2>8, Numbers DEF Tended, Alive, GreetFits, Greets
  <2>9. StopHolds'
    BY <1>0, <1>9, <1>10, <2>1, Numbers DEF StopHolds, ChildFits, SlotFits
  <2>10. WorksOnKnown'
    BY <1>0, <1>9, <1>10, <2>1, Numbers DEF WorksOnKnown, WorkerFits
  <2> QED
    BY <2>2, <2>3, <2>4, <2>5, <2>6, <2>7, <2>8, <2>9, <2>10 DEF HostTyped, ThreadsTyped, ChildrenTyped, StartersTyped
<1> QED
  BY <1>1, <1>2, <1>3, <1>4, <1>5, <1>6 DEF StarterDoes

\* The threads that wait keep them so.
LEMMA WaiterTyped ==
  ASSUME HostTyped, HostDataTyped', NEW k0 \in Children, WaiterDoes(k0),
         UNCHANGED <<known, outdated>>
  PROVE  HostTyped'
<1>0. /\ WorkerFits /\ (\A k \in Children : WaiterFits(k)) /\ (\A k \in Children : ChildFits(k))
      /\ (\A r \in Slots : SlotFits(r)) /\ (\A u \in Actors : GreetFits(u)) /\ GreetApart
      /\ (\A k \in Children : Tended(k)) /\ StopHolds /\ WorksOnKnown
  BY DEF HostTyped, ThreadsTyped, ChildrenTyped, StartersTyped
<1>9. /\ \A u \in Actors : thread[u].generation \in Nat /\ thread[u].slot \in Slots \cup {None}
                            /\ thread[u].child \in Children \cup {None}
      /\ \A r \in Slots : slot[r].generation \in Nat /\ slot'[r].generation \in Nat /\ slot[r].live \in Children \cup {None}
      /\ \A k \in Children : child[k].at \in {"unborn", "greeting", "up", "ended"}
  BY DEF HostTyped, HostDataTyped, Thread, SlotState
<1>10. k0 \in Actors /\ k0 # Worker
  BY Numbers
<1>1. ASSUME Dies(k0) PROVE HostTyped'
  <2>1. /\ UNCHANGED <<thread, slot>>
        /\ child[k0].at \in {"greeting", "up"} /\ child'[k0].at = "ended"
        /\ \A k \in Children : child'[k].of = child[k].of
        /\ \A k \in Children : k # k0 => child'[k].at = child[k].at
    BY <1>9, <1>10, <1>1, Numbers DEF Dies, Alive, OnlyThread, OnlySlot, OnlyChild, SameThread, SameSlot, EndsChild, Rest, AtEase
  <2>2. WorkerFits'
    BY <1>0, <1>9, <1>10, <2>1, Numbers DEF WorkerFits, StartStages, WorkerStages, Of
  <2>3. ASSUME NEW k \in Children PROVE WaiterFits(k)'
    BY <1>0, <1>9, <1>10, <2>1, <2>3, Numbers DEF WaiterFits, WorkerFits, StartStages, WaiterStages, OffDuty, Of
  <2>4. ASSUME NEW k \in Children PROVE ChildFits(k)'
    BY <1>0, <1>9, <1>10, <2>1, <2>4, Numbers DEF ChildFits, GreetFits, Greets, OffDuty
  <2>5. ASSUME NEW r \in Slots PROVE SlotFits(r)'
    BY <1>0, <1>9, <1>10, <2>1, <2>5, Numbers DEF SlotFits, GreetFits, Greets
  <2>6. ASSUME NEW u \in Actors PROVE GreetFits(u)'
    BY <1>0, <1>9, <1>10, <2>1, <2>6, Numbers DEF GreetFits, GreetApart, ChildFits, Greets
  <2>7. GreetApart'
    BY <1>0, <1>9, <1>10, <2>1, Numbers DEF GreetApart, GreetFits, ChildFits, Greets
  <2>8. ASSUME NEW k \in Children PROVE Tended(k)'
    BY <1>0, <1>9, <1>10, <2>1, <2>8, Numbers DEF Tended, Alive, GreetFits, Greets
  <2>9. StopHolds'
    BY <1>0, <1>9, <1>10, <2>1, Numbers DEF StopHolds, ChildFits, SlotFits
  <2>10. WorksOnKnown'
    BY <1>0, <1>9, <1>10, <2>1, Numbers DEF WorksOnKnown, WorkerFits
  <2> QED
    BY <2>2, <2>3, <2>4, <2>5, <2>6, <2>7, <2>8, <2>9, <2>10 DEF HostTyped, ThreadsTyped, ChildrenTyped, StartersTyped
<1>2. ASSUME Notices(k0) PROVE HostTyped'
  <2>1. /\ thread[k0].at = "watching" /\ child[k0].at = "ended"
        /\ \A u \in Actors : u # k0 => thread'[u] = thread[u]
        /\ thread'[k0].at \in {"parting", "falling", "over"} /\ thread'[k0].job = "none"
        /\ thread'[k0].at # "over" => thread'[k0].slot = thread[k0].slot /\ thread'[k0].generation = thread[k0].generation
        /\ \A r \in Slots : slot'[r].live = slot[r].live \/ slot'[r].live = None
        /\ \A r \in Slots : slot'[r].generation = slot[r].generation
        /\ UNCHANGED child
    BY <1>0, <1>9, <1>10, <1>10, <1>2, Numbers DEF Notices, Newer, Of, WaiterFits, OffDuty, OnlyThread, OnlySlot, OnlyChild, SameThread, SameSlot, EndsChild, Rest, AtEase
  <2>2. WorkerFits'
    BY <1>0, <1>9, <1>10, <2>1, Numbers DEF WorkerFits, StartStages, WorkerStages, Of
  <2>3. ASSUME NEW k \in Children PROVE WaiterFits(k)'
    BY <1>0, <1>9, <1>10, <2>1, <2>3, Numbers DEF WaiterFits, WorkerFits, StartStages, WaiterStages, OffDuty, Of
  <2>4. ASSUME NEW k \in Children PROVE ChildFits(k)'
    BY <1>0, <1>9, <1>10, <2>1, <2>4, Numbers DEF ChildFits, GreetFits, Greets, OffDuty
  <2>5. ASSUME NEW r \in Slots PROVE SlotFits(r)'
    BY <1>0, <1>9, <1>10, <2>1, <2>5, Numbers DEF SlotFits, GreetFits, Greets
  <2>6. ASSUME NEW u \in Actors PROVE GreetFits(u)'
    BY <1>0, <1>9, <1>10, <2>1, <2>6, Numbers DEF GreetFits, GreetApart, ChildFits, Greets
  <2>7. GreetApart'
    BY <1>0, <1>9, <1>10, <2>1, Numbers DEF GreetApart, GreetFits, ChildFits, Greets
  <2>8. ASSUME NEW k \in Children PROVE Tended(k)'
    BY <1>0, <1>9, <1>10, <2>1, <2>8, Numbers DEF Tended, Alive, GreetFits, Greets
  <2>9. StopHolds'
    BY <1>0, <1>9, <1>10, <2>1, Numbers DEF StopHolds, ChildFits, SlotFits
  <2>10. WorksOnKnown'
    BY <1>0, <1>9, <1>10, <2>1, Numbers DEF WorksOnKnown, WorkerFits
  <2> QED
    BY <2>2, <2>3, <2>4, <2>5, <2>6, <2>7, <2>8, <2>9, <2>10 DEF HostTyped, ThreadsTyped, ChildrenTyped, StartersTyped
<1>3. ASSUME SendsGone(k0) PROVE HostTyped'
  <2>1. /\ thread[k0].at \in {"parting", "falling"}
        /\ \A u \in Actors : u # k0 => thread'[u] = thread[u]
        /\ thread'[k0].at \in {"deciding", "over"} /\ thread'[k0].job = "none"
        /\ thread'[k0].at # "over" => thread'[k0].slot = thread[k0].slot /\ thread'[k0].generation = thread[k0].generation
        /\ UNCHANGED <<slot, child>>
    BY <1>0, <1>9, <1>10, <1>10, <1>3, Numbers DEF SendsGone, WaiterFits, OnlyThread, OnlySlot, OnlyChild, SameThread, SameSlot, EndsChild, Rest, AtEase
  <2>2. WorkerFits'
    BY <1>0, <1>9, <1>10, <2>1, Numbers DEF WorkerFits, StartStages, WorkerStages, Of
  <2>3. ASSUME NEW k \in Children PROVE WaiterFits(k)'
    BY <1>0, <1>9, <1>10, <2>1, <2>3, Numbers DEF WaiterFits, WorkerFits, StartStages, WaiterStages, OffDuty, Of
  <2>4. ASSUME NEW k \in Children PROVE ChildFits(k)'
    BY <1>0, <1>9, <1>10, <2>1, <2>4, Numbers DEF ChildFits, GreetFits, Greets, OffDuty
  <2>5. ASSUME NEW r \in Slots PROVE SlotFits(r)'
    BY <1>0, <1>9, <1>10, <2>1, <2>5, Numbers DEF SlotFits, GreetFits, Greets
  <2>6. ASSUME NEW u \in Actors PROVE GreetFits(u)'
    BY <1>0, <1>9, <1>10, <2>1, <2>6, Numbers DEF GreetFits, GreetApart, ChildFits, Greets
  <2>7. GreetApart'
    BY <1>0, <1>9, <1>10, <2>1, Numbers DEF GreetApart, GreetFits, ChildFits, Greets
  <2>8. ASSUME NEW k \in Children PROVE Tended(k)'
    BY <1>0, <1>9, <1>10, <2>1, <2>8, Numbers DEF Tended, Alive, GreetFits, Greets
  <2>9. StopHolds'
    BY <1>0, <1>9, <1>10, <2>1, Numbers DEF StopHolds, ChildFits, SlotFits
  <2>10. WorksOnKnown'
    BY <1>0, <1>9, <1>10, <2>1, Numbers DEF WorksOnKnown, WorkerFits
  <2> QED
    BY <2>2, <2>3, <2>4, <2>5, <2>6, <2>7, <2>8, <2>9, <2>10 DEF HostTyped, ThreadsTyped, ChildrenTyped, StartersTyped
<1>4. ASSUME Judges(k0) PROVE HostTyped'
  <2>1. /\ thread[k0].at = "deciding"
        /\ \A u \in Actors : u # k0 => thread'[u] = thread[u]
        /\ thread'[k0].at \in {"waiting", "over"} /\ thread'[k0].job = "none"
        /\ thread'[k0].at # "over" => thread'[k0].slot = thread[k0].slot /\ thread'[k0].generation = thread[k0].generation
        /\ \A r \in Slots : slot'[r].live = slot[r].live
        /\ \A r \in Slots : slot'[r].generation = slot[r].generation
        /\ UNCHANGED child
    BY <1>0, <1>9, <1>10, <1>10, <1>4, Numbers DEF Judges, WaiterFits, OffDuty, OnlyThread, OnlySlot, OnlyChild, SameThread, SameSlot, EndsChild, Rest, AtEase
  <2>2. WorkerFits'
    BY <1>0, <1>9, <1>10, <2>1, Numbers DEF WorkerFits, StartStages, WorkerStages, Of
  <2>3. ASSUME NEW k \in Children PROVE WaiterFits(k)'
    BY <1>0, <1>9, <1>10, <2>1, <2>3, Numbers DEF WaiterFits, WorkerFits, StartStages, WaiterStages, OffDuty, Of
  <2>4. ASSUME NEW k \in Children PROVE ChildFits(k)'
    BY <1>0, <1>9, <1>10, <2>1, <2>4, Numbers DEF ChildFits, GreetFits, Greets, OffDuty
  <2>5. ASSUME NEW r \in Slots PROVE SlotFits(r)'
    BY <1>0, <1>9, <1>10, <2>1, <2>5, Numbers DEF SlotFits, GreetFits, Greets
  <2>6. ASSUME NEW u \in Actors PROVE GreetFits(u)'
    BY <1>0, <1>9, <1>10, <2>1, <2>6, Numbers DEF GreetFits, GreetApart, ChildFits, Greets
  <2>7. GreetApart'
    BY <1>0, <1>9, <1>10, <2>1, Numbers DEF GreetApart, GreetFits, ChildFits, Greets
  <2>8. ASSUME NEW k \in Children PROVE Tended(k)'
    BY <1>0, <1>9, <1>10, <2>1, <2>8, Numbers DEF Tended, Alive, GreetFits, Greets
  <2>9. StopHolds'
    BY <1>0, <1>9, <1>10, <2>1, Numbers DEF StopHolds, ChildFits, SlotFits
  <2>10. WorksOnKnown'
    BY <1>0, <1>9, <1>10, <2>1, Numbers DEF WorksOnKnown, WorkerFits
  <2> QED
    BY <2>2, <2>3, <2>4, <2>5, <2>6, <2>7, <2>8, <2>9, <2>10 DEF HostTyped, ThreadsTyped, ChildrenTyped, StartersTyped
<1>5. ASSUME Wakes(k0) PROVE HostTyped'
  <2>1. /\ thread[k0].at = "waiting"
        /\ \A u \in Actors : u # k0 => thread'[u] = thread[u]
        /\ thread'[k0].at \in {"verify", "over"} /\ thread'[k0].job = "none"
        /\ thread'[k0].at # "over" => thread'[k0].slot = thread[k0].slot /\ thread'[k0].generation = thread[k0].generation
        /\ UNCHANGED <<slot, child>>
    BY <1>0, <1>9, <1>10, <1>10, <1>5, Numbers DEF Wakes, WaiterFits, OnlyThread, OnlySlot, OnlyChild, SameThread, SameSlot, EndsChild, Rest, AtEase
  <2>2. WorkerFits'
    BY <1>0, <1>9, <1>10, <2>1, Numbers DEF WorkerFits, StartStages, WorkerStages, Of
  <2>3. ASSUME NEW k \in Children PROVE WaiterFits(k)'
    BY <1>0, <1>9, <1>10, <2>1, <2>3, Numbers DEF WaiterFits, WorkerFits, StartStages, WaiterStages, OffDuty, Of
  <2>4. ASSUME NEW k \in Children PROVE ChildFits(k)'
    BY <1>0, <1>9, <1>10, <2>1, <2>4, Numbers DEF ChildFits, GreetFits, Greets, OffDuty
  <2>5. ASSUME NEW r \in Slots PROVE SlotFits(r)'
    BY <1>0, <1>9, <1>10, <2>1, <2>5, Numbers DEF SlotFits, GreetFits, Greets
  <2>6. ASSUME NEW u \in Actors PROVE GreetFits(u)'
    BY <1>0, <1>9, <1>10, <2>1, <2>6, Numbers DEF GreetFits, GreetApart, ChildFits, Greets
  <2>7. GreetApart'
    BY <1>0, <1>9, <1>10, <2>1, Numbers DEF GreetApart, GreetFits, ChildFits, Greets
  <2>8. ASSUME NEW k \in Children PROVE Tended(k)'
    BY <1>0, <1>9, <1>10, <2>1, <2>8, Numbers DEF Tended, Alive, GreetFits, Greets
  <2>9. StopHolds'
    BY <1>0, <1>9, <1>10, <2>1, Numbers DEF StopHolds, ChildFits, SlotFits
  <2>10. WorksOnKnown'
    BY <1>0, <1>9, <1>10, <2>1, Numbers DEF WorksOnKnown, WorkerFits
  <2> QED
    BY <2>2, <2>3, <2>4, <2>5, <2>6, <2>7, <2>8, <2>9, <2>10 DEF HostTyped, ThreadsTyped, ChildrenTyped, StartersTyped
<1> QED
  BY <1>1, <1>2, <1>3, <1>4, <1>5 DEF WaiterDoes

\* A stop keeps them so.
LEMMA StopTyped ==
  ASSUME HostTyped, HostDataTyped', Marks \/ ShowsDisabled \/ EndsIt \/ WaitsForEnd \/ GoesOnAfterStop,
         UNCHANGED <<known, outdated>>
  PROVE  HostTyped'
<1>0. /\ WorkerFits /\ (\A k \in Children : WaiterFits(k)) /\ (\A k \in Children : ChildFits(k))
      /\ (\A r \in Slots : SlotFits(r)) /\ (\A u \in Actors : GreetFits(u)) /\ GreetApart
      /\ (\A k \in Children : Tended(k)) /\ StopHolds /\ WorksOnKnown
  BY DEF HostTyped, ThreadsTyped, ChildrenTyped, StartersTyped
<1>9. /\ \A u \in Actors : thread[u].generation \in Nat /\ thread[u].slot \in Slots \cup {None}
                            /\ thread[u].child \in Children \cup {None}
      /\ \A r \in Slots : slot[r].generation \in Nat /\ slot'[r].generation \in Nat /\ slot[r].live \in Children \cup {None}
      /\ \A k \in Children : child[k].at \in {"unborn", "greeting", "up", "ended"}
  BY DEF HostTyped, HostDataTyped, Thread, SlotState
<1>10. thread[Worker].at # "idle" => thread[Worker].slot \in Slots
  BY <1>0 DEF WorkerFits
<1>1. ASSUME Marks PROVE HostTyped'
  <2>1. /\ thread[Worker].at = "mark" /\ thread'[Worker].at \in {"marked", "stopped"}
        /\ \A u \in Actors : u # Worker => thread'[u] = thread[u]
        /\ thread'[Worker].slot = thread[Worker].slot /\ thread'[Worker].job = thread[Worker].job
        /\ thread'[Worker].generation = thread[Worker].generation
        /\ thread'[Worker].child = slot[thread[Worker].slot].live
        /\ \A r \in Slots : slot'[r].live = slot[r].live
        /\ \A r \in Slots : slot'[r].generation = slot[r].generation
        /\ UNCHANGED child
    BY <1>9, <1>10, <1>1, Numbers DEF Marks, Of, OnlyThread, OnlySlot, OnlyChild, SameThread, SameSlot, EndsChild, Rest, AtEase
  <2>2. WorkerFits'
    BY <1>0, <1>9, <1>10, <2>1, Numbers DEF WorkerFits, StartStages, WorkerStages, Of
  <2>3. ASSUME NEW k \in Children PROVE WaiterFits(k)'
    BY <1>0, <1>9, <1>10, <2>1, <2>3, Numbers DEF WaiterFits, WorkerFits, StartStages, WaiterStages, OffDuty, Of
  <2>4. ASSUME NEW k \in Children PROVE ChildFits(k)'
    BY <1>0, <1>9, <1>10, <2>1, <2>4, Numbers DEF ChildFits, GreetFits, Greets, OffDuty
  <2>5. ASSUME NEW r \in Slots PROVE SlotFits(r)'
    BY <1>0, <1>9, <1>10, <2>1, <2>5, Numbers DEF SlotFits, GreetFits, Greets
  <2>6. ASSUME NEW u \in Actors PROVE GreetFits(u)'
    BY <1>0, <1>9, <1>10, <2>1, <2>6, Numbers DEF GreetFits, GreetApart, ChildFits, Greets
  <2>7. GreetApart'
    BY <1>0, <1>9, <1>10, <2>1, Numbers DEF GreetApart, GreetFits, ChildFits, Greets
  <2>8. ASSUME NEW k \in Children PROVE Tended(k)'
    BY <1>0, <1>9, <1>10, <2>1, <2>8, Numbers DEF Tended, Alive, GreetFits, Greets
  <2>9. StopHolds'
    BY <1>0, <1>9, <1>10, <2>1, Numbers DEF StopHolds, ChildFits, SlotFits
  <2>10. WorksOnKnown'
    BY <1>0, <1>9, <1>10, <2>1, Numbers DEF WorksOnKnown, WorkerFits
  <2> QED
    BY <2>2, <2>3, <2>4, <2>5, <2>6, <2>7, <2>8, <2>9, <2>10 DEF HostTyped, ThreadsTyped, ChildrenTyped, StartersTyped
<1>2. ASSUME ShowsDisabled PROVE HostTyped'
  <2>1. /\ thread[Worker].at = "marked"
        /\ \A u \in Actors : u # Worker => thread'[u] = thread[u]
        /\ thread'[Worker].slot = thread[Worker].slot /\ thread'[Worker].job = thread[Worker].job
        /\ thread'[Worker].generation = thread[Worker].generation /\ thread'[Worker].child = thread[Worker].child
        /\ thread'[Worker].at = IF thread[Worker].child = None THEN "stopped" ELSE "stopping"
        /\ \A r \in Slots : slot'[r].live = slot[r].live
        /\ \A r \in Slots : slot'[r].generation = slot[r].generation
        /\ UNCHANGED child
    BY <1>9, <1>10, <1>2, Numbers DEF ShowsDisabled, OnlyThread, OnlySlot, OnlyChild, SameThread, SameSlot, EndsChild, Rest, AtEase
  <2>2. WorkerFits'
    BY <1>0, <1>9, <1>10, <2>1, Numbers DEF WorkerFits, StartStages, WorkerStages, Of
  <2>3. ASSUME NEW k \in Children PROVE WaiterFits(k)'
    BY <1>0, <1>9, <1>10, <2>1, <2>3, Numbers DEF WaiterFits, WorkerFits, StartStages, WaiterStages, OffDuty, Of
  <2>4. ASSUME NEW k \in Children PROVE ChildFits(k)'
    BY <1>0, <1>9, <1>10, <2>1, <2>4, Numbers DEF ChildFits, GreetFits, Greets, OffDuty
  <2>5. ASSUME NEW r \in Slots PROVE SlotFits(r)'
    BY <1>0, <1>9, <1>10, <2>1, <2>5, Numbers DEF SlotFits, GreetFits, Greets
  <2>6. ASSUME NEW u \in Actors PROVE GreetFits(u)'
    BY <1>0, <1>9, <1>10, <2>1, <2>6, Numbers DEF GreetFits, GreetApart, ChildFits, Greets
  <2>7. GreetApart'
    BY <1>0, <1>9, <1>10, <2>1, Numbers DEF GreetApart, GreetFits, ChildFits, Greets
  <2>8. ASSUME NEW k \in Children PROVE Tended(k)'
    BY <1>0, <1>9, <1>10, <2>1, <2>8, Numbers DEF Tended, Alive, GreetFits, Greets
  <2>9. StopHolds'
    BY <1>0, <1>9, <1>10, <2>1, Numbers DEF StopHolds, ChildFits, SlotFits
  <2>10. WorksOnKnown'
    BY <1>0, <1>9, <1>10, <2>1, Numbers DEF WorksOnKnown, WorkerFits
  <2> QED
    BY <2>2, <2>3, <2>4, <2>5, <2>6, <2>7, <2>8, <2>9, <2>10 DEF HostTyped, ThreadsTyped, ChildrenTyped, StartersTyped
<1>3. ASSUME EndsIt PROVE HostTyped'
  <2>1. /\ thread[Worker].at = "stopping" /\ thread'[Worker].at = "lingering"
        /\ \A u \in Actors : u # Worker => thread'[u] = thread[u]
        /\ thread'[Worker].slot = thread[Worker].slot /\ thread'[Worker].job = thread[Worker].job
        /\ thread'[Worker].generation = thread[Worker].generation /\ thread'[Worker].child = thread[Worker].child
        /\ UNCHANGED slot
        /\ thread[Worker].child \in Children /\ child'[thread[Worker].child].at = "ended"
        /\ child[thread[Worker].child].at \in {"up", "ended"}
        /\ \A k \in Children : child'[k].of = child[k].of
        /\ \A k \in Children : k # thread[Worker].child => child'[k].at = child[k].at
    BY <1>0, <1>9, <1>10, <1>10, <1>3, Numbers DEF EndsIt, StopHolds, WorkerFits, OnlyThread, OnlySlot, OnlyChild, SameThread, SameSlot, EndsChild, Rest, AtEase
  <2>2. WorkerFits'
    BY <1>0, <1>9, <1>10, <2>1, Numbers DEF WorkerFits, StartStages, WorkerStages, Of
  <2>3. ASSUME NEW k \in Children PROVE WaiterFits(k)'
    BY <1>0, <1>9, <1>10, <2>1, <2>3, Numbers DEF WaiterFits, WorkerFits, StartStages, WaiterStages, OffDuty, Of
  <2>4. ASSUME NEW k \in Children PROVE ChildFits(k)'
    BY <1>0, <1>9, <1>10, <2>1, <2>4, Numbers DEF ChildFits, GreetFits, Greets, OffDuty
  <2>5. ASSUME NEW r \in Slots PROVE SlotFits(r)'
    BY <1>0, <1>9, <1>10, <2>1, <2>5, Numbers DEF SlotFits, GreetFits, Greets
  <2>6. ASSUME NEW u \in Actors PROVE GreetFits(u)'
    BY <1>0, <1>9, <1>10, <2>1, <2>6, Numbers DEF GreetFits, GreetApart, ChildFits, Greets
  <2>7. GreetApart'
    BY <1>0, <1>9, <1>10, <2>1, Numbers DEF GreetApart, GreetFits, ChildFits, Greets
  <2>8. ASSUME NEW k \in Children PROVE Tended(k)'
    BY <1>0, <1>9, <1>10, <2>1, <2>8, Numbers DEF Tended, Alive, GreetFits, Greets
  <2>9. StopHolds'
    BY <1>0, <1>9, <1>10, <2>1, Numbers DEF StopHolds, ChildFits, SlotFits
  <2>10. WorksOnKnown'
    BY <1>0, <1>9, <1>10, <2>1, Numbers DEF WorksOnKnown, WorkerFits
  <2> QED
    BY <2>2, <2>3, <2>4, <2>5, <2>6, <2>7, <2>8, <2>9, <2>10 DEF HostTyped, ThreadsTyped, ChildrenTyped, StartersTyped
<1>4. ASSUME WaitsForEnd PROVE HostTyped'
  <2>1. /\ thread[Worker].at = "lingering" /\ thread'[Worker].at = "stopped"
        /\ \A u \in Actors : u # Worker => thread'[u] = thread[u]
        /\ thread'[Worker].slot = thread[Worker].slot /\ thread'[Worker].job = thread[Worker].job
        /\ thread'[Worker].generation = thread[Worker].generation /\ thread'[Worker].child = thread[Worker].child
        /\ UNCHANGED <<slot, child>>
    BY <1>9, <1>10, <1>4, Numbers DEF WaitsForEnd, OnlyThread, OnlySlot, OnlyChild, SameThread, SameSlot, EndsChild, Rest, AtEase
  <2>2. WorkerFits'
    BY <1>0, <1>9, <1>10, <2>1, Numbers DEF WorkerFits, StartStages, WorkerStages, Of
  <2>3. ASSUME NEW k \in Children PROVE WaiterFits(k)'
    BY <1>0, <1>9, <1>10, <2>1, <2>3, Numbers DEF WaiterFits, WorkerFits, StartStages, WaiterStages, OffDuty, Of
  <2>4. ASSUME NEW k \in Children PROVE ChildFits(k)'
    BY <1>0, <1>9, <1>10, <2>1, <2>4, Numbers DEF ChildFits, GreetFits, Greets, OffDuty
  <2>5. ASSUME NEW r \in Slots PROVE SlotFits(r)'
    BY <1>0, <1>9, <1>10, <2>1, <2>5, Numbers DEF SlotFits, GreetFits, Greets
  <2>6. ASSUME NEW u \in Actors PROVE GreetFits(u)'
    BY <1>0, <1>9, <1>10, <2>1, <2>6, Numbers DEF GreetFits, GreetApart, ChildFits, Greets
  <2>7. GreetApart'
    BY <1>0, <1>9, <1>10, <2>1, Numbers DEF GreetApart, GreetFits, ChildFits, Greets
  <2>8. ASSUME NEW k \in Children PROVE Tended(k)'
    BY <1>0, <1>9, <1>10, <2>1, <2>8, Numbers DEF Tended, Alive, GreetFits, Greets
  <2>9. StopHolds'
    BY <1>0, <1>9, <1>10, <2>1, Numbers DEF StopHolds, ChildFits, SlotFits
  <2>10. WorksOnKnown'
    BY <1>0, <1>9, <1>10, <2>1, Numbers DEF WorksOnKnown, WorkerFits
  <2> QED
    BY <2>2, <2>3, <2>4, <2>5, <2>6, <2>7, <2>8, <2>9, <2>10 DEF HostTyped, ThreadsTyped, ChildrenTyped, StartersTyped
<1>5. ASSUME GoesOnAfterStop PROVE HostTyped'
  <2>1. /\ thread[Worker].at = "stopped"
        /\ \A u \in Actors : u # Worker => thread'[u] = thread[u]
        /\ \/ thread'[Worker].at = "verify" /\ thread[Worker].job = "refresh"
           \/ thread'[Worker].at = "idle" /\ thread'[Worker].job = "none"
        /\ thread'[Worker].at = "verify" => thread'[Worker].slot = thread[Worker].slot /\ thread'[Worker].job = thread[Worker].job
                   /\ thread'[Worker].generation = thread[Worker].generation
        /\ \A r \in Slots : slot'[r].live = slot[r].live
        /\ \A r \in Slots : slot'[r].generation = slot[r].generation
        /\ UNCHANGED child
    <3>1. CASE thread[Worker].job = "refresh"
      BY <3>1, <1>9, <1>10, <1>5, Numbers DEF GoesOnAfterStop, OnlyThread, OnlySlot, SameThread, SameSlot
    <3>2. CASE thread[Worker].job # "refresh"
      BY <3>2, <1>9, <1>5, Numbers DEF GoesOnAfterStop, OnlyThread, Rest, AtEase
    <3> QED
      BY <3>1, <3>2
  <2>2. WorkerFits'
    BY <1>0, <1>9, <1>10, <2>1, Numbers DEF WorkerFits, StartStages, WorkerStages, Of
  <2>3. ASSUME NEW k \in Children PROVE WaiterFits(k)'
    BY <1>0, <1>9, <1>10, <2>1, <2>3, Numbers DEF WaiterFits, WorkerFits, StartStages, WaiterStages, OffDuty, Of
  <2>4. ASSUME NEW k \in Children PROVE ChildFits(k)'
    BY <1>0, <1>9, <1>10, <2>1, <2>4, Numbers DEF ChildFits, GreetFits, Greets, OffDuty
  <2>5. ASSUME NEW r \in Slots PROVE SlotFits(r)'
    BY <1>0, <1>9, <1>10, <2>1, <2>5, Numbers DEF SlotFits, GreetFits, Greets
  <2>6. ASSUME NEW u \in Actors PROVE GreetFits(u)'
    BY <1>0, <1>9, <1>10, <2>1, <2>6, Numbers DEF GreetFits, GreetApart, ChildFits, Greets
  <2>7. GreetApart'
    BY <1>0, <1>9, <1>10, <2>1, Numbers DEF GreetApart, GreetFits, ChildFits, Greets
  <2>8. ASSUME NEW k \in Children PROVE Tended(k)'
    BY <1>0, <1>9, <1>10, <2>1, <2>8, Numbers DEF Tended, Alive, GreetFits, Greets
  <2>9. StopHolds'
    BY <1>0, <1>9, <1>10, <2>1, Numbers DEF StopHolds, ChildFits, SlotFits
  <2>10. WorksOnKnown'
    BY <1>0, <1>9, <1>10, <2>1, Numbers DEF WorksOnKnown, WorkerFits
  <2> QED
    BY <2>2, <2>3, <2>4, <2>5, <2>6, <2>7, <2>8, <2>9, <2>10 DEF HostTyped, ThreadsTyped, ChildrenTyped, StartersTyped
<1> QED
  BY <1>1, <1>2, <1>3, <1>4, <1>5

\* What the worker takes on: a job it has nothing to do for is over at once.
Takes ==
  \/ /\ IsLive(known) /\ Assigned("start", "activate", known) /\ UNCHANGED <<known, strays>>
  \/ /\ ~IsLive(known)
     /\ \E s \in Slots : /\ slot[s] = NewSlot /\ known' = s /\ Assigned("start", "verify", s)
     /\ strays' = strays \cup {m \in {"replaced"} : known # None /\ Lingers(known)}
  \/ /\ known' = None /\ UNCHANGED strays
     /\ IF known = None THEN UNCHANGED thread ELSE Assigned("remove", "mark", known)
  \/ /\ UNCHANGED known
     /\ strays' = strays \cup {m \in {"unheard"} : ~Stale(known) /\ outdated \cap Alive # {}}
     /\ IF Stale(known) THEN Assigned("refresh", "mark", known) ELSE UNCHANGED thread

\* A job that is assigned changes the worker's record alone.
LEMMA AssignDoes ==
  ASSUME HostTyped, NEW job, NEW stage, NEW s, Assign(job, stage, s)
  PROVE  Assigned(job, stage, s)
BY Numbers DEF Assign, Assigned, AtEase, HostTyped, HostDataTyped, OnlyThread

\* The first job that waits is taken, and which one it is says what follows.
LEMMA TakeMoves ==
  ASSUME HostTyped, TakeJob
  PROVE  /\ thread[Worker].at = "idle" /\ Takes /\ UNCHANGED <<slot, child, railVars, asks>>
         /\ posted # <<>> /\ posted' = Tail(posted)
         /\ \/ /\ Head(posted) = "start" /\ known' # None
               /\ Assigned("start", "activate", known') \/ Assigned("start", "verify", known')
            \/ /\ Head(posted) = "remove" /\ known' = None
               /\ IF known = None THEN UNCHANGED thread ELSE Assigned("remove", "mark", known)
            \/ /\ Head(posted) = "refresh" /\ UNCHANGED known
               /\ strays' = strays \cup {m \in {"unheard"} : ~Stale(known) /\ outdated \cap Alive # {}}
               /\ IF Stale(known) THEN Assigned("refresh", "mark", known) ELSE UNCHANGED thread
<1>1. /\ thread[Worker].at = "idle" /\ UNCHANGED <<slot, child, railVars, asks>>
      /\ posted # <<>> /\ posted' = Tail(posted)
      /\ Head(posted) \in {"start", "remove", "refresh"}
      /\ Head(posted) = "start" => TakeStart
      /\ Head(posted) = "remove" => TakeRemove
      /\ Head(posted) = "refresh" => TakeRefresh
  <2>1. posted \in Seq({"start", "remove", "refresh"})
    BY DEF HostTyped, HostDataTyped
  <2>2. posted # <<>> /\ posted' = Tail(posted) /\ thread[Worker].at = "idle" /\ UNCHANGED <<slot, child, railVars, asks>>
    BY DEF TakeJob
  <2>3. Head(posted) \in {"start", "remove", "refresh"}
    BY <2>1, <2>2
  <2>4. CASE Head(posted) = "start"
    BY <2>2, <2>4 DEF TakeJob
  <2>5. CASE Head(posted) = "remove"
    BY <2>2, <2>5 DEF TakeJob
  <2>6. CASE Head(posted) = "refresh"
    BY <2>2, <2>6 DEF TakeJob
  <2> QED
    BY <2>2, <2>3, <2>4, <2>5, <2>6
<1>2. CASE Head(posted) = "start"
  <2>1. CASE IsLive(known) /\ Assign("start", "activate", known) /\ UNCHANGED <<known, strays>>
    BY <1>1, <1>2, <2>1, AssignDoes DEF Takes, IsLive
  <2>2. CASE /\ ~IsLive(known)
             /\ \E s \in Slots : Free(s) /\ known' = s /\ Assign("start", "verify", s)
             /\ Stray({m \in {"replaced"} : known # None /\ Lingers(known)})
    <3>1. PICK s \in Slots : Free(s) /\ known' = s /\ Assign("start", "verify", s)
      BY <2>2
    <3>2. slot[s] = NewSlot /\ Assigned("start", "verify", s) /\ known' # None
      BY <3>1, AssignDoes, Numbers DEF Free
    <3>3. Takes
      BY <2>2, <3>1, <3>2 DEF Takes, Stray
    <3> QED
      BY <1>1, <1>2, <3>1, <3>2, <3>3
  <2> QED
    BY <1>1, <1>2, <2>1, <2>2 DEF TakeStart
<1>3. CASE Head(posted) = "remove"
  <2>1. /\ known' = None /\ UNCHANGED strays
        /\ IF known = None THEN UNCHANGED thread ELSE Assigned("remove", "mark", known)
    BY <1>1, <1>3, AssignDoes DEF TakeRemove
  <2> QED
    BY <1>1, <1>3, <2>1 DEF Takes
<1>4. CASE Head(posted) = "refresh"
  <2>1. /\ UNCHANGED known
        /\ strays' = strays \cup {m \in {"unheard"} : ~Stale(known) /\ outdated \cap Alive # {}}
        /\ IF Stale(known) THEN Assigned("refresh", "mark", known) ELSE UNCHANGED thread
    BY <1>1, <1>4, AssignDoes DEF TakeRefresh, Stray
  <2> QED
    BY <1>1, <1>4, <2>1 DEF Takes
<1> QED
  BY <1>1, <1>2, <1>3, <1>4

\* A worker with no job under way that takes one on is at what is known.
LEMMA AssignTyped ==
  ASSUME HostTyped, HostDataTyped', thread[Worker].at = "idle",
         \/ known' \in Slots /\ (\E stage \in {"activate", "verify"} : Assigned("start", stage, known'))
         \/ known' = None /\ \E s \in Slots : Assigned("remove", "mark", s)
         \/ known' \in Slots /\ \E job \in {"refresh", "sweep"} : Assigned(job, "mark", known')
         \/ UNCHANGED thread,
         UNCHANGED <<slot, child, outdated>>
  PROVE  HostTyped'
<1>0. /\ WorkerFits /\ (\A k \in Children : WaiterFits(k)) /\ (\A k \in Children : ChildFits(k))
      /\ (\A r \in Slots : SlotFits(r)) /\ (\A u \in Actors : GreetFits(u)) /\ GreetApart
      /\ (\A k \in Children : Tended(k)) /\ StopHolds /\ WorksOnKnown
  BY DEF HostTyped, ThreadsTyped, ChildrenTyped, StartersTyped
<1>9. /\ \A u \in Actors : thread[u].generation \in Nat /\ thread[u].slot \in Slots \cup {None}
                            /\ thread[u].child \in Children \cup {None}
      /\ \A r \in Slots : slot[r].generation \in Nat /\ slot'[r].generation \in Nat /\ slot[r].live \in Children \cup {None}
      /\ \A k \in Children : child[k].at \in {"unborn", "greeting", "up", "ended"}
  BY DEF HostTyped, HostDataTyped, Thread, SlotState
<1>1. /\ \A u \in Actors : u # Worker => thread'[u] = thread[u]
      /\ \/ thread'[Worker] = thread[Worker]
         \/ /\ thread'[Worker].at \in {"activate", "verify", "mark"} /\ thread'[Worker].slot \in Slots
            /\ thread'[Worker].generation = 0
            /\ thread'[Worker].job \in IF thread'[Worker].at = "mark" THEN {"remove", "refresh", "sweep"}
                                       ELSE {"start"}
            /\ IF thread'[Worker].job = "remove" THEN known' = None ELSE thread'[Worker].slot = known'
  BY Numbers DEF Assigned, OnlyThread
<1>2. WorkerFits'
  BY <1>0, <1>9, <1>1, Numbers DEF WorkerFits, StartStages, WorkerStages, Of
<1>3. ASSUME NEW k \in Children PROVE WaiterFits(k)'
  BY <1>0, <1>9, <1>1, <1>3, Numbers DEF WaiterFits, WorkerFits, StartStages, WaiterStages, OffDuty, Of
<1>4. ASSUME NEW k \in Children PROVE ChildFits(k)'
  BY <1>0, <1>9, <1>1, <1>4, Numbers DEF ChildFits, GreetFits, Greets, OffDuty
<1>5. ASSUME NEW r \in Slots PROVE SlotFits(r)'
  BY <1>0, <1>9, <1>1, <1>5, Numbers DEF SlotFits, GreetFits, Greets
<1>6. ASSUME NEW u \in Actors PROVE GreetFits(u)'
  BY <1>0, <1>9, <1>1, <1>6, Numbers DEF GreetFits, GreetApart, ChildFits, Greets
<1>7. GreetApart'
  BY <1>0, <1>9, <1>1, Numbers DEF GreetApart, GreetFits, ChildFits, Greets
<1>8. ASSUME NEW k \in Children PROVE Tended(k)'
  BY <1>0, <1>9, <1>1, <1>8, Numbers DEF Tended, Alive, GreetFits, Greets
<1>19. StopHolds'
  BY <1>0, <1>9, <1>1, Numbers DEF StopHolds, ChildFits, SlotFits
<1>10. WorksOnKnown'
  BY <1>0, <1>9, <1>1, Numbers DEF WorksOnKnown, WorkerFits
<1> QED
  BY <1>2, <1>3, <1>4, <1>5, <1>6, <1>7, <1>8, <1>19, <1>10 DEF HostTyped, ThreadsTyped, ChildrenTyped, StartersTyped

\* Whatever the activation comes to.
LEMMA DataHears ==
  ASSUME HostTyped, NEW k \in Children, Hears(k)
  PROVE  HostDataTyped'
BY DEF HostTyped, HostDataTyped, Hears, Register, HearModule, Stray, Strays

\* Each step of the worker's activation is the effect above.
LEMMA ActivateMoves ==
  ASSUME HostTyped, CallActivate \/ CallEnds
  PROVE  Activates
<1>1. Worker \in Actors /\ thread \in [Actors -> Thread] /\ thread[Worker] \in Thread
  BY Numbers DEF HostTyped, HostDataTyped
<1>2. CASE CallActivate
  BY <1>1, <1>2 DEF CallActivate, Activates, Turn, End, Rest, OnlyThread, SameThread, Thread
<1>3. CASE CallEnds
  BY <1>1, <1>3 DEF CallEnds, Activates, End, Rest, OnlyThread, railVars
<1> QED
  BY <1>2, <1>3

\* An activation leaves the worker at rest, or waiting for the answer.
LEMMA ActivateTyped ==
  ASSUME HostTyped, HostDataTyped', Activates, UNCHANGED <<known, outdated>>
  PROVE  HostTyped'
<1>0. /\ WorkerFits /\ (\A k \in Children : WaiterFits(k)) /\ (\A k \in Children : ChildFits(k))
      /\ (\A r \in Slots : SlotFits(r)) /\ (\A u \in Actors : GreetFits(u)) /\ GreetApart
      /\ (\A k \in Children : Tended(k)) /\ StopHolds /\ WorksOnKnown
  BY DEF HostTyped, ThreadsTyped, ChildrenTyped, StartersTyped
<1>9. /\ \A u \in Actors : thread[u].generation \in Nat /\ thread[u].slot \in Slots \cup {None}
                            /\ thread[u].child \in Children \cup {None}
      /\ \A r \in Slots : slot[r].generation \in Nat /\ slot'[r].generation \in Nat /\ slot[r].live \in Children \cup {None}
      /\ \A k \in Children : child[k].at \in {"unborn", "greeting", "up", "ended"}
  BY DEF HostTyped, HostDataTyped, Thread, SlotState
<1>11. /\ \A u \in Actors : u # Worker => thread'[u] = thread[u]
      /\ thread[Worker].at \in {"activate", "asking"}
      /\ \/ thread'[Worker].at = "idle" /\ thread'[Worker].job = "none"
         \/ /\ thread'[Worker].at = "asking" /\ thread'[Worker].job = thread[Worker].job
            /\ thread'[Worker].slot = thread[Worker].slot
            /\ thread'[Worker].generation = thread[Worker].generation
      /\ UNCHANGED <<slot, child>>
  BY Numbers DEF Activates, Rest, AtEase, OnlyThread, SameThread
<1>12. WorkerFits'
  BY <1>0, <1>9, <1>11, Numbers DEF WorkerFits, StartStages, WorkerStages, Of
<1>13. ASSUME NEW k \in Children PROVE WaiterFits(k)'
  BY <1>0, <1>9, <1>11, <1>13, Numbers DEF WaiterFits, WorkerFits, StartStages, WaiterStages, OffDuty, Of
<1>14. ASSUME NEW k \in Children PROVE ChildFits(k)'
  BY <1>0, <1>9, <1>11, <1>14, Numbers DEF ChildFits, GreetFits, Greets, OffDuty
<1>15. ASSUME NEW r \in Slots PROVE SlotFits(r)'
  BY <1>0, <1>9, <1>11, <1>15, Numbers DEF SlotFits, GreetFits, Greets
<1>16. ASSUME NEW u \in Actors PROVE GreetFits(u)'
  BY <1>0, <1>9, <1>11, <1>16, Numbers DEF GreetFits, GreetApart, ChildFits, Greets
<1>17. GreetApart'
  BY <1>0, <1>9, <1>11, Numbers DEF GreetApart, GreetFits, ChildFits, Greets
<1>18. ASSUME NEW k \in Children PROVE Tended(k)'
  BY <1>0, <1>9, <1>11, <1>18, Numbers DEF Tended, Alive, GreetFits, Greets
<1>19. StopHolds'
  BY <1>0, <1>9, <1>11, Numbers DEF StopHolds, ChildFits, SlotFits
<1>20. WorksOnKnown'
  BY <1>0, <1>9, <1>11, Numbers DEF WorksOnKnown, WorkerFits
<1> QED
  BY <1>12, <1>13, <1>14, <1>15, <1>16, <1>17, <1>18, <1>19, <1>20 DEF HostTyped, ThreadsTyped, ChildrenTyped, StartersTyped

\* The window's moves touch no thread, slot or process.
LEMMA WindowTyped ==
  ASSUME HostTyped, HostDataTyped', UNCHANGED <<known, thread, slot, child>>,
         \A k \in outdated' : k \in outdated \/ child[k].at # "unborn"
  PROVE  HostTyped'
<1>1. ThreadsTyped' /\ ChildrenTyped' /\ StartersTyped' /\ WorksOnKnown'
  BY DEF HostTyped, HostDataTyped, ThreadsTyped, WorkerFits, WaiterFits, ChildrenTyped, ChildFits, SlotFits, StartersTyped, GreetFits, GreetApart, Tended, StopHolds, WorksOnKnown, Of, Greets, Alive
<1> QED
  BY <1>1 DEF HostTyped

\* Every step keeps the types.
LEMMA StepTyped ==
  ASSUME HostTyped, HostNext
  PROVE  HostTyped'
<1>1. ASSUME NEW t \in Actors, StartMoves(t),
             UNCHANGED <<known, posted, asks, enabled, dirty, outdated>>
      PROVE  HostTyped'
  BY <1>1, StarterMoves, DataStarter, StarterTyped
<1>2. ASSUME NEW k \in Children, WaiterMoves(k),
             UNCHANGED <<known, posted, asks, enabled, dirty, outdated>>
      PROVE  HostTyped'
  BY <1>1, <1>2, Numbers, WaiterDoesMoves, DataWaiter, WaiterTyped DEF WaiterMoves
<1>3. ASSUME TakeJob, UNCHANGED <<enabled, dirty, outdated>>
      PROVE  HostTyped'
  <2>1. HostDataTyped'
    BY <1>3, DataWorker
  <2>2. /\ thread[Worker].at = "idle" /\ UNCHANGED <<slot, child>>
        /\ \/ /\ known' # None
              /\ Assigned("start", "activate", known') \/ Assigned("start", "verify", known')
           \/ /\ known' = None
              /\ IF known = None THEN UNCHANGED thread ELSE Assigned("remove", "mark", known)
           \/ /\ UNCHANGED known
              /\ IF Stale(known) THEN Assigned("refresh", "mark", known) ELSE UNCHANGED thread
    BY <1>3, TakeMoves
  <2>3. known \in Slots \cup {None} /\ known' \in Slots \cup {None} /\ (Stale(known) => known # None)
    BY <2>1 DEF HostTyped, HostDataTyped, Stale, IsLive
  <2> QED
    BY <1>3, <2>1, <2>2, <2>3, AssignTyped
<1>4. ASSUME Sweep, UNCHANGED <<enabled, dirty, outdated>>
      PROVE  HostTyped'
  <2>1. HostDataTyped'
    BY <1>4, DataWorker
  <2>2. thread[Worker].at = "idle" /\ UNCHANGED <<slot, child, known>> /\ Assigned("sweep", "mark", known)
        /\ known # None
    BY <1>4, AssignDoes DEF Sweep, IsLive
  <2> QED
    BY <1>4, <2>1, <2>2, AssignTyped DEF HostTyped, HostDataTyped
<1>5. ASSUME CallActivate \/ CallEnds, UNCHANGED <<known, posted, asks, enabled, dirty, outdated>>
      PROVE  HostTyped'
  BY <1>5, DataWorker, ActivateMoves, ActivateTyped
<1>6. ASSUME MarkStop \/ ShowDisabled \/ EndChild \/ EndWait \/ AfterStop,
             UNCHANGED <<known, posted, asks, enabled, dirty, outdated>>
      PROVE  HostTyped'
  BY <1>6, DataWorker, StopMoves, StopTyped
<1>7. ASSUME Enable \/ Reconcile \/ MoveServer PROVE HostTyped'
  BY <1>7, DataWindow, WindowTyped DEF Enable, Reconcile, MoveServer
<1>8. ASSUME NEW k \in Children, Hears(k) PROVE HostTyped'
  BY <1>8, DataHears, WindowTyped DEF Hears
<1> QED
  BY <1>1, <1>2, <1>3, <1>4, <1>5, <1>6, <1>7, <1>8, Numbers DEF HostNext, WorkerMoves, Hears

\* The types hold throughout.
LEMMA HostTypedHolds == HostSpec => []HostTyped
<1>1. HostInit => HostTyped
  <2> SUFFICES ASSUME HostInit PROVE HostTyped
    OBVIOUS
  <2>1. \A t \in Actors : thread[t] = AtEase(IF t = Worker THEN "idle" ELSE "none")
    BY DEF HostInit, Actors
  <2>2. NewSlot \in SlotState
    BY HostAssumption DEF NewSlot, SlotState, Statuses
  <2>3. AtEase("idle") \in Thread /\ AtEase("none") \in Thread
    BY DEF AtEase, Thread, AllStages, WorkerStages, WaiterStages, HostJobs
  <2>4. thread \in [Actors -> Thread] /\ posted \in Seq({"start", "remove", "refresh"})
        /\ asks \in 0 .. MaxAsks
    BY <2>3, HostAssumption DEF HostInit, Actors
  <2>5. HostDataTyped
    BY <2>2, <2>4 DEF HostInit, HostDataTyped, Strays
  <2>12. thread[Worker] = AtEase("idle") /\ \A k \in Children : thread[k] = AtEase("none")
    BY <2>1, Numbers
  <2>10. thread[Worker].at = "idle" /\ thread[Worker].job = "none"
    BY <2>12 DEF AtEase
  <2>11. \A k \in Children : thread[k].at = "none" /\ thread[k].job = "none"
    BY <2>12 DEF AtEase
  <2>6. ThreadsTyped
    BY <2>10, <2>11 DEF ThreadsTyped, WorkerFits, WaiterFits, WorkerStages, WaiterStages, StartStages, OffDuty
  <2>7. ChildrenTyped
    BY <2>1, Numbers DEF ChildrenTyped, ChildFits, SlotFits, HostInit, AtEase, OffDuty, NewSlot
  <2>8. StartersTyped
    BY <2>1, Numbers DEF StartersTyped, GreetFits, GreetApart, Tended, StopHolds, HostInit, AtEase, Greets, Alive
  <2>9. WorksOnKnown
    BY <2>10 DEF WorksOnKnown
  <2> QED
    BY <2>5, <2>6, <2>7, <2>8, <2>9 DEF HostTyped
<1>2. HostTyped /\ [HostNext]_hostVars => HostTyped'
  <2>1. HostTyped /\ UNCHANGED hostVars => HostTyped'
    BY DEF hostVars, railVars, HostTyped, HostDataTyped, ThreadsTyped, WorkerFits, WaiterFits, ChildrenTyped, ChildFits, SlotFits, StartersTyped, GreetFits, GreetApart, Tended, StopHolds, WorksOnKnown, Of,
       Greets, Alive
  <2> QED
    BY <2>1, StepTyped
<1> QED
  BY <1>1, <1>2, PTL DEF HostSpec

\* The types of the module's state: beyond them, the process of a slot was started
\* for it.
THEOREM HostTypes == HostSpec => []HostTypeOK
<1>1. HostTyped => HostTypeOK
  <2> SUFFICES ASSUME HostTyped PROVE HostTypeOK
    OBVIOUS
  <2>1. \A t \in DOMAIN thread :
       /\ thread[t].at \in StartStages \cup (IF t = Worker THEN WorkerStages ELSE WaiterStages)
       /\ thread[t].job \in {"none", "start", "remove", "refresh", "sweep"}
       /\ thread[t].at \notin {"idle", "none", "over"} => thread[t].slot \in Slots
    BY Numbers DEF HostTyped, HostDataTyped, ThreadsTyped, WorkerFits, WaiterFits, Thread, HostJobs, OffDuty
  <2>2. DOMAIN thread = Children \cup {Worker} /\ \A i \in DOMAIN posted : posted[i] \in {"start", "remove", "refresh"}
    BY DEF HostTyped, HostDataTyped, Actors
  <2> QED
    BY <2>1, <2>2 DEF HostTyped, HostDataTyped, ChildrenTyped, ChildFits, SlotFits, HostTypeOK, SlotState
<1> QED
  BY <1>1, HostTypedHolds, PTL
-----------------------------------------------------------------------------
(* One process at a time.                                                  *)

\* A thread that starts the module, or is to, is alone, and so is its process; the
\* worker is not at a stop.
LEMMA ActsAlone ==
  ASSUME HostTyped, CleanInv, Clean, NEW t \in Actors, Acts(t)
  PROVE  /\ ~Stops /\ \A u \in Actors : u # t => ~Acts(u)
         /\ \A k \in Alive : IF Starts(t) THEN Greets(t) /\ thread[t].child = k ELSE k = t
<1>1. OneActs /\ AliveIsAccountedFor /\ StopIsStop
  BY DEF CleanInv
<1>2. ~Stops /\ \A u \in Actors : u # t => ~Acts(u)
  BY <1>1 DEF OneActs, StopIsStop
<1>3. ASSUME NEW k \in Alive PROVE IF Starts(t) THEN Greets(t) /\ thread[t].child = k ELSE k = t
  <2>1. k \in Children /\ k \in Actors /\ k # Worker
    BY Numbers DEF Alive
  <2>2. CASE \E u \in Actors : Greets(u) /\ thread[u].child = k
    <3>1. PICK u \in Actors : Greets(u) /\ thread[u].child = k
      BY <2>2
    <3>2. Starts(u)
      BY <3>1 DEF Greets, Starts, StartStages
    <3> QED
      BY <1>2, <3>1, <3>2 DEF Acts
  <2>3. CASE thread[k].at = "watching" /\ Heir(k)
    BY <1>2, <2>1, <2>3 DEF Acts, Starts, StartStages
  <2> QED
    BY <1>1, <1>2, <2>1, <2>2, <2>3 DEF AliveIsAccountedFor, Accounted, Stops
<1> QED
  BY <1>2, <1>3

\* At a stop nobody is to start the module, and a process that lives is the one that is
\* being stopped.
LEMMA StopsAlone ==
  ASSUME HostTyped, CleanInv, Clean, Stops
  PROVE  /\ Of(Worker).expected /\ \A u \in Actors : ~Acts(u)
         /\ \A k \in Alive : /\ thread[k].at = "watching" /\ Of(k).live = k
                            /\ thread[Worker].at \in {"marked", "stopping"}
                            /\ thread[Worker].slot = thread[k].slot /\ thread[Worker].child = k
<1>1. AliveIsAccountedFor /\ StopIsStop
  BY DEF CleanInv
<1>2. Of(Worker).expected /\ \A u \in Actors : ~Acts(u)
  BY <1>1 DEF StopIsStop
<1>3. ASSUME NEW k \in Alive
      PROVE  /\ thread[k].at = "watching" /\ Of(k).live = k
             /\ thread[Worker].at \in {"marked", "stopping"}
             /\ thread[Worker].slot = thread[k].slot /\ thread[Worker].child = k
  <2>1. k \in Children /\ k \in Actors /\ k # Worker
    BY Numbers DEF Alive
  <2>2. ~Heir(k) /\ ~\E u \in Actors : Greets(u) /\ thread[u].child = k
    BY <1>2, <2>1 DEF Acts, Greets, Starts, StartStages
  <2> QED
    BY <1>1, <2>1, <2>2 DEF AliveIsAccountedFor, Accounted
<1> QED
  BY <1>2, <1>3

\* A start is one thread's, and hands the module over to the thread that waits for
\* the process it brought up.
LEMMA StarterClean ==
  ASSUME HostTyped, HostTyped', CleanInv, NEW t \in Actors, StarterDoes(t), thread[t].at \in StartStages,
         UNCHANGED known
  PROVE  CleanInv'
<1>0. /\ WorkerFits /\ (\A k \in Children : WaiterFits(k)) /\ (\A k \in Children : ChildFits(k))
      /\ (\A r \in Slots : SlotFits(r)) /\ (\A u \in Actors : GreetFits(u)) /\ GreetApart
      /\ (\A k \in Children : Tended(k)) /\ StopHolds /\ WorksOnKnown
  BY DEF HostTyped, ThreadsTyped, ChildrenTyped, StartersTyped
<1>9. /\ \A u \in Actors : thread[u].generation \in Nat /\ thread[u].slot \in Slots \cup {None}
                            /\ thread[u].child \in Children \cup {None}
      /\ \A r \in Slots : slot[r].generation \in Nat /\ slot'[r].generation \in Nat
                          /\ slot[r].live \in Children \cup {None} /\ slot[r].status \in Statuses
      /\ \A k \in Children : child[k].at \in {"unborn", "greeting", "up", "ended"}
      /\ known \in Slots \cup {None} /\ panel \in Children \cup {None}
  BY DEF HostTyped, HostDataTyped, Thread, SlotState
<1>10. /\ (t = Worker \/ t \in Children) /\ thread[t].slot \in Slots /\ Acts(t) /\ Starts(t)
       /\ thread[t].at \in {"greeting", "greeted"} => thread[t].child \in Children
  BY <1>0, Numbers DEF Starts, Acts, StartStages, WorkerFits, WaiterFits, OffDuty, GreetFits, Greets
<1>1. ASSUME GivesUp(t), Clean', Clean
      PROVE  OneActs' /\ ActsInKnown' /\ StartsCurrent' /\ AliveIsAccountedFor' /\ StopIsStop' /\ WatchersOwn'
  <2>0. /\ OneActs /\ ActsInKnown /\ StartsCurrent /\ AliveIsAccountedFor /\ StopIsStop /\ WatchersOwn
        /\ ~Stops /\ (\A u \in Actors : u # t => ~Acts(u))
        /\ (\A k \in Alive : Greets(t) /\ thread[t].child = k) /\ StartCurrent(t)
    BY <1>1, <1>10, ActsAlone DEF CleanInv, StartsCurrent
  <2>1. /\ thread[t].at \in {"verify", "spawning", "greeting"}
        /\ \A u \in Actors : u # t => thread'[u] = thread[u]
        /\ thread'[t].at = (IF t = Worker THEN "idle" ELSE "over") /\ thread'[t].job = "none"
        /\ \A r \in Slots : slot'[r].live = slot[r].live
        /\ \A r \in Slots : slot'[r].generation = slot[r].generation
        /\ \A r \in Slots : slot'[r].expected = slot[r].expected
        /\ slot'[thread[t].slot].status \in {"disabled", "broken"}
        /\ \A r \in Slots : r # thread[t].slot => slot'[r].status = slot[r].status
        /\ \A j \in Children : child'[j].of = child[j].of
        /\ \A j \in Children : child'[j].at = child[j].at \/
                  (child'[j].at = "ended" /\ thread[t].at = "greeting" /\ j = thread[t].child)
        /\ thread[t].at = "greeting" => child'[thread[t].child].at = "ended"
        /\ UNCHANGED <<panel, strays>>
    BY <1>9, <1>10, <1>1, Numbers DEF GivesUp, OnlyThread, OnlySlot, OnlyChild, SameThread, SameSlot, EndsChild, Rest, AtEase, Of, OffDuty
  <2>2. ASSUME NEW u \in Actors PROVE ~Acts(u)'
    BY <1>0, <1>9, <1>10, <2>0, <2>1, <2>2, Numbers DEF Acts, Starts, Heir, CalledOff, Newer, Of, StartStages, WaiterFits, WorkerFits, OffDuty
  <2>3. OneActs'
    BY <1>0, <1>9, <1>10, <2>0, <2>1, <2>2, Numbers DEF OneActs
  <2>4. ASSUME NEW u \in Actors PROVE ActInKnown(u)'
    BY <1>0, <1>9, <1>10, <2>0, <2>1, <2>2, <2>4, Numbers DEF ActsInKnown, ActInKnown, WorksOnKnown, WorkerFits
  <2>5. ASSUME NEW u \in Actors PROVE StartCurrent(u)'
    BY <1>0, <1>9, <1>10, <2>0, <2>1, <2>2, <2>5 DEF StartCurrent, Acts
  <2>6. ASSUME NEW k \in Children PROVE Accounted(k)'
    BY <1>0, <1>9, <1>10, <2>0, <2>1, <2>2, <2>6, Numbers DEF Accounted, Alive, Greets
  <2>7. StopIsStop'
    BY <1>0, <1>9, <1>10, <2>0, <2>1, <2>2, Numbers DEF StopIsStop, Stops, StartStages
  <2>8. ASSUME NEW k \in Children PROVE Owns(k)'
    BY <1>0, <1>9, <1>10, <2>0, <2>1, <2>8, Numbers DEF WatchersOwn, Owns, Newer, Of, WaiterFits, OffDuty
  <2> QED
    BY <2>2, <2>3, <2>4, <2>5, <2>6, <2>7, <2>8 DEF ActsInKnown, StartsCurrent, AliveIsAccountedFor, WatchersOwn
<1>2. ASSUME Bumps(t), Clean', Clean
      PROVE  OneActs' /\ ActsInKnown' /\ StartsCurrent' /\ AliveIsAccountedFor' /\ StopIsStop' /\ WatchersOwn'
  <2>0. /\ OneActs /\ ActsInKnown /\ StartsCurrent /\ AliveIsAccountedFor /\ StopIsStop /\ WatchersOwn
        /\ ~Stops /\ (\A u \in Actors : u # t => ~Acts(u))
        /\ (\A k \in Alive : Greets(t) /\ thread[t].child = k) /\ StartCurrent(t)
    BY <1>2, <1>10, ActsAlone DEF CleanInv, StartsCurrent
  <2>1. /\ thread[t].at = "verify" /\ thread'[t].at = "bumped"
        /\ \A u \in Actors : u # t => thread'[u] = thread[u]
        /\ thread'[t].slot = thread[t].slot /\ thread'[t].job = thread[t].job
        /\ thread'[t].generation = slot[thread[t].slot].generation + 1
        /\ \A r \in Slots : r # thread[t].slot => slot'[r] = slot[r]
        /\ \A r \in Slots : slot'[r].status = slot[r].status
        /\ slot'[thread[t].slot].generation = slot[thread[t].slot].generation + 1
        /\ slot'[thread[t].slot].live = None /\ ~slot'[thread[t].slot].expected
        /\ UNCHANGED <<child, panel, strays>>
    BY <1>9, <1>10, <1>2, Numbers DEF Bumps, OnlyThread, OnlySlot, OnlyChild, SameThread, SameSlot, EndsChild, Rest, AtEase, Of, OffDuty
  <2>2. ASSUME NEW u \in Actors PROVE u # t => ~Acts(u)'
    BY <1>0, <1>9, <1>10, <2>0, <2>1, <2>2, Numbers DEF Acts, Starts, Heir, CalledOff, Newer, Of, StartStages, WaiterFits, WorkerFits, OffDuty
  <2>3. OneActs'
    BY <1>0, <1>9, <1>10, <2>0, <2>1, <2>2, Numbers DEF OneActs
  <2>4. ASSUME NEW u \in Actors PROVE ActInKnown(u)'
    BY <1>0, <1>9, <1>10, <2>0, <2>1, <2>2, <2>4, Numbers DEF ActsInKnown, ActInKnown, WorksOnKnown, WorkerFits
  <2>5. ASSUME NEW u \in Actors PROVE StartCurrent(u)'
    <3>1. CASE Acts(u)'
      BY <1>0, <1>9, <1>10, <2>0, <2>1, <2>2, <2>5, <3>1, Numbers DEF StartsCurrent, StartCurrent, Starts, Newer, Of, StartStages, OneActs, WaiterFits, WorkerFits, OffDuty
    <3>2. CASE ~Acts(u)'
      BY <3>2 DEF StartCurrent, Acts
    <3> QED
      BY <3>1, <3>2
  <2>6. ASSUME NEW k \in Children PROVE Accounted(k)'
    BY <1>0, <1>9, <1>10, <2>0, <2>1, <2>2, <2>6, Numbers DEF Accounted, Alive, Greets
  <2>7. StopIsStop'
    BY <1>0, <1>9, <1>10, <2>0, <2>1, <2>2, Numbers DEF StopIsStop, Stops, StartStages
  <2>8. ASSUME NEW k \in Children PROVE Owns(k)'
    BY <1>0, <1>9, <1>10, <2>0, <2>1, <2>8, Numbers DEF WatchersOwn, Owns, Newer, Of, WaiterFits, OffDuty
  <2> QED
    BY <2>2, <2>3, <2>4, <2>5, <2>6, <2>7, <2>8 DEF ActsInKnown, StartsCurrent, AliveIsAccountedFor, WatchersOwn
<1>3. ASSUME ShowsStarting(t), Clean', Clean
      PROVE  OneActs' /\ ActsInKnown' /\ StartsCurrent' /\ AliveIsAccountedFor' /\ StopIsStop' /\ WatchersOwn'
  <2>0. /\ OneActs /\ ActsInKnown /\ StartsCurrent /\ AliveIsAccountedFor /\ StopIsStop /\ WatchersOwn
        /\ ~Stops /\ (\A u \in Actors : u # t => ~Acts(u))
        /\ (\A k \in Alive : Greets(t) /\ thread[t].child = k) /\ StartCurrent(t)
    BY <1>3, <1>10, ActsAlone DEF CleanInv, StartsCurrent
  <2>1. /\ thread[t].at = "bumped" /\ thread'[t].at = "spawning"
        /\ \A u \in Actors : u # t => thread'[u] = thread[u]
        /\ thread'[t].slot = thread[t].slot /\ thread'[t].job = thread[t].job
        /\ thread'[t].generation = thread[t].generation /\ thread'[t].child = thread[t].child
        /\ \A r \in Slots : slot'[r].live = slot[r].live
        /\ \A r \in Slots : slot'[r].generation = slot[r].generation
        /\ \A r \in Slots : slot'[r].expected = slot[r].expected
        /\ slot'[thread[t].slot].status = "starting"
        /\ \A r \in Slots : r # thread[t].slot => slot'[r].status = slot[r].status
        /\ UNCHANGED <<child, panel, strays>>
    BY <1>9, <1>10, <1>3, Numbers DEF ShowsStarting, OnlyThread, OnlySlot, OnlyChild, SameThread, SameSlot, EndsChild, Rest, AtEase, Of, OffDuty
  <2>2. ASSUME NEW u \in Actors PROVE u # t => ~Acts(u)'
    BY <1>0, <1>9, <1>10, <2>0, <2>1, <2>2, Numbers DEF Acts, Starts, Heir, CalledOff, Newer, Of, StartStages, WaiterFits, WorkerFits, OffDuty
  <2>3. OneActs'
    BY <1>0, <1>9, <1>10, <2>0, <2>1, <2>2, Numbers DEF OneActs
  <2>4. ASSUME NEW u \in Actors PROVE ActInKnown(u)'
    BY <1>0, <1>9, <1>10, <2>0, <2>1, <2>2, <2>4, Numbers DEF ActsInKnown, ActInKnown, WorksOnKnown, WorkerFits
  <2>5. ASSUME NEW u \in Actors PROVE StartCurrent(u)'
    <3>1. CASE Acts(u)'
      BY <1>0, <1>9, <1>10, <2>0, <2>1, <2>2, <2>5, <3>1, Numbers DEF StartsCurrent, StartCurrent, Starts, Newer, Of, StartStages, OneActs, WaiterFits, WorkerFits, OffDuty
    <3>2. CASE ~Acts(u)'
      BY <3>2 DEF StartCurrent, Acts
    <3> QED
      BY <3>1, <3>2
  <2>6. ASSUME NEW k \in Children PROVE Accounted(k)'
    BY <1>0, <1>9, <1>10, <2>0, <2>1, <2>2, <2>6, Numbers DEF Accounted, Alive, Greets
  <2>7. StopIsStop'
    BY <1>0, <1>9, <1>10, <2>0, <2>1, <2>2, Numbers DEF StopIsStop, Stops, StartStages
  <2>8. ASSUME NEW k \in Children PROVE Owns(k)'
    BY <1>0, <1>9, <1>10, <2>0, <2>1, <2>8, Numbers DEF WatchersOwn, Owns, Newer, Of, WaiterFits, OffDuty
  <2> QED
    BY <2>2, <2>3, <2>4, <2>5, <2>6, <2>7, <2>8 DEF ActsInKnown, StartsCurrent, AliveIsAccountedFor, WatchersOwn
<1>4. ASSUME NEW k0 \in Children, Spawns(t, k0), Clean', Clean
      PROVE  OneActs' /\ ActsInKnown' /\ StartsCurrent' /\ AliveIsAccountedFor' /\ StopIsStop' /\ WatchersOwn'
  <2>0. /\ OneActs /\ ActsInKnown /\ StartsCurrent /\ AliveIsAccountedFor /\ StopIsStop /\ WatchersOwn
        /\ ~Stops /\ (\A u \in Actors : u # t => ~Acts(u))
        /\ (\A k \in Alive : Greets(t) /\ thread[t].child = k) /\ StartCurrent(t)
    BY <1>4, <1>10, ActsAlone DEF CleanInv, StartsCurrent
  <2>1. /\ thread[t].at = "spawning" /\ thread'[t].at = "greeting"
        /\ \A u \in Actors : u # t => thread'[u] = thread[u]
        /\ thread'[t].slot = thread[t].slot /\ thread'[t].job = thread[t].job
        /\ thread'[t].generation = thread[t].generation /\ thread'[t].child = k0
        /\ child[k0].at = "unborn" /\ child'[k0].at = "greeting" /\ child'[k0].of = thread[t].slot
        /\ \A j \in Children : j # k0 => child'[j] = child[j]
        /\ UNCHANGED <<slot, panel, strays>>
    BY <1>9, <1>10, <1>4, Numbers DEF Spawns, OnlyThread, OnlySlot, OnlyChild, SameThread, SameSlot, EndsChild, Rest, AtEase, Of, OffDuty
  <2>2. ASSUME NEW u \in Actors PROVE u # t => ~Acts(u)'
    BY <1>0, <1>9, <1>10, <2>0, <2>1, <2>2, Numbers DEF Acts, Starts, Heir, CalledOff, Newer, Of, StartStages, WaiterFits, WorkerFits, OffDuty
  <2>3. OneActs'
    BY <1>0, <1>9, <1>10, <2>0, <2>1, <2>2, Numbers DEF OneActs
  <2>4. ASSUME NEW u \in Actors PROVE ActInKnown(u)'
    BY <1>0, <1>9, <1>10, <2>0, <2>1, <2>2, <2>4, Numbers DEF ActsInKnown, ActInKnown, WorksOnKnown, WorkerFits
  <2>5. ASSUME NEW u \in Actors PROVE StartCurrent(u)'
    <3>1. CASE Acts(u)'
      BY <1>0, <1>9, <1>10, <2>0, <2>1, <2>2, <2>5, <3>1, Numbers DEF StartsCurrent, StartCurrent, Starts, Newer, Of, StartStages, OneActs, WaiterFits, WorkerFits, OffDuty
    <3>2. CASE ~Acts(u)'
      BY <3>2 DEF StartCurrent, Acts
    <3> QED
      BY <3>1, <3>2
  <2>6. ASSUME NEW k \in Children PROVE Accounted(k)'
    BY <1>0, <1>9, <1>10, <2>0, <2>1, <2>2, <2>6, Numbers DEF Accounted, Alive, Greets
  <2>7. StopIsStop'
    BY <1>0, <1>9, <1>10, <2>0, <2>1, <2>2, Numbers DEF StopIsStop, Stops, StartStages
  <2>8. ASSUME NEW k \in Children PROVE Owns(k)'
    BY <1>0, <1>9, <1>10, <2>0, <2>1, <2>8, Numbers DEF WatchersOwn, Owns, Newer, Of, WaiterFits, OffDuty
  <2> QED
    BY <2>2, <2>3, <2>4, <2>5, <2>6, <2>7, <2>8 DEF ActsInKnown, StartsCurrent, AliveIsAccountedFor, WatchersOwn
<1>5. ASSUME Greeted(t), Clean', Clean
      PROVE  OneActs' /\ ActsInKnown' /\ StartsCurrent' /\ AliveIsAccountedFor' /\ StopIsStop' /\ WatchersOwn'
  <2>0. /\ OneActs /\ ActsInKnown /\ StartsCurrent /\ AliveIsAccountedFor /\ StopIsStop /\ WatchersOwn
        /\ ~Stops /\ (\A u \in Actors : u # t => ~Acts(u))
        /\ (\A k \in Alive : Greets(t) /\ thread[t].child = k) /\ StartCurrent(t)
    BY <1>5, <1>10, ActsAlone DEF CleanInv, StartsCurrent
  <2>1. /\ thread[t].at = "greeting" /\ thread'[t].at = "greeted"
        /\ thread[t].child \in Alive
        /\ \A u \in Actors : u # t => thread'[u] = thread[u]
        /\ thread'[t].slot = thread[t].slot /\ thread'[t].job = thread[t].job
        /\ thread'[t].generation = thread[t].generation /\ thread'[t].child = thread[t].child
        /\ \A r \in Slots : slot'[r].generation = slot[r].generation
        /\ \A r \in Slots : slot'[r].expected = slot[r].expected
        /\ \A r \in Slots : slot'[r].status = slot[r].status
        /\ slot'[thread[t].slot].live = thread[t].child
        /\ \A r \in Slots : r # thread[t].slot => slot'[r].live = slot[r].live
        /\ \A j \in Children : child'[j].of = child[j].of
        /\ child'[thread[t].child].at = "up"
        /\ \A j \in Children : j # thread[t].child => child'[j].at = child[j].at
        /\ UNCHANGED <<panel, strays>>
    BY <1>9, <1>10, <1>5, Numbers DEF Greeted, OnlyThread, OnlySlot, OnlyChild, SameThread, SameSlot, EndsChild, Rest, AtEase, Of, OffDuty
  <2>2. ASSUME NEW u \in Actors PROVE u # t => ~Acts(u)'
    BY <1>0, <1>9, <1>10, <2>0, <2>1, <2>2, Numbers DEF Acts, Starts, Heir, CalledOff, Newer, Of, StartStages, WaiterFits, WorkerFits, OffDuty
  <2>3. OneActs'
    BY <1>0, <1>9, <1>10, <2>0, <2>1, <2>2, Numbers DEF OneActs
  <2>4. ASSUME NEW u \in Actors PROVE ActInKnown(u)'
    BY <1>0, <1>9, <1>10, <2>0, <2>1, <2>2, <2>4, Numbers DEF ActsInKnown, ActInKnown, WorksOnKnown, WorkerFits
  <2>5. ASSUME NEW u \in Actors PROVE StartCurrent(u)'
    <3>1. CASE Acts(u)'
      BY <1>0, <1>9, <1>10, <2>0, <2>1, <2>2, <2>5, <3>1, Numbers DEF StartsCurrent, StartCurrent, Starts, Newer, Of, StartStages, OneActs, WaiterFits, WorkerFits, OffDuty
    <3>2. CASE ~Acts(u)'
      BY <3>2 DEF StartCurrent, Acts
    <3> QED
      BY <3>1, <3>2
  <2>6. ASSUME NEW k \in Children PROVE Accounted(k)'
    BY <1>0, <1>9, <1>10, <2>0, <2>1, <2>2, <2>6, Numbers DEF Accounted, Alive, Greets
  <2>7. StopIsStop'
    BY <1>0, <1>9, <1>10, <2>0, <2>1, <2>2, Numbers DEF StopIsStop, Stops, StartStages
  <2>8. ASSUME NEW k \in Children PROVE Owns(k)'
    BY <1>0, <1>9, <1>10, <2>0, <2>1, <2>8, Numbers DEF WatchersOwn, Owns, Acts, Heir, CalledOff, Newer, Of, WaiterFits, OffDuty, StartCurrent, StartStages
  <2> QED
    BY <2>2, <2>3, <2>4, <2>5, <2>6, <2>7, <2>8 DEF ActsInKnown, StartsCurrent, AliveIsAccountedFor, WatchersOwn
<1>6. ASSUME Serves(t), Clean', Clean
      PROVE  OneActs' /\ ActsInKnown' /\ StartsCurrent' /\ AliveIsAccountedFor' /\ StopIsStop' /\ WatchersOwn'
  <2>0. /\ OneActs /\ ActsInKnown /\ StartsCurrent /\ AliveIsAccountedFor /\ StopIsStop /\ WatchersOwn
        /\ ~Stops /\ (\A u \in Actors : u # t => ~Acts(u))
        /\ (\A k \in Alive : Greets(t) /\ thread[t].child = k) /\ StartCurrent(t)
    BY <1>6, <1>10, ActsAlone DEF CleanInv, StartsCurrent
  <2>1. /\ thread[t].at = "greeted" /\ thread[t].child # t
        /\ \A u \in Actors : u # t /\ u # thread[t].child => thread'[u] = thread[u]
        /\ t = Worker => /\ thread'[t].at = "activate" /\ thread'[t].slot = thread[t].slot
                       /\ thread'[t].job = thread[t].job
        /\ t # Worker => thread'[t].at = "over" /\ thread'[t].job = "none"
        /\ thread'[thread[t].child].at = "watching" /\ thread'[thread[t].child].slot = thread[t].slot
        /\ thread'[thread[t].child].generation = thread[t].generation
        /\ \A r \in Slots : slot'[r].live = slot[r].live
        /\ \A r \in Slots : slot'[r].generation = slot[r].generation
        /\ \A r \in Slots : slot'[r].expected = slot[r].expected
        /\ slot'[thread[t].slot].status = "running"
        /\ \A r \in Slots : r # thread[t].slot => slot'[r].status = slot[r].status
        /\ UNCHANGED <<child, panel>>
        /\ t # Worker => "unshown" \in strays'
    BY <1>9, <1>10, <1>6, Numbers DEF Serves, OnlyThread, OnlySlot, OnlyChild, SameThread, SameSlot, EndsChild, Rest, AtEase, Of, OffDuty
  <2>2. ASSUME NEW u \in Actors PROVE u # thread[t].child => ~Acts(u)'
    BY <1>0, <1>9, <1>10, <2>0, <2>1, <2>2, Numbers DEF Acts, Starts, Heir, CalledOff, Newer, Of, StartStages, WaiterFits, WorkerFits, OffDuty
  <2>3. OneActs'
    BY <1>0, <1>9, <1>10, <2>0, <2>1, <2>2, Numbers DEF OneActs
  <2>4. ASSUME NEW u \in Actors PROVE ActInKnown(u)'
    BY <1>0, <1>9, <1>10, <2>0, <2>1, <2>2, <2>4, Numbers DEF ActsInKnown, ActInKnown, WorksOnKnown, WorkerFits
  <2>5. ASSUME NEW u \in Actors PROVE StartCurrent(u)'
    <3>1. CASE Acts(u)'
      BY <1>0, <1>9, <1>10, <2>0, <2>1, <2>2, <2>5, <3>1, Numbers DEF StartsCurrent, StartCurrent, Starts, Newer, Of, StartStages, OneActs, WaiterFits, WorkerFits, OffDuty
    <3>2. CASE ~Acts(u)'
      BY <3>2 DEF StartCurrent, Acts
    <3> QED
      BY <3>1, <3>2
  <2>6. ASSUME NEW k \in Children PROVE Accounted(k)'
    BY <1>0, <1>9, <1>10, <2>0, <2>1, <2>2, <2>6, Numbers DEF Accounted, Alive, Greets, GreetFits, Heir, CalledOff, Newer, Of, StartCurrent, StartStages
  <2>7. StopIsStop'
    BY <1>0, <1>9, <1>10, <2>0, <2>1, <2>2, Numbers DEF StopIsStop, Stops, StartStages
  <2>8. ASSUME NEW k \in Children PROVE Owns(k)'
    <3>1. CASE k = thread[t].child
      BY <1>9, <1>10, <2>0, <2>1, <3>1, Numbers DEF Owns, Newer, Of, StartCurrent, StartStages
    <3>2. CASE k = t
      BY <2>1, <3>1, <3>2, Numbers DEF Owns
    <3>3. CASE k # t /\ k # thread[t].child
      <4>1. thread'[k] = thread[k] /\ Owns(k) /\ (thread[k].at = "watching" => thread[k].slot \in Slots)
        BY <1>0, <2>0, <2>1, <2>8, <3>3, Numbers DEF WatchersOwn, WaiterFits, OffDuty
      <4> QED
        BY <2>1, <4>1 DEF Owns, Newer, Of
    <3> QED
      BY <3>1, <3>2, <3>3
  <2> QED
    BY <2>2, <2>3, <2>4, <2>5, <2>6, <2>7, <2>8 DEF ActsInKnown, StartsCurrent, AliveIsAccountedFor, WatchersOwn
<1>20. Clean' => Clean
  BY DEF StarterDoes, GivesUp, Bumps, ShowsStarting, Spawns, Greeted, Serves, Clean
<1> QED
  BY <1>1, <1>2, <1>3, <1>4, <1>5, <1>6, <1>20 DEF StarterDoes, CleanInv

\* So does the thread that waited when it starts the module again.
LEMMA WaiterClean ==
  ASSUME HostTyped, HostTyped', CleanInv, NEW k0 \in Children, WaiterDoes(k0),
         UNCHANGED known
  PROVE  CleanInv'
<1>0. /\ WorkerFits /\ (\A k \in Children : WaiterFits(k)) /\ (\A k \in Children : ChildFits(k))
      /\ (\A r \in Slots : SlotFits(r)) /\ (\A u \in Actors : GreetFits(u)) /\ GreetApart
      /\ (\A k \in Children : Tended(k)) /\ StopHolds /\ WorksOnKnown
  BY DEF HostTyped, ThreadsTyped, ChildrenTyped, StartersTyped
<1>9. /\ \A u \in Actors : thread[u].generation \in Nat /\ thread[u].slot \in Slots \cup {None}
                            /\ thread[u].child \in Children \cup {None}
      /\ \A r \in Slots : slot[r].generation \in Nat /\ slot'[r].generation \in Nat
                          /\ slot[r].live \in Children \cup {None} /\ slot[r].status \in Statuses
      /\ \A k \in Children : child[k].at \in {"unborn", "greeting", "up", "ended"}
      /\ known \in Slots \cup {None} /\ panel \in Children \cup {None}
  BY DEF HostTyped, HostDataTyped, Thread, SlotState
<1>10. k0 \in Actors /\ k0 # Worker /\ (thread[k0].at \notin OffDuty => thread[k0].slot \in Slots)
  BY <1>0, Numbers DEF WaiterFits
<1>1. ASSUME Dies(k0), Clean', Clean
      PROVE  OneActs' /\ ActsInKnown' /\ StartsCurrent' /\ AliveIsAccountedFor' /\ StopIsStop' /\ WatchersOwn'
  <2>0. OneActs /\ ActsInKnown /\ StartsCurrent /\ AliveIsAccountedFor /\ StopIsStop /\ WatchersOwn
    BY <1>1 DEF CleanInv
  <2>1. /\ UNCHANGED <<thread, slot, panel, strays>>
        /\ \A j \in Children : child'[j].of = child[j].of
        /\ child[k0].at \in {"greeting", "up"} /\ child'[k0].at = "ended"
        /\ \A j \in Children : j # k0 => child'[j].at = child[j].at
    BY <1>9, <1>10, <1>1, Numbers DEF Dies, Alive, OnlyThread, OnlySlot, OnlyChild, SameThread, SameSlot, EndsChild, Rest, AtEase, Of, OffDuty
  <2>2. ASSUME NEW u \in Actors PROVE Acts(u)' => Acts(u) /\ thread'[u].slot = thread[u].slot
    BY <1>0, <1>9, <1>10, <2>0, <2>1, <2>2, Numbers DEF Acts, Starts, Heir, CalledOff, Newer, Of, StartStages, WaiterFits, WorkerFits, OffDuty
  <2>3. OneActs'
    BY <1>0, <1>9, <1>10, <2>0, <2>1, <2>2, Numbers DEF OneActs
  <2>4. ASSUME NEW u \in Actors PROVE ActInKnown(u)'
    BY <1>0, <1>9, <1>10, <2>0, <2>1, <2>2, <2>4, Numbers DEF ActsInKnown, ActInKnown, WorksOnKnown, WorkerFits
  <2>5. ASSUME NEW u \in Actors PROVE StartCurrent(u)'
    BY <1>0, <1>9, <1>10, <2>0, <2>1, <2>2, <2>5, Numbers DEF StartsCurrent, StartCurrent, Starts, Acts, Newer, Of, StartStages, OneActs, WaiterFits, OffDuty
  <2>6. ASSUME NEW k \in Children PROVE Accounted(k)'
    BY <1>0, <1>9, <1>10, <2>0, <2>1, <2>2, <2>6, Numbers DEF AliveIsAccountedFor, Accounted, Alive, Greets, ChildFits, Acts, Starts, Heir, CalledOff, Newer, Of, StartStages
  <2>7. StopIsStop'
    BY <1>0, <1>9, <1>10, <2>0, <2>1, <2>2, Numbers DEF StopIsStop, Stops, Alive, Of, WorkerFits, StartStages
  <2>8. ASSUME NEW k \in Children PROVE Owns(k)'
    BY <1>0, <1>9, <1>10, <2>0, <2>1, <2>8, Numbers DEF WatchersOwn, Owns, Newer, Of, WaiterFits, OffDuty
  <2> QED
    BY <2>2, <2>3, <2>4, <2>5, <2>6, <2>7, <2>8 DEF ActsInKnown, StartsCurrent, AliveIsAccountedFor, WatchersOwn
<1>2. ASSUME Notices(k0), Clean', Clean
      PROVE  OneActs' /\ ActsInKnown' /\ StartsCurrent' /\ AliveIsAccountedFor' /\ StopIsStop' /\ WatchersOwn'
  <2>0. OneActs /\ ActsInKnown /\ StartsCurrent /\ AliveIsAccountedFor /\ StopIsStop /\ WatchersOwn
    BY <1>2 DEF CleanInv
  <2>1. /\ thread[k0].at = "watching" /\ child[k0].at = "ended"
        /\ \A u \in Actors : u # k0 => thread'[u] = thread[u]
        /\ \A r \in Slots : slot'[r].generation = slot[r].generation
        /\ \A r \in Slots : slot'[r].expected = slot[r].expected
        /\ \A r \in Slots : slot'[r].status = slot[r].status
        /\ \A r \in Slots : r # thread[k0].slot => slot'[r].live = slot[r].live
        /\ \/ /\ slot[thread[k0].slot].generation # thread[k0].generation /\ thread'[k0].at = "over"
              /\ UNCHANGED slot
           \/ /\ slot[thread[k0].slot].generation = thread[k0].generation
              /\ thread'[k0].at = IF slot[thread[k0].slot].expected THEN "parting" ELSE "falling"
              /\ thread'[k0].slot = thread[k0].slot /\ thread'[k0].generation = thread[k0].generation
              /\ slot'[thread[k0].slot].live = None
        /\ UNCHANGED <<child, panel, strays>>
    BY <1>9, <1>10, <1>2, Numbers DEF Notices, Newer, OnlyThread, OnlySlot, OnlyChild, SameThread, SameSlot, EndsChild, Rest, AtEase, Of, OffDuty
  <2>2. ASSUME NEW u \in Actors PROVE Acts(u)' => Acts(u) /\ thread'[u].slot = thread[u].slot
    BY <1>0, <1>9, <1>10, <2>0, <2>1, <2>2, Numbers DEF Acts, Starts, Heir, CalledOff, Newer, Of, StartStages, WaiterFits, WorkerFits, OffDuty
  <2>3. OneActs'
    BY <1>0, <1>9, <1>10, <2>0, <2>1, <2>2, Numbers DEF OneActs
  <2>4. ASSUME NEW u \in Actors PROVE ActInKnown(u)'
    BY <1>0, <1>9, <1>10, <2>0, <2>1, <2>2, <2>4, Numbers DEF ActsInKnown, ActInKnown, WorksOnKnown, WorkerFits
  <2>5. ASSUME NEW u \in Actors PROVE StartCurrent(u)'
    <3>1. CASE Starts(u)' /\ (u = Worker => thread'[u].at # "verify")
      <4>1. u # k0 /\ thread'[u] = thread[u] /\ Starts(u) /\ thread[u].slot \in Slots
        BY <1>0, <2>1, <2>5, <3>1, Numbers DEF Starts, StartStages, WaiterFits, WorkerFits, OffDuty
      <4>2. StartCurrent(u) /\ ~Newer(u) /\ ~Of(u).expected
        BY <2>0, <2>5, <3>1, <4>1 DEF StartsCurrent, StartCurrent
      <4>3. ASSUME thread[u].slot = thread[k0].slot PROVE UNCHANGED slot
        <5>1. ~Heir(k0)
          BY <1>10, <2>0, <2>5, <4>1 DEF OneActs, Acts
        <5> QED
          BY <2>1, <4>2, <4>3, <5>1 DEF Heir, CalledOff, Newer, Of
      <4>4. /\ slot'[thread[u].slot].live = slot[thread[u].slot].live
            /\ slot'[thread[u].slot].generation = slot[thread[u].slot].generation
            /\ slot'[thread[u].slot].expected = slot[thread[u].slot].expected
        BY <2>1, <4>1, <4>3
      <4> QED
        BY <4>1, <4>2, <4>4, <3>1 DEF StartCurrent, Starts, Newer, Of
    <3> QED
      BY <3>1 DEF StartCurrent
  <2>6. ASSUME NEW k \in Children PROVE Accounted(k)'
    <3>1. CASE k \in Alive'
      <4>1. k \in Alive /\ k # k0 /\ thread'[k] = thread[k] /\ thread'[Worker] = thread[Worker] /\ k \in Actors
        BY <1>10, <2>1, <2>6, <3>1, Numbers DEF Alive
      <4>2. CASE \E t \in Actors : Greets(t) /\ thread[t].child = k
        BY <2>1, <4>2 DEF Accounted, Greets
      <4>3. CASE ~\E t \in Actors : Greets(t) /\ thread[t].child = k
        <5>1. /\ thread[k].at = "watching" /\ Of(k).live = k /\ thread[k].slot \in Slots
              /\ \/ Heir(k)
                 \/ /\ thread[Worker].at \in {"marked", "stopping"}
                    /\ thread[Worker].slot = thread[k].slot /\ thread[Worker].child = k
          BY <1>0, <2>0, <2>6, <4>1, <4>3 DEF AliveIsAccountedFor, Accounted, WaiterFits, OffDuty
        <5>2. Of(k0).live = k0 \/ UNCHANGED slot
          BY <2>0, <2>1 DEF WatchersOwn, Owns, Newer, Of
        <5>3. thread[k].slot # thread[k0].slot \/ UNCHANGED slot
          BY <4>1, <5>1, <5>2 DEF Of
        <5>4. slot'[thread[k].slot].live = k
          BY <2>1, <5>1, <5>3 DEF Of
        <5>5. Heir(k) => Heir(k)'
          BY <2>1, <4>1, <5>1 DEF Heir, CalledOff, Newer, Of
        <5> QED
          BY <4>1, <5>1, <5>4, <5>5 DEF Accounted, Of
      <4> QED
        BY <4>2, <4>3
    <3> QED
      BY <3>1 DEF Accounted
  <2>7. StopIsStop'
    BY <1>0, <1>9, <1>10, <2>0, <2>1, <2>2, Numbers DEF StopIsStop, Stops, Alive, Of, WorkerFits, StartStages
  <2>8. ASSUME NEW k \in Children PROVE Owns(k)'
    BY <1>0, <1>9, <1>10, <2>0, <2>1, <2>8, Numbers DEF WatchersOwn, Owns, Newer, Of, WaiterFits, OffDuty
  <2> QED
    BY <2>2, <2>3, <2>4, <2>5, <2>6, <2>7, <2>8 DEF ActsInKnown, StartsCurrent, AliveIsAccountedFor, WatchersOwn
<1>3. ASSUME SendsGone(k0), Clean', Clean
      PROVE  OneActs' /\ ActsInKnown' /\ StartsCurrent' /\ AliveIsAccountedFor' /\ StopIsStop' /\ WatchersOwn'
  <2>0. OneActs /\ ActsInKnown /\ StartsCurrent /\ AliveIsAccountedFor /\ StopIsStop /\ WatchersOwn
    BY <1>3 DEF CleanInv
  <2>1. /\ \A u \in Actors : u # k0 => thread'[u] = thread[u]
        /\ \/ thread[k0].at = "parting" /\ thread'[k0].at = "over"
           \/ thread[k0].at = "falling" /\ thread'[k0].at = "deciding" /\ thread'[k0].slot = thread[k0].slot /\ thread'[k0].generation = thread[k0].generation
        /\ panel' = None
        /\ panel # None /\ panel # k0 => "wiped" \in strays'
        /\ UNCHANGED <<slot, child>>
    BY <1>9, <1>10, <1>3, Numbers DEF SendsGone, OnlyThread, OnlySlot, OnlyChild, SameThread, SameSlot, EndsChild, Rest, AtEase, Of, OffDuty
  <2>2. ASSUME NEW u \in Actors PROVE Acts(u)' => Acts(u) /\ thread'[u].slot = thread[u].slot
    BY <1>0, <1>9, <1>10, <2>0, <2>1, <2>2, Numbers DEF Acts, Starts, Heir, CalledOff, Newer, Of, StartStages, WaiterFits, WorkerFits, OffDuty
  <2>3. OneActs'
    BY <1>0, <1>9, <1>10, <2>0, <2>1, <2>2, Numbers DEF OneActs
  <2>4. ASSUME NEW u \in Actors PROVE ActInKnown(u)'
    BY <1>0, <1>9, <1>10, <2>0, <2>1, <2>2, <2>4, Numbers DEF ActsInKnown, ActInKnown, WorksOnKnown, WorkerFits
  <2>5. ASSUME NEW u \in Actors PROVE StartCurrent(u)'
    BY <1>0, <1>9, <1>10, <2>0, <2>1, <2>2, <2>5, Numbers DEF StartsCurrent, StartCurrent, Starts, Acts, Newer, Of, StartStages, OneActs, WaiterFits, OffDuty
  <2>6. ASSUME NEW k \in Children PROVE Accounted(k)'
    BY <1>0, <1>9, <1>10, <2>0, <2>1, <2>2, <2>6, Numbers DEF AliveIsAccountedFor, Accounted, Alive, Greets, ChildFits, Acts, Starts, Heir, CalledOff, Newer, Of, StartStages
  <2>7. StopIsStop'
    BY <1>0, <1>9, <1>10, <2>0, <2>1, <2>2, Numbers DEF StopIsStop, Stops, Alive, Of, WorkerFits, StartStages
  <2>8. ASSUME NEW k \in Children PROVE Owns(k)'
    BY <1>0, <1>9, <1>10, <2>0, <2>1, <2>8, Numbers DEF WatchersOwn, Owns, Newer, Of, WaiterFits, OffDuty
  <2> QED
    BY <2>2, <2>3, <2>4, <2>5, <2>6, <2>7, <2>8 DEF ActsInKnown, StartsCurrent, AliveIsAccountedFor, WatchersOwn
<1>4. ASSUME Judges(k0), Clean', Clean
      PROVE  OneActs' /\ ActsInKnown' /\ StartsCurrent' /\ AliveIsAccountedFor' /\ StopIsStop' /\ WatchersOwn'
  <2>0. OneActs /\ ActsInKnown /\ StartsCurrent /\ AliveIsAccountedFor /\ StopIsStop /\ WatchersOwn
    BY <1>4 DEF CleanInv
  <2>1. /\ thread[k0].at = "deciding"
        /\ \A u \in Actors : u # k0 => thread'[u] = thread[u]
        /\ \A r \in Slots : slot'[r].live = slot[r].live
        /\ \A r \in Slots : slot'[r].generation = slot[r].generation
        /\ \A r \in Slots : slot'[r].expected = slot[r].expected
        /\ \A r \in Slots : r # thread[k0].slot => slot'[r].status = slot[r].status
        /\ \/ /\ thread'[k0].at = "waiting" /\ thread'[k0].slot = thread[k0].slot /\ thread'[k0].generation = thread[k0].generation
              /\ slot'[thread[k0].slot].status = "crashed"
           \/ thread'[k0].at = "over" /\ slot'[thread[k0].slot].status = "disabled"
        /\ CalledOff(k0) => "stuck" \in strays'
        /\ UNCHANGED <<child, panel>>
    BY <1>9, <1>10, <1>4, Numbers DEF Judges, OnlyThread, OnlySlot, OnlyChild, SameThread, SameSlot, EndsChild, Rest, AtEase, Of, OffDuty
  <2>2. ASSUME NEW u \in Actors PROVE Acts(u)' => Acts(u) /\ thread'[u].slot = thread[u].slot
    BY <1>0, <1>9, <1>10, <2>0, <2>1, <2>2, Numbers DEF Acts, Starts, Heir, CalledOff, Newer, Of, StartStages, WaiterFits, WorkerFits, OffDuty
  <2>3. OneActs'
    BY <1>0, <1>9, <1>10, <2>0, <2>1, <2>2, Numbers DEF OneActs
  <2>4. ASSUME NEW u \in Actors PROVE ActInKnown(u)'
    BY <1>0, <1>9, <1>10, <2>0, <2>1, <2>2, <2>4, Numbers DEF ActsInKnown, ActInKnown, WorksOnKnown, WorkerFits
  <2>5. ASSUME NEW u \in Actors PROVE StartCurrent(u)'
    <3>1. CASE u = k0
      BY <2>1, <3>1 DEF StartCurrent, Starts, StartStages
    <3>2. CASE u # k0
      <4>1. thread'[u] = thread[u] /\ StartCurrent(u) /\ (Starts(u) => thread[u].slot \in Slots)
        BY <1>0, <2>0, <2>1, <2>5, <3>2, Numbers DEF StartsCurrent, Starts, StartStages, WaiterFits, WorkerFits, OffDuty
      <4> QED
        BY <2>1, <4>1 DEF StartCurrent, Starts, Newer, Of
    <3> QED
      BY <3>1, <3>2
  <2>6. ASSUME NEW k \in Children PROVE Accounted(k)'
    <3>1. CASE k \in Alive'
      <4>1. k \in Alive /\ k # k0 /\ thread'[k] = thread[k] /\ thread'[Worker] = thread[Worker] /\ k \in Actors
        BY <1>0, <1>10, <2>1, <2>6, <3>1, Numbers DEF Alive, ChildFits
      <4>2. CASE \E t \in Actors : Greets(t) /\ thread[t].child = k
        BY <2>1, <4>2 DEF Accounted, Greets
      <4>3. CASE ~\E t \in Actors : Greets(t) /\ thread[t].child = k
        <5>1. /\ thread[k].at = "watching" /\ Of(k).live = k /\ thread[k].slot \in Slots
              /\ \/ Heir(k)
                 \/ /\ thread[Worker].at \in {"marked", "stopping"}
                    /\ thread[Worker].slot = thread[k].slot /\ thread[Worker].child = k
          BY <1>0, <2>0, <2>6, <4>1, <4>3 DEF AliveIsAccountedFor, Accounted, WaiterFits, OffDuty
        <5>2. Heir(k) => Heir(k)'
          BY <2>1, <4>1, <5>1 DEF Heir, CalledOff, Newer, Of
        <5> QED
          BY <2>1, <4>1, <5>1, <5>2 DEF Accounted, Of
      <4> QED
        BY <4>2, <4>3
    <3> QED
      BY <3>1 DEF Accounted
  <2>7. StopIsStop'
    BY <1>0, <1>9, <1>10, <2>0, <2>1, <2>2, Numbers DEF StopIsStop, Stops, Alive, Of, WorkerFits, StartStages
  <2>8. ASSUME NEW k \in Children PROVE Owns(k)'
    BY <1>0, <1>9, <1>10, <2>0, <2>1, <2>8, Numbers DEF WatchersOwn, Owns, Newer, Of, WaiterFits, OffDuty
  <2> QED
    BY <2>2, <2>3, <2>4, <2>5, <2>6, <2>7, <2>8 DEF ActsInKnown, StartsCurrent, AliveIsAccountedFor, WatchersOwn
<1>5. ASSUME Wakes(k0), Clean', Clean
      PROVE  OneActs' /\ ActsInKnown' /\ StartsCurrent' /\ AliveIsAccountedFor' /\ StopIsStop' /\ WatchersOwn'
  <2>0. OneActs /\ ActsInKnown /\ StartsCurrent /\ AliveIsAccountedFor /\ StopIsStop /\ WatchersOwn
    BY <1>5 DEF CleanInv
  <2>1. /\ thread[k0].at = "waiting"
        /\ \A u \in Actors : u # k0 => thread'[u] = thread[u]
        /\ \/ CalledOff(k0) /\ thread'[k0].at = "over"
           \/ ~CalledOff(k0) /\ thread'[k0].at = "verify" /\ thread'[k0].slot = thread[k0].slot /\ thread'[k0].generation = thread[k0].generation
        /\ UNCHANGED <<slot, child, panel, strays>>
    BY <1>9, <1>10, <1>5, Numbers DEF Wakes, OnlyThread, OnlySlot, OnlyChild, SameThread, SameSlot, EndsChild, Rest, AtEase, Of, OffDuty
  <2>2. ASSUME NEW u \in Actors PROVE Acts(u)' => Acts(u) /\ thread'[u].slot = thread[u].slot
    BY <1>0, <1>9, <1>10, <2>0, <2>1, <2>2, Numbers DEF Acts, Starts, Heir, CalledOff, Newer, Of, StartStages, WaiterFits, WorkerFits, OffDuty
  <2>3. OneActs'
    BY <1>0, <1>9, <1>10, <2>0, <2>1, <2>2, Numbers DEF OneActs
  <2>4. ASSUME NEW u \in Actors PROVE ActInKnown(u)'
    BY <1>0, <1>9, <1>10, <2>0, <2>1, <2>2, <2>4, Numbers DEF ActsInKnown, ActInKnown, WorksOnKnown, WorkerFits
  <2>5. ASSUME NEW u \in Actors PROVE StartCurrent(u)'
    <3>1. CASE u = k0
      BY <1>10, <2>1, <3>1 DEF StartCurrent, Starts, StartStages, CalledOff, Newer, Of, OffDuty
    <3>2. CASE u # k0
      <4>1. thread'[u] = thread[u] /\ StartCurrent(u) /\ (Starts(u) => thread[u].slot \in Slots)
        BY <1>0, <2>0, <2>1, <2>5, <3>2, Numbers DEF StartsCurrent, Starts, StartStages, WaiterFits, WorkerFits, OffDuty
      <4> QED
        BY <2>1, <4>1 DEF StartCurrent, Starts, Newer, Of
    <3> QED
      BY <3>1, <3>2
  <2>6. ASSUME NEW k \in Children PROVE Accounted(k)'
    BY <1>0, <1>9, <1>10, <2>0, <2>1, <2>2, <2>6, Numbers DEF AliveIsAccountedFor, Accounted, Alive, Greets, ChildFits, Acts, Starts, Heir, CalledOff, Newer, Of, StartStages
  <2>7. StopIsStop'
    BY <1>0, <1>9, <1>10, <2>0, <2>1, <2>2, Numbers DEF StopIsStop, Stops, Alive, Of, WorkerFits, StartStages
  <2>8. ASSUME NEW k \in Children PROVE Owns(k)'
    BY <1>0, <1>9, <1>10, <2>0, <2>1, <2>8, Numbers DEF WatchersOwn, Owns, Newer, Of, WaiterFits, OffDuty
  <2> QED
    BY <2>2, <2>3, <2>4, <2>5, <2>6, <2>7, <2>8 DEF ActsInKnown, StartsCurrent, AliveIsAccountedFor, WatchersOwn
<1>20. Clean' => Clean
  BY DEF WaiterDoes, Dies, Notices, SendsGone, Judges, Wakes, Clean
<1> QED
  BY <1>1, <1>2, <1>3, <1>4, <1>5, <1>20 DEF WaiterDoes, CleanInv

\* A stop leaves nobody to start the module, unless one was starting it: it is unheeded.
LEMMA StopClean ==
  ASSUME HostTyped, HostTyped', CleanInv, Marks \/ ShowsDisabled \/ EndsIt \/ WaitsForEnd \/ GoesOnAfterStop,
         UNCHANGED known
  PROVE  CleanInv'
<1>0. /\ WorkerFits /\ (\A k \in Children : WaiterFits(k)) /\ (\A k \in Children : ChildFits(k))
      /\ (\A r \in Slots : SlotFits(r)) /\ (\A u \in Actors : GreetFits(u)) /\ GreetApart
      /\ (\A k \in Children : Tended(k)) /\ StopHolds /\ WorksOnKnown
  BY DEF HostTyped, ThreadsTyped, ChildrenTyped, StartersTyped
<1>9. /\ \A u \in Actors : thread[u].generation \in Nat /\ thread[u].slot \in Slots \cup {None}
                            /\ thread[u].child \in Children \cup {None}
      /\ \A r \in Slots : slot[r].generation \in Nat /\ slot'[r].generation \in Nat
                          /\ slot[r].live \in Children \cup {None} /\ slot[r].status \in Statuses
      /\ \A k \in Children : child[k].at \in {"unborn", "greeting", "up", "ended"}
      /\ known \in Slots \cup {None} /\ panel \in Children \cup {None}
  BY DEF HostTyped, HostDataTyped, Thread, SlotState
<1>10. /\ thread[Worker].at # "idle" => thread[Worker].slot \in Slots
       /\ thread[Worker].at = "stopping" => thread[Worker].child \in Children
       /\ thread[Worker].at = "stopped" => thread[Worker].job \in {"remove", "refresh", "sweep"}
  <2>1. thread[Worker].at # "idle" => thread[Worker].slot \in Slots
    BY <1>0 DEF WorkerFits
  <2>2. thread[Worker].at = "stopped" => thread[Worker].job \in {"remove", "refresh", "sweep"}
    BY <1>0 DEF WorkerFits
  <2>3. thread[Worker].at = "stopping" => thread[Worker].child \in Children
    BY <1>0, <1>9, Numbers DEF StopHolds
  <2> QED
    BY <2>1, <2>2, <2>3
<1>1. ASSUME Marks, Clean', Clean
      PROVE  OneActs' /\ ActsInKnown' /\ StartsCurrent' /\ AliveIsAccountedFor' /\ StopIsStop' /\ WatchersOwn'
  <2>0. /\ OneActs /\ ActsInKnown /\ StartsCurrent /\ AliveIsAccountedFor /\ StopIsStop /\ WatchersOwn
        /\ Stops => slot[thread[Worker].slot].expected
        /\ Stops => \A u \in Actors : ~Acts(u)
        /\ Stops => \A k \in Alive :
             /\ thread[k].at = "watching" /\ slot[thread[k].slot].live = k
             /\ thread[Worker].at \in {"marked", "stopping"}
             /\ thread[Worker].slot = thread[k].slot /\ thread[Worker].child = k
    BY <1>1, StopsAlone DEF CleanInv, Of
  <2>1. /\ thread[Worker].at = "mark"
        /\ \A u \in Actors : u # Worker => thread'[u] = thread[u]
        /\ thread'[Worker].slot = thread[Worker].slot /\ thread'[Worker].job = thread[Worker].job
        /\ thread'[Worker].child = slot[thread[Worker].slot].live
        /\ thread'[Worker].at = IF slot[thread[Worker].slot].live # None \/ IsLive(thread[Worker].slot) THEN "marked" ELSE "stopped"
        /\ \A r \in Slots : slot'[r].live = slot[r].live
        /\ \A r \in Slots : slot'[r].generation = slot[r].generation
        /\ \A r \in Slots : slot'[r].status = slot[r].status
        /\ \A r \in Slots : r # thread[Worker].slot => slot'[r].expected = slot[r].expected
        /\ slot'[thread[Worker].slot].expected
        /\ slot[thread[Worker].slot].live = None /\ slot[thread[Worker].slot].status = "crashed" => "stuck" \in strays'
        /\ Restarting(thread[Worker].slot) => "unheeded" \in strays'
        /\ UNCHANGED <<child, panel>>
    BY <1>9, <1>10, <1>1, Numbers DEF Marks, OnlyThread, OnlySlot, OnlyChild, SameThread, SameSlot, EndsChild, Rest, AtEase, Of, OffDuty
  <2>2. ASSUME NEW u \in Actors PROVE ~Acts(u)'
    <3>1. ASSUME Acts(u)
          PROVE  thread[u].slot = thread[Worker].slot /\ u # Worker /\ ~Starts(u)
      <4>1. thread[u].slot = thread[Worker].slot /\ u # Worker /\ thread[u].slot \in Slots
        BY <1>0, <1>9, <1>10, <2>0, <2>1, <2>2, <3>1, Numbers
        DEF ActsInKnown, ActInKnown, WorksOnKnown, Acts, Starts, Heir, StartStages, WaiterFits, WorkerFits, OffDuty
      <4>2. Starts(u) => Restarting(thread[Worker].slot)
        BY <2>2, <4>1, Numbers DEF Restarting, Starts
      <4> QED
        BY <1>1, <2>1, <4>1, <4>2 DEF Clean
    <3>2. CASE u = Worker
      BY <2>1, <3>2 DEF Acts, Starts, StartStages
    <3>3. CASE u # Worker
      <4>1. thread'[u] = thread[u] /\ (Acts(u)' => Heir(u)')
        BY <2>1, <2>2, <3>1, <3>3 DEF Acts, Starts
      <4>2. ASSUME Heir(u)' PROVE FALSE
        <5>1. thread[u].slot \in Slots /\ thread[u].at \in {"watching", "falling", "deciding", "waiting"}
          BY <1>0, <2>2, <3>3, <4>1, <4>2, Numbers DEF Heir, WaiterFits, OffDuty
        <5>2. thread[u].slot # thread[Worker].slot
          BY <2>1, <4>1, <4>2 DEF Heir, CalledOff, Of
        <5>3. Heir(u)
          BY <2>1, <4>1, <4>2, <5>1, <5>2 DEF Heir, CalledOff, Newer, Of
        <5> QED
          BY <3>1, <3>3, <5>2, <5>3 DEF Acts
      <4> QED
        BY <4>1, <4>2
    <3> QED
      BY <3>2, <3>3
  <2>3. OneActs'
    BY <1>0, <1>9, <1>10, <2>0, <2>1, <2>2, Numbers DEF OneActs
  <2>4. ASSUME NEW u \in Actors PROVE ActInKnown(u)'
    BY <1>0, <1>9, <1>10, <2>0, <2>1, <2>2, <2>4, Numbers DEF ActsInKnown, ActInKnown, WorksOnKnown, WorkerFits
  <2>5. ASSUME NEW u \in Actors PROVE StartCurrent(u)'
    BY <1>0, <1>9, <1>10, <2>0, <2>1, <2>2, <2>5, Numbers DEF StartsCurrent, StartCurrent, Starts, Acts, Newer, Of, StartStages, OneActs, WaiterFits, OffDuty
  <2>6. ASSUME NEW k \in Children PROVE Accounted(k)'
    <3>1. CASE k \in Alive'
      <4>1. k \in Alive /\ thread'[k] = thread[k] /\ k \in Actors /\ k # Worker
        BY <2>1, <2>6, <3>1, Numbers DEF Alive
      <4>2. ASSUME NEW u \in Actors PROVE ~Greets(u)
        <5>1. Greets(u) => u # Worker /\ Starts(u)
          BY <2>1 DEF Greets, Starts, StartStages
        <5> QED
          BY <2>1, <2>2, <4>2, <5>1 DEF Acts, Starts
      <4>3. thread[k].at = "watching" /\ Of(k).live = k /\ Heir(k) /\ thread[k].slot \in Slots
        BY <1>0, <2>0, <2>1, <2>6, <4>1, <4>2 DEF AliveIsAccountedFor, Accounted, WaiterFits, OffDuty
      <4>4. ~Heir(k)'
        BY <2>2, <4>1 DEF Acts
      <4>5. thread[k].slot = thread[Worker].slot
        BY <2>1, <4>1, <4>3, <4>4 DEF Heir, CalledOff, Newer, Of
      <4> QED
        BY <1>9, <2>1, <4>1, <4>3, <4>5, Numbers DEF Accounted, Of
    <3> QED
      BY <3>1 DEF Accounted
  <2>7. StopIsStop'
    <3>1. Alive' = {} \/ thread'[Worker].at = "marked"
      <4>1. ASSUME NEW k \in Alive' PROVE thread'[Worker].at = "marked"
        <5>1. Accounted(k)' /\ k \in Children /\ k \in Actors /\ k # Worker
          BY <2>6, <4>1, Numbers DEF Alive
        <5>2. ~Heir(k)' /\ \A u \in Actors : ~Greets(u)'
          BY <2>2, <5>1 DEF Acts, Starts, Greets, StartStages
        <5> QED
          BY <2>1, <4>1, <5>1, <5>2 DEF Accounted
      <4> QED
        BY <4>1
    <3> QED
      BY <2>1, <2>2, <3>1 DEF StopIsStop, Of
  <2>8. ASSUME NEW k \in Children PROVE Owns(k)'
    BY <1>0, <1>9, <1>10, <2>0, <2>1, <2>8, Numbers DEF WatchersOwn, Owns, Newer, Of, WaiterFits, OffDuty
  <2> QED
    BY <2>2, <2>3, <2>4, <2>5, <2>6, <2>7, <2>8 DEF ActsInKnown, StartsCurrent, AliveIsAccountedFor, WatchersOwn
<1>2. ASSUME ShowsDisabled, Clean', Clean
      PROVE  OneActs' /\ ActsInKnown' /\ StartsCurrent' /\ AliveIsAccountedFor' /\ StopIsStop' /\ WatchersOwn'
  <2>0. /\ OneActs /\ ActsInKnown /\ StartsCurrent /\ AliveIsAccountedFor /\ StopIsStop /\ WatchersOwn
        /\ Stops => slot[thread[Worker].slot].expected
        /\ Stops => \A u \in Actors : ~Acts(u)
        /\ Stops => \A k \in Alive :
             /\ thread[k].at = "watching" /\ slot[thread[k].slot].live = k
             /\ thread[Worker].at \in {"marked", "stopping"}
             /\ thread[Worker].slot = thread[k].slot /\ thread[Worker].child = k
    BY <1>2, StopsAlone DEF CleanInv, Of
  <2>1. /\ thread[Worker].at = "marked"
        /\ \A u \in Actors : u # Worker => thread'[u] = thread[u]
        /\ thread'[Worker].slot = thread[Worker].slot /\ thread'[Worker].job = thread[Worker].job
        /\ thread'[Worker].generation = thread[Worker].generation /\ thread'[Worker].child = thread[Worker].child
        /\ thread'[Worker].at = IF thread[Worker].child = None THEN "stopped" ELSE "stopping"
        /\ \A r \in Slots : slot'[r].live = slot[r].live
        /\ \A r \in Slots : slot'[r].generation = slot[r].generation
        /\ \A r \in Slots : slot'[r].expected = slot[r].expected
        /\ slot'[thread[Worker].slot].status = "disabled"
        /\ \A r \in Slots : r # thread[Worker].slot => slot'[r].status = slot[r].status
        /\ UNCHANGED <<child, panel, strays>>
    BY <1>9, <1>10, <1>2, Numbers DEF ShowsDisabled, OnlyThread, OnlySlot, OnlyChild, SameThread, SameSlot, EndsChild, Rest, AtEase, Of, OffDuty
  <2>2. ASSUME NEW u \in Actors PROVE Acts(u)' => Acts(u) /\ thread'[u].slot = thread[u].slot
    BY <1>0, <1>9, <1>10, <2>0, <2>1, <2>2, Numbers DEF Acts, Starts, Heir, CalledOff, Newer, Of, StartStages, WaiterFits, WorkerFits, OffDuty
  <2>3. OneActs'
    BY <1>0, <1>9, <1>10, <2>0, <2>1, <2>2, Numbers DEF OneActs
  <2>4. ASSUME NEW u \in Actors PROVE ActInKnown(u)'
    BY <1>0, <1>9, <1>10, <2>0, <2>1, <2>2, <2>4, Numbers DEF ActsInKnown, ActInKnown, WorksOnKnown, WorkerFits
  <2>5. ASSUME NEW u \in Actors PROVE StartCurrent(u)'
    BY <1>0, <1>9, <1>10, <2>0, <2>1, <2>2, <2>5, Numbers DEF StartsCurrent, StartCurrent, Starts, Acts, Newer, Of, StartStages, OneActs, WaiterFits, OffDuty
  <2>6. ASSUME NEW k \in Children PROVE Accounted(k)'
    BY <1>0, <1>9, <1>10, <2>0, <2>1, <2>2, <2>6, Numbers DEF Accounted, Alive, Of, Stops
  <2>7. StopIsStop'
    BY <1>0, <1>9, <1>10, <2>0, <2>1, <2>2, Numbers DEF StopIsStop, Stops, Alive, Of, WorkerFits, StartStages
  <2>8. ASSUME NEW k \in Children PROVE Owns(k)'
    BY <1>0, <1>9, <1>10, <2>0, <2>1, <2>8, Numbers DEF WatchersOwn, Owns, Newer, Of, WaiterFits, OffDuty
  <2> QED
    BY <2>2, <2>3, <2>4, <2>5, <2>6, <2>7, <2>8 DEF ActsInKnown, StartsCurrent, AliveIsAccountedFor, WatchersOwn
<1>3. ASSUME EndsIt, Clean', Clean
      PROVE  OneActs' /\ ActsInKnown' /\ StartsCurrent' /\ AliveIsAccountedFor' /\ StopIsStop' /\ WatchersOwn'
  <2>0. /\ OneActs /\ ActsInKnown /\ StartsCurrent /\ AliveIsAccountedFor /\ StopIsStop /\ WatchersOwn
        /\ Stops => slot[thread[Worker].slot].expected
        /\ Stops => \A u \in Actors : ~Acts(u)
        /\ Stops => \A k \in Alive :
             /\ thread[k].at = "watching" /\ slot[thread[k].slot].live = k
             /\ thread[Worker].at \in {"marked", "stopping"}
             /\ thread[Worker].slot = thread[k].slot /\ thread[Worker].child = k
    BY <1>3, StopsAlone DEF CleanInv, Of
  <2>1. /\ thread[Worker].at = "stopping" /\ thread'[Worker].at = "lingering"
        /\ \A u \in Actors : u # Worker => thread'[u] = thread[u]
        /\ thread'[Worker].slot = thread[Worker].slot /\ thread'[Worker].job = thread[Worker].job
        /\ thread'[Worker].generation = thread[Worker].generation /\ thread'[Worker].child = thread[Worker].child
        /\ \A j \in Children : child'[j].of = child[j].of
        /\ child'[thread[Worker].child].at = "ended"
        /\ \A j \in Children : j # thread[Worker].child => child'[j].at = child[j].at
        /\ UNCHANGED <<slot, panel, strays>>
    BY <1>9, <1>10, <1>3, Numbers DEF EndsIt, OnlyThread, OnlySlot, OnlyChild, SameThread, SameSlot, EndsChild, Rest, AtEase, Of, OffDuty
  <2>2. ASSUME NEW u \in Actors PROVE Acts(u)' => Acts(u) /\ thread'[u].slot = thread[u].slot
    BY <1>0, <1>9, <1>10, <2>0, <2>1, <2>2, Numbers DEF Acts, Starts, Heir, CalledOff, Newer, Of, StartStages, WaiterFits, WorkerFits, OffDuty
  <2>3. OneActs'
    BY <1>0, <1>9, <1>10, <2>0, <2>1, <2>2, Numbers DEF OneActs
  <2>4. ASSUME NEW u \in Actors PROVE ActInKnown(u)'
    BY <1>0, <1>9, <1>10, <2>0, <2>1, <2>2, <2>4, Numbers DEF ActsInKnown, ActInKnown, WorksOnKnown, WorkerFits
  <2>5. ASSUME NEW u \in Actors PROVE StartCurrent(u)'
    BY <1>0, <1>9, <1>10, <2>0, <2>1, <2>2, <2>5, Numbers DEF StartsCurrent, StartCurrent, Starts, Acts, Newer, Of, StartStages, OneActs, WaiterFits, OffDuty
  <2>6. ASSUME NEW k \in Children PROVE Accounted(k)'
    BY <1>0, <1>9, <1>10, <2>0, <2>1, <2>2, <2>6, Numbers DEF Accounted, Alive, Of, Stops
  <2>7. StopIsStop'
    BY <1>0, <1>9, <1>10, <2>0, <2>1, <2>2, Numbers DEF StopIsStop, Stops, Alive, Of, WorkerFits, StartStages
  <2>8. ASSUME NEW k \in Children PROVE Owns(k)'
    BY <1>0, <1>9, <1>10, <2>0, <2>1, <2>8, Numbers DEF WatchersOwn, Owns, Newer, Of, WaiterFits, OffDuty
  <2> QED
    BY <2>2, <2>3, <2>4, <2>5, <2>6, <2>7, <2>8 DEF ActsInKnown, StartsCurrent, AliveIsAccountedFor, WatchersOwn
<1>4. ASSUME WaitsForEnd, Clean', Clean
      PROVE  OneActs' /\ ActsInKnown' /\ StartsCurrent' /\ AliveIsAccountedFor' /\ StopIsStop' /\ WatchersOwn'
  <2>0. /\ OneActs /\ ActsInKnown /\ StartsCurrent /\ AliveIsAccountedFor /\ StopIsStop /\ WatchersOwn
        /\ Stops => slot[thread[Worker].slot].expected
        /\ Stops => \A u \in Actors : ~Acts(u)
        /\ Stops => \A k \in Alive :
             /\ thread[k].at = "watching" /\ slot[thread[k].slot].live = k
             /\ thread[Worker].at \in {"marked", "stopping"}
             /\ thread[Worker].slot = thread[k].slot /\ thread[Worker].child = k
    BY <1>4, StopsAlone DEF CleanInv, Of
  <2>1. /\ thread[Worker].at = "lingering" /\ thread'[Worker].at = "stopped"
        /\ \A u \in Actors : u # Worker => thread'[u] = thread[u]
        /\ thread'[Worker].slot = thread[Worker].slot /\ thread'[Worker].job = thread[Worker].job
        /\ thread'[Worker].generation = thread[Worker].generation /\ thread'[Worker].child = thread[Worker].child
        /\ slot[thread[Worker].slot].live # None => "hurried" \in strays'
        /\ UNCHANGED <<slot, child, panel>>
    BY <1>9, <1>10, <1>4, Numbers DEF WaitsForEnd, OnlyThread, OnlySlot, OnlyChild, SameThread, SameSlot, EndsChild, Rest, AtEase, Of, OffDuty
  <2>2. ASSUME NEW u \in Actors PROVE Acts(u)' => Acts(u) /\ thread'[u].slot = thread[u].slot
    BY <1>0, <1>9, <1>10, <2>0, <2>1, <2>2, Numbers DEF Acts, Starts, Heir, CalledOff, Newer, Of, StartStages, WaiterFits, WorkerFits, OffDuty
  <2>3. OneActs'
    BY <1>0, <1>9, <1>10, <2>0, <2>1, <2>2, Numbers DEF OneActs
  <2>4. ASSUME NEW u \in Actors PROVE ActInKnown(u)'
    BY <1>0, <1>9, <1>10, <2>0, <2>1, <2>2, <2>4, Numbers DEF ActsInKnown, ActInKnown, WorksOnKnown, WorkerFits
  <2>5. ASSUME NEW u \in Actors PROVE StartCurrent(u)'
    BY <1>0, <1>9, <1>10, <2>0, <2>1, <2>2, <2>5, Numbers DEF StartsCurrent, StartCurrent, Starts, Acts, Newer, Of, StartStages, OneActs, WaiterFits, OffDuty
  <2>6. ASSUME NEW k \in Children PROVE Accounted(k)'
    BY <1>0, <1>9, <1>10, <2>0, <2>1, <2>2, <2>6, Numbers DEF Accounted, Alive, Of, Stops
  <2>7. StopIsStop'
    BY <1>0, <1>9, <1>10, <2>0, <2>1, <2>2, Numbers DEF StopIsStop, Stops, Alive, Of, WorkerFits, StartStages
  <2>8. ASSUME NEW k \in Children PROVE Owns(k)'
    BY <1>0, <1>9, <1>10, <2>0, <2>1, <2>8, Numbers DEF WatchersOwn, Owns, Newer, Of, WaiterFits, OffDuty
  <2> QED
    BY <2>2, <2>3, <2>4, <2>5, <2>6, <2>7, <2>8 DEF ActsInKnown, StartsCurrent, AliveIsAccountedFor, WatchersOwn
<1>5. ASSUME GoesOnAfterStop, Clean', Clean
      PROVE  OneActs' /\ ActsInKnown' /\ StartsCurrent' /\ AliveIsAccountedFor' /\ StopIsStop' /\ WatchersOwn'
  <2>0. /\ OneActs /\ ActsInKnown /\ StartsCurrent /\ AliveIsAccountedFor /\ StopIsStop /\ WatchersOwn
        /\ Stops => slot[thread[Worker].slot].expected
        /\ Stops => \A u \in Actors : ~Acts(u)
        /\ Stops => \A k \in Alive :
             /\ thread[k].at = "watching" /\ slot[thread[k].slot].live = k
             /\ thread[Worker].at \in {"marked", "stopping"}
             /\ thread[Worker].slot = thread[k].slot /\ thread[Worker].child = k
    BY <1>5, StopsAlone DEF CleanInv, Of
  <2>1. /\ thread[Worker].at = "stopped"
        /\ \A u \in Actors : u # Worker => thread'[u] = thread[u]
        /\ \/ thread[Worker].job = "refresh" /\ thread'[Worker].at = "verify" /\ thread'[Worker].slot = thread[Worker].slot /\ thread'[Worker].job = thread[Worker].job
           \/ thread[Worker].job # "refresh" /\ thread'[Worker].at = "idle" /\ thread'[Worker].job = "none"
        /\ \A r \in Slots : slot'[r].live = slot[r].live
        /\ \A r \in Slots : slot'[r].generation = slot[r].generation
        /\ \A r \in Slots : slot'[r].expected = slot[r].expected
        /\ \A r \in Slots : slot'[r].status = slot[r].status
        /\ panel' = IF thread[Worker].job = "remove" THEN None ELSE panel
        /\ UNCHANGED <<child, strays>>
    BY <1>9, <1>10, <1>5, Numbers DEF GoesOnAfterStop, OnlyThread, OnlySlot, OnlyChild, SameThread, SameSlot, EndsChild, Rest, AtEase, Of, OffDuty
  <2>2. ASSUME NEW u \in Actors PROVE Acts(u)' => u = Worker /\ thread[Worker].job = "refresh"
    <3>1. CASE u # Worker
      <4>1. thread'[u] = thread[u] /\ ~Acts(u) /\ (thread[u].at \notin OffDuty => thread[u].slot \in Slots)
        BY <1>0, <2>0, <2>1, <2>2, <3>1, Numbers DEF Stops, WaiterFits
      <4> QED
        BY <2>1, <3>1, <4>1 DEF Acts, Starts, Heir, CalledOff, Newer, Of, OffDuty
    <3>2. CASE u = Worker
      BY <2>1, <3>2 DEF Acts, Starts, StartStages
    <3> QED
      BY <3>1, <3>2
  <2>3. OneActs'
    BY <1>0, <1>9, <1>10, <2>0, <2>1, <2>2, Numbers DEF OneActs
  <2>4. ASSUME NEW u \in Actors PROVE ActInKnown(u)'
    BY <1>0, <1>9, <1>10, <2>0, <2>1, <2>2, <2>4, Numbers DEF ActsInKnown, ActInKnown, WorksOnKnown, WorkerFits
  <2>5. ASSUME NEW u \in Actors PROVE StartCurrent(u)'
    BY <1>0, <1>9, <1>10, <2>0, <2>1, <2>2, <2>5, Numbers DEF StartsCurrent, StartCurrent, Starts, Acts, Newer, Of, StartStages, OneActs, WaiterFits, OffDuty
  <2>6. ASSUME NEW k \in Children PROVE Accounted(k)'
    BY <1>0, <1>9, <1>10, <2>0, <2>1, <2>2, <2>6, Numbers DEF Accounted, Alive, Of, Stops
  <2>7. StopIsStop'
    BY <1>0, <1>9, <1>10, <2>0, <2>1, <2>2, Numbers DEF StopIsStop, Stops, Alive, Of, WorkerFits, StartStages
  <2>8. ASSUME NEW k \in Children PROVE Owns(k)'
    BY <1>0, <1>9, <1>10, <2>0, <2>1, <2>8, Numbers DEF WatchersOwn, Owns, Newer, Of, WaiterFits, OffDuty
  <2> QED
    BY <2>2, <2>3, <2>4, <2>5, <2>6, <2>7, <2>8 DEF ActsInKnown, StartsCurrent, AliveIsAccountedFor, WatchersOwn
<1>20. Clean' => Clean
  BY DEF Marks, ShowsDisabled, EndsIt, WaitsForEnd, GoesOnAfterStop, Clean
<1> QED
  BY <1>1, <1>2, <1>3, <1>4, <1>5, <1>20 DEF CleanInv

\* What a worker that takes a job on leaves as it is.
LEMMA TakesClean ==
  ASSUME HostTyped, HostTyped', CleanInv, thread[Worker].at = "idle", Takes, UNCHANGED <<slot, child>>
  PROVE  CleanInv'
<1> USE DEF OnlyThread, Of, StartStages, Stops, Assigned
<1>0. /\ thread \in [Actors -> Thread] /\ thread' \in [Actors -> Thread]
      /\ slot \in [Slots -> SlotState]
      /\ ThreadsTyped /\ ChildrenTyped /\ StartersTyped
      /\ known \in Slots \cup {None} /\ known' \in Slots \cup {None}
  BY DEF HostTyped, HostDataTyped
<1>1. Clean' => Clean
  BY DEF Takes, Clean
<1> SUFFICES ASSUME Clean', Clean PROVE OneActs' /\ ActsInKnown' /\ StartsCurrent' /\ AliveIsAccountedFor' /\ StopIsStop' /\ WatchersOwn'
  BY <1>1 DEF CleanInv
<1>2. OneActs /\ ActsInKnown /\ StartsCurrent /\ AliveIsAccountedFor /\ StopIsStop /\ WatchersOwn
  BY DEF CleanInv
<1>3. /\ \A u \in Actors \ {Worker} : thread'[u] = thread[u] /\ (Acts(u)' <=> Acts(u))
      /\ ~Acts(Worker) /\ (Acts(Worker)' => thread'[Worker].at = "verify")
      /\ \A u \in Actors : Acts(u) => thread[u].slot = known /\ known # None
      /\ thread'[Worker].at \in {"idle", "activate", "verify", "mark"}
  BY <1>0, <1>2, Numbers DEF Takes, Acts, Starts, Heir, CalledOff, Newer, ActsInKnown, ActInKnown, ThreadsTyped, WorkerFits, WaiterFits, OffDuty
<1>4. thread'[Worker].at = "verify" => \A u \in Actors : ~Acts(u)
  <2> SUFFICES ASSUME thread'[Worker].at = "verify", NEW u \in Actors, Acts(u)
               PROVE  FALSE
    OBVIOUS
  <2>1. known # None /\ ~Lingers(known)
    BY <1>0, <1>3 DEF Takes, Clean
  <2>2. u \in Children /\ thread[u].at \notin OffDuty /\ child[u].of = known
    BY <1>0, <1>3, Numbers DEF Acts, Starts, Heir, ChildrenTyped, ChildFits, SlotFits, OffDuty
  <2> QED
    BY <2>1, <2>2 DEF Lingers, OffDuty
<1>5. OneActs'
  BY <1>2, <1>3, <1>4 DEF OneActs
<1>6. ActsInKnown'
  <2> SUFFICES ASSUME NEW t \in Actors, Acts(t)'
               PROVE  \/ thread'[t].slot = known'
                      \/ /\ thread'[Worker].at = "mark" /\ thread'[Worker].job = "remove" /\ known' = None
                         /\ thread'[t].slot = thread'[Worker].slot
    BY DEF ActsInKnown, ActInKnown
  <2>1. CASE t = Worker
    BY <1>0, <1>3, <2>1 DEF Takes
  <2>2. CASE t # Worker
    BY <1>0, <1>3, <1>4, <2>2 DEF Takes
  <2> QED
    BY <2>1, <2>2
<1>7. StartsCurrent'
  BY <1>0, <1>2, <1>3 DEF StartsCurrent, StartCurrent, Starts, Newer
<1>8. AliveIsAccountedFor'
  BY <1>0, <1>2, <1>3, Numbers DEF AliveIsAccountedFor, Accounted, Alive, Greets, Heir, CalledOff, Newer
<1>9. StopIsStop'
  BY <1>3 DEF StopIsStop
<1>10. WatchersOwn'
  BY <1>2, <1>3, Numbers DEF WatchersOwn, Owns, Newer
<1> QED
  BY <1>5, <1>6, <1>7, <1>8, <1>9, <1>10

\* A sweep marks what is known; an activation leaves all as it is.
LEMMA SweepClean ==
  ASSUME HostTyped, HostTyped', CleanInv,
         (thread[Worker].at = "idle" /\ Assigned("sweep", "mark", known)) \/ Activates,
         UNCHANGED <<slot, child, known, strays>>
  PROVE  CleanInv'
<1> USE DEF OnlyThread, Of, StartStages, Stops, Assigned, Rest, AtEase, Activates, SameThread
<1>0. /\ thread \in [Actors -> Thread] /\ thread' \in [Actors -> Thread]
      /\ slot \in [Slots -> SlotState]
      /\ ThreadsTyped /\ ChildrenTyped /\ StartersTyped
  BY DEF HostTyped, HostDataTyped
<1>1. Clean' = Clean
  BY DEF Clean
<1> SUFFICES ASSUME Clean', Clean PROVE OneActs' /\ ActsInKnown' /\ StartsCurrent' /\ AliveIsAccountedFor' /\ StopIsStop' /\ WatchersOwn'
  BY <1>1 DEF CleanInv
<1>2. OneActs /\ ActsInKnown /\ StartsCurrent /\ AliveIsAccountedFor /\ StopIsStop /\ WatchersOwn
  BY DEF CleanInv
<1>3. /\ \A u \in Actors \ {Worker} : thread'[u] = thread[u]
      /\ \A u \in Actors : Acts(u)' <=> Acts(u)
      /\ ~Acts(Worker) /\ thread'[Worker].at \in {"idle", "asking", "mark"}
      /\ \A u \in Actors : Acts(u) => thread[u].slot = known
  BY <1>0, <1>2, Numbers DEF Acts, Starts, Heir, CalledOff, Newer, ActsInKnown, ActInKnown
<1>4. OneActs' /\ ActsInKnown'
  BY <1>2, <1>3 DEF OneActs, ActsInKnown, ActInKnown
<1>5. StartsCurrent'
  BY <1>0, <1>2, <1>3 DEF StartsCurrent, StartCurrent, Starts, Newer
<1>6. AliveIsAccountedFor'
  BY <1>0, <1>2, <1>3, Numbers DEF AliveIsAccountedFor, Accounted, Alive, Greets, Heir, CalledOff, Newer
<1>7. StopIsStop'
  BY <1>3 DEF StopIsStop
<1>8. WatchersOwn'
  BY <1>2, <1>3, Numbers DEF WatchersOwn, Owns, Newer
<1> QED
  BY <1>4, <1>5, <1>6, <1>7, <1>8

\* The window's moves change nothing of it, but for what goes wrong.
LEMMA WindowClean ==
  ASSUME CleanInv, UNCHANGED <<known, thread, slot, child>>, Clean' => Clean
  PROVE  CleanInv'
BY DEF CleanInv, OneActs, ActsInKnown, ActInKnown, StartsCurrent, StartCurrent, AliveIsAccountedFor, Accounted, StopIsStop, WatchersOwn, Owns, Acts, Starts, Heir,
   CalledOff, Newer, Greets, Alive, Of, Stops

\* No step lets a second thread act.
LEMMA StepClean ==
  ASSUME HostTyped, HostTyped', CleanInv, HostNext
  PROVE  CleanInv'
<1>1. ASSUME NEW t \in Actors, StartMoves(t), UNCHANGED known
      PROVE  CleanInv'
  BY <1>1, StarterMoves, StarterClean
<1>2. ASSUME NEW k \in Children, WaiterMoves(k), UNCHANGED known
      PROVE  CleanInv'
  BY <1>1, <1>2, Numbers, WaiterDoesMoves, WaiterClean DEF WaiterMoves
<1>3. ASSUME TakeJob PROVE CleanInv'
  BY <1>3, TakeMoves, TakesClean
<1>4. ASSUME Sweep, UNCHANGED <<enabled, dirty, outdated>> PROVE CleanInv'
  <2>1. thread[Worker].at = "idle" /\ Assigned("sweep", "mark", known) /\ UNCHANGED <<slot, child, known, strays>>
    BY <1>4, AssignDoes DEF Sweep, HostTyped, HostDataTyped
  <2> QED
    BY <2>1, SweepClean
<1>5. ASSUME CallActivate \/ CallEnds, UNCHANGED known PROVE CleanInv'
  BY <1>5, ActivateMoves, SweepClean DEF Activates
<1>6. ASSUME MarkStop \/ ShowDisabled \/ EndChild \/ EndWait \/ AfterStop, UNCHANGED known
      PROVE  CleanInv'
  BY <1>6, StopMoves, StopClean
<1>7. ASSUME Enable \/ Reconcile \/ MoveServer PROVE CleanInv'
  BY <1>7, WindowClean DEF Enable, Reconcile, MoveServer, Clean, Stray
<1>8. ASSUME NEW k \in Children, Hears(k) PROVE CleanInv'
  <2>1. UNCHANGED <<known, thread, slot, child>> /\ strays \subseteq strays'
    BY <1>8 DEF Hears, Register, HearModule, Stray
  <2> QED
    BY <2>1, WindowClean DEF Clean
<1> QED
  BY <1>1, <1>2, <1>3, <1>4, <1>5, <1>6, <1>7, <1>8, Numbers DEF HostNext, WorkerMoves, Hears

\* One thread at a time acts throughout.
LEMMA CleanInvHolds == HostSpec => []CleanInv
<1>1. HostInit => CleanInv
  <2> SUFFICES ASSUME HostInit PROVE CleanInv
    OBVIOUS
  <2>1. \A t \in Actors : thread[t] = AtEase(IF t = Worker THEN "idle" ELSE "none")
    BY DEF HostInit, Actors
  <2>4. \A t \in Actors : thread[t].at \in {"idle", "none"}
    <3>1. AtEase("idle").at = "idle" /\ AtEase("none").at = "none"
      BY DEF AtEase
    <3> QED
      BY <2>1, <3>1
  <2>2. \A t \in Actors : ~Acts(t) /\ thread[t].at # "watching"
    BY <2>4 DEF Acts, Starts, Heir, StartStages
  <2>3. Alive = {} /\ ~Stops
    BY <2>4, Numbers DEF HostInit, Alive, Stops
  <2> QED
    BY <2>2, <2>3, Numbers
    DEF CleanInv, OneActs, ActsInKnown, ActInKnown, StartsCurrent, StartCurrent, AliveIsAccountedFor, Accounted,
        StopIsStop, WatchersOwn, Owns, Acts
<1>2. HostTyped /\ HostTyped' /\ CleanInv /\ [HostNext]_hostVars => CleanInv'
  <2>1. CleanInv /\ UNCHANGED hostVars => CleanInv'
    BY WindowClean DEF hostVars, Clean
  <2> QED
    BY <2>1, StepClean
<1> QED
  BY <1>1, <1>2, HostTypedHolds, PTL DEF HostSpec

\* Two processes that live are one: each is the one thread's that acts, or the
\* worker's that stops it.
LEMMA AtMostOneAlive ==
  ASSUME HostTyped, CleanInv, Clean, NEW j \in Alive, NEW k \in Alive
  PROVE  j = k
<1>0. /\ OneActs /\ AliveIsAccountedFor /\ StopIsStop /\ StartersTyped
      /\ Alive \subseteq Children /\ Children \subseteq Actors /\ Worker \notin Children
  BY Numbers DEF HostTyped, CleanInv, Alive
<1>1. \A i \in Alive :
        \/ \E t \in Actors : Acts(t) /\ Greets(t) /\ thread[t].child = i
        \/ thread[i].at = "watching" /\ Acts(i)
        \/ Stops /\ thread[Worker].child = i
  BY <1>0 DEF AliveIsAccountedFor, Accounted, Acts, Starts, Greets, StartStages, Stops
<1>2. CASE Stops
  BY <1>0, <1>1, <1>2 DEF StopIsStop
<1>3. CASE ~Stops
  BY <1>0, <1>1, <1>3 DEF OneActs, Greets
<1> QED
  BY <1>2, <1>3

\* One module is one process at a time: whoever starts, stops and replaces it, and
\* however often it crashes, unless a start has gone before the last one was over, or
\* a stop came in the middle of one.
THEOREM OnlyOneProcess == HostSpec => []OneProcess
<1>1. HostTyped /\ CleanInv => OneProcess
  <2> SUFFICES ASSUME HostTyped, CleanInv, Clean PROVE Cardinality(Alive) <= 1
    BY DEF OneProcess, Clean
  <2>1. CASE Alive = {}
    BY <2>1, FS_EmptySet
  <2>2. CASE Alive # {}
    <3>1. PICK k \in Alive : TRUE
      BY <2>2
    <3>2. Alive = {k}
      BY <3>1, AtMostOneAlive
    <3>3. Cardinality({k}) = 1
      BY FS_Singleton
    <3> QED
      BY <3>2, <3>3
  <2> QED
    BY <2>1, <2>2
<1> QED
  BY <1>1, HostTypedHolds, CleanInvHolds, PTL
-----------------------------------------------------------------------------
(* What is shown, and what was wished.                                     *)

\* A start shows what it is at.
LEMMA StarterShown ==
  ASSUME HostTyped, HostTyped', CleanInv, CleanInv', StatusInv, NEW t \in Actors, StarterDoes(t), thread[t].at \in StartStages,
         UNCHANGED known
  PROVE  StatusInv' /\ (Told' /\ (\E u \in Actors : Acts(u)') =>
           (\E u \in Actors : Acts(u)) \/ thread[Worker].job = "refresh")
<1>0. /\ WorkerFits /\ (\A k \in Children : WaiterFits(k)) /\ (\A k \in Children : ChildFits(k))
      /\ (\A r \in Slots : SlotFits(r)) /\ (\A u \in Actors : GreetFits(u)) /\ GreetApart
      /\ (\A k \in Children : Tended(k)) /\ StopHolds /\ WorksOnKnown
  BY DEF HostTyped, ThreadsTyped, ChildrenTyped, StartersTyped
<1>9. /\ \A u \in Actors : thread[u].generation \in Nat /\ thread[u].slot \in Slots \cup {None}
                            /\ thread[u].child \in Children \cup {None}
      /\ \A r \in Slots : slot[r].generation \in Nat /\ slot'[r].generation \in Nat
                          /\ slot[r].live \in Children \cup {None} /\ slot[r].status \in Statuses
      /\ \A k \in Children : child[k].at \in {"unborn", "greeting", "up", "ended"}
      /\ known \in Slots \cup {None} /\ panel \in Children \cup {None}
  BY DEF HostTyped, HostDataTyped, Thread, SlotState
<1>10. /\ (t = Worker \/ t \in Children) /\ thread[t].slot \in Slots /\ Acts(t) /\ Starts(t)
       /\ thread[t].at \in {"greeting", "greeted"} => thread[t].child \in Children
  BY <1>0, Numbers DEF Starts, Acts, StartStages, WorkerFits, WaiterFits, OffDuty, GreetFits, Greets
<1>20. Told' => Told
  BY DEF StarterDoes, GivesUp, Bumps, ShowsStarting, Spawns, Greeted, Serves, Told, Clean
<1>21. Told => /\ OneActs /\ ActsInKnown /\ StartsCurrent /\ AliveIsAccountedFor /\ StopIsStop
              /\ StartsShown /\ HeirsShown /\ RestShown
  BY DEF Told, CleanInv, StatusInv
<1>22. Told' => OneActs' /\ StartsCurrent' /\ StopIsStop'
  BY DEF Told, CleanInv
<1>1. ASSUME GivesUp(t), Told', Told
      PROVE  /\ StartsShown' /\ HeirsShown' /\ RestShown'
             /\ ((\E u \in Actors : Acts(u)') => (\E u \in Actors : Acts(u)) \/ thread[Worker].job = "refresh")
  <2>0. /\ OneActs /\ ActsInKnown /\ StartsCurrent /\ AliveIsAccountedFor /\ StopIsStop
        /\ StartsShown /\ HeirsShown /\ RestShown /\ OneActs' /\ StopIsStop'
        /\ "stuck" \notin strays' /\ "unheeded" \notin strays'
    BY <1>1, <1>21, <1>22 DEF Told, Clean
  <2>1. /\ thread[t].at \in {"verify", "spawning", "greeting"}
        /\ \A u \in Actors : u # t => thread'[u] = thread[u]
        /\ thread'[t].at = (IF t = Worker THEN "idle" ELSE "over") /\ thread'[t].job = "none"
        /\ \A r \in Slots : slot'[r].live = slot[r].live
        /\ \A r \in Slots : slot'[r].generation = slot[r].generation
        /\ \A r \in Slots : slot'[r].expected = slot[r].expected
        /\ slot'[thread[t].slot].status \in {"disabled", "broken"}
        /\ \A r \in Slots : r # thread[t].slot => slot'[r].status = slot[r].status
        /\ \A j \in Children : child'[j].of = child[j].of
        /\ \A j \in Children : child'[j].at = child[j].at \/
                  (child'[j].at = "ended" /\ thread[t].at = "greeting" /\ j = thread[t].child)
        /\ thread[t].at = "greeting" => child'[thread[t].child].at = "ended"
        /\ UNCHANGED <<panel, strays>>
    BY <1>9, <1>10, <1>1, Numbers DEF GivesUp, OnlyThread, OnlySlot, OnlyChild, SameThread, SameSlot, EndsChild, Rest, AtEase, Of, OffDuty
  <2>2. ASSUME NEW u \in Actors PROVE ~Acts(u)'
    BY SMTT(60), <1>0, <1>9, <1>10, <2>0, <2>1, <2>2, Numbers DEF Acts, Starts, Heir, CalledOff, Newer, Of, StartStages, OneActs, WaiterFits, WorkerFits, OffDuty, StopIsStop, Stops
  <2>3. ASSUME NEW u \in Actors PROVE StartShown(u)'
    BY <1>0, <1>9, <1>10, <2>0, <2>1, <2>2, <2>3, Numbers DEF StartsShown, StartShown, Of, OneActs, Starts, Acts, StartStages, WaiterFits, WorkerFits, OffDuty
  <2>4. ASSUME NEW k \in Children PROVE HeirShown(k)'
    BY <1>0, <1>9, <1>10, <2>0, <2>1, <2>2, <2>4, Numbers DEF HeirsShown, HeirShown, OneActs, WaiterFits, OffDuty, Acts, Starts, Heir, CalledOff, Newer, Of, StartStages
  <2>5. RestShown'
    BY <1>0, <1>9, <1>10, <2>0, <2>1, <2>2, Numbers DEF RestShown, WorksOnKnown, WorkerFits, ActsInKnown, ActInKnown, StartStages
  <2>6. ((\E u \in Actors : Acts(u)') => (\E u \in Actors : Acts(u)) \/ thread[Worker].job = "refresh")
    BY <1>0, <1>9, <1>10, <2>0, <2>1, <2>2, Numbers DEF StartStages
  <2> QED
    BY <2>2, <2>3, <2>4, <2>5, <2>6 DEF StartsShown, HeirsShown
<1>2. ASSUME Bumps(t), Told', Told
      PROVE  /\ StartsShown' /\ HeirsShown' /\ RestShown'
             /\ ((\E u \in Actors : Acts(u)') => (\E u \in Actors : Acts(u)) \/ thread[Worker].job = "refresh")
  <2>0. /\ OneActs /\ ActsInKnown /\ StartsCurrent /\ AliveIsAccountedFor /\ StopIsStop
        /\ StartsShown /\ HeirsShown /\ RestShown /\ OneActs' /\ StopIsStop'
        /\ "stuck" \notin strays' /\ "unheeded" \notin strays'
    BY <1>2, <1>21, <1>22 DEF Told, Clean
  <2>1. /\ thread[t].at = "verify" /\ thread'[t].at = "bumped"
        /\ \A u \in Actors : u # t => thread'[u] = thread[u]
        /\ thread'[t].slot = thread[t].slot /\ thread'[t].job = thread[t].job
        /\ thread'[t].generation = slot[thread[t].slot].generation + 1
        /\ \A r \in Slots : r # thread[t].slot => slot'[r] = slot[r]
        /\ \A r \in Slots : slot'[r].status = slot[r].status
        /\ slot'[thread[t].slot].generation = slot[thread[t].slot].generation + 1
        /\ slot'[thread[t].slot].live = None /\ ~slot'[thread[t].slot].expected
        /\ UNCHANGED <<child, panel, strays>>
    BY <1>9, <1>10, <1>2, Numbers DEF Bumps, OnlyThread, OnlySlot, OnlyChild, SameThread, SameSlot, EndsChild, Rest, AtEase, Of, OffDuty
  <2>2. ASSUME NEW u \in Actors PROVE Acts(u)' <=> Acts(u)
    BY <1>0, <1>9, <1>10, <2>0, <2>1, <2>2, Numbers DEF Acts, Starts, Heir, CalledOff, Newer, Of, StartStages, OneActs, WaiterFits, WorkerFits, OffDuty, StopIsStop, Stops
  <2>3. ASSUME NEW u \in Actors PROVE StartShown(u)'
    BY <1>0, <1>9, <1>10, <2>0, <2>1, <2>2, <2>3, Numbers DEF StartsShown, StartShown, Of, OneActs, Starts, Acts, StartStages, WaiterFits, WorkerFits, OffDuty
  <2>4. ASSUME NEW k \in Children PROVE HeirShown(k)'
    BY SMTT(60), <1>0, <1>9, <1>10, <2>0, <2>1, <2>2, <2>4, Numbers DEF HeirsShown, HeirShown, OneActs, WaiterFits, OffDuty, Acts, Starts, Heir, CalledOff, Newer, Of, StartStages
  <2>5. RestShown'
    BY <1>0, <1>9, <1>10, <2>0, <2>1, <2>2, Numbers DEF RestShown, WorksOnKnown, WorkerFits, ActsInKnown, ActInKnown, StartStages
  <2>6. ((\E u \in Actors : Acts(u)') => (\E u \in Actors : Acts(u)) \/ thread[Worker].job = "refresh")
    BY <1>0, <1>9, <1>10, <2>0, <2>1, <2>2, Numbers DEF StartStages
  <2> QED
    BY <2>2, <2>3, <2>4, <2>5, <2>6 DEF StartsShown, HeirsShown
<1>3. ASSUME ShowsStarting(t), Told', Told
      PROVE  /\ StartsShown' /\ HeirsShown' /\ RestShown'
             /\ ((\E u \in Actors : Acts(u)') => (\E u \in Actors : Acts(u)) \/ thread[Worker].job = "refresh")
  <2>0. /\ OneActs /\ ActsInKnown /\ StartsCurrent /\ AliveIsAccountedFor /\ StopIsStop
        /\ StartsShown /\ HeirsShown /\ RestShown /\ OneActs' /\ StopIsStop'
        /\ "stuck" \notin strays' /\ "unheeded" \notin strays'
    BY <1>3, <1>21, <1>22 DEF Told, Clean
  <2>1. /\ thread[t].at = "bumped" /\ thread'[t].at = "spawning"
        /\ \A u \in Actors : u # t => thread'[u] = thread[u]
        /\ thread'[t].slot = thread[t].slot /\ thread'[t].job = thread[t].job
        /\ thread'[t].generation = thread[t].generation /\ thread'[t].child = thread[t].child
        /\ \A r \in Slots : slot'[r].live = slot[r].live
        /\ \A r \in Slots : slot'[r].generation = slot[r].generation
        /\ \A r \in Slots : slot'[r].expected = slot[r].expected
        /\ slot'[thread[t].slot].status = "starting"
        /\ \A r \in Slots : r # thread[t].slot => slot'[r].status = slot[r].status
        /\ UNCHANGED <<child, panel, strays>>
    BY <1>9, <1>10, <1>3, Numbers DEF ShowsStarting, OnlyThread, OnlySlot, OnlyChild, SameThread, SameSlot, EndsChild, Rest, AtEase, Of, OffDuty
  <2>2. ASSUME NEW u \in Actors PROVE Acts(u)' <=> Acts(u)
    BY <1>0, <1>9, <1>10, <2>0, <2>1, <2>2, Numbers DEF Acts, Starts, Heir, CalledOff, Newer, Of, StartStages, OneActs, WaiterFits, WorkerFits, OffDuty, StopIsStop, Stops
  <2>3. ASSUME NEW u \in Actors PROVE StartShown(u)'
    BY <1>0, <1>9, <1>10, <2>0, <2>1, <2>2, <2>3, Numbers DEF StartsShown, StartShown, Of, OneActs, Starts, Acts, StartStages, WaiterFits, WorkerFits, OffDuty
  <2>4. ASSUME NEW k \in Children PROVE HeirShown(k)'
    BY SMTT(60), <1>0, <1>9, <1>10, <2>0, <2>1, <2>2, <2>4, Numbers DEF HeirsShown, HeirShown, OneActs, WaiterFits, OffDuty, Acts, Starts, Heir, CalledOff, Newer, Of, StartStages
  <2>5. RestShown'
    BY <1>0, <1>9, <1>10, <2>0, <2>1, <2>2, Numbers DEF RestShown, WorksOnKnown, WorkerFits, ActsInKnown, ActInKnown, StartStages
  <2>6. ((\E u \in Actors : Acts(u)') => (\E u \in Actors : Acts(u)) \/ thread[Worker].job = "refresh")
    BY <1>0, <1>9, <1>10, <2>0, <2>1, <2>2, Numbers DEF StartStages
  <2> QED
    BY <2>2, <2>3, <2>4, <2>5, <2>6 DEF StartsShown, HeirsShown
<1>4. ASSUME NEW k0 \in Children, Spawns(t, k0), Told', Told
      PROVE  /\ StartsShown' /\ HeirsShown' /\ RestShown'
             /\ ((\E u \in Actors : Acts(u)') => (\E u \in Actors : Acts(u)) \/ thread[Worker].job = "refresh")
  <2>0. /\ OneActs /\ ActsInKnown /\ StartsCurrent /\ AliveIsAccountedFor /\ StopIsStop
        /\ StartsShown /\ HeirsShown /\ RestShown /\ OneActs' /\ StopIsStop'
        /\ "stuck" \notin strays' /\ "unheeded" \notin strays'
    BY <1>4, <1>21, <1>22 DEF Told, Clean
  <2>1. /\ thread[t].at = "spawning" /\ thread'[t].at = "greeting"
        /\ \A u \in Actors : u # t => thread'[u] = thread[u]
        /\ thread'[t].slot = thread[t].slot /\ thread'[t].job = thread[t].job
        /\ thread'[t].generation = thread[t].generation /\ thread'[t].child = k0
        /\ child[k0].at = "unborn" /\ child'[k0].at = "greeting" /\ child'[k0].of = thread[t].slot
        /\ \A j \in Children : j # k0 => child'[j] = child[j]
        /\ UNCHANGED <<slot, panel, strays>>
    BY <1>9, <1>10, <1>4, Numbers DEF Spawns, OnlyThread, OnlySlot, OnlyChild, SameThread, SameSlot, EndsChild, Rest, AtEase, Of, OffDuty
  <2>2. ASSUME NEW u \in Actors PROVE Acts(u)' <=> Acts(u)
    BY <1>0, <1>9, <1>10, <2>0, <2>1, <2>2, Numbers DEF Acts, Starts, Heir, CalledOff, Newer, Of, StartStages, OneActs, WaiterFits, WorkerFits, OffDuty, StopIsStop, Stops
  <2>3. ASSUME NEW u \in Actors PROVE StartShown(u)'
    BY <1>0, <1>9, <1>10, <2>0, <2>1, <2>2, <2>3, Numbers DEF StartsShown, StartShown, Of, OneActs, Starts, Acts, StartStages, WaiterFits, WorkerFits, OffDuty
  <2>4. ASSUME NEW k \in Children PROVE HeirShown(k)'
    BY SMTT(60), <1>0, <1>9, <1>10, <2>0, <2>1, <2>2, <2>4, Numbers DEF HeirsShown, HeirShown, OneActs, WaiterFits, OffDuty, Acts, Starts, Heir, CalledOff, Newer, Of, StartStages
  <2>5. RestShown'
    BY <1>0, <1>9, <1>10, <2>0, <2>1, <2>2, Numbers DEF RestShown, WorksOnKnown, WorkerFits, ActsInKnown, ActInKnown, StartStages
  <2>6. ((\E u \in Actors : Acts(u)') => (\E u \in Actors : Acts(u)) \/ thread[Worker].job = "refresh")
    BY <1>0, <1>9, <1>10, <2>0, <2>1, <2>2, Numbers DEF StartStages
  <2> QED
    BY <2>2, <2>3, <2>4, <2>5, <2>6 DEF StartsShown, HeirsShown
<1>5. ASSUME Greeted(t), Told', Told
      PROVE  /\ StartsShown' /\ HeirsShown' /\ RestShown'
             /\ ((\E u \in Actors : Acts(u)') => (\E u \in Actors : Acts(u)) \/ thread[Worker].job = "refresh")
  <2>0. /\ OneActs /\ ActsInKnown /\ StartsCurrent /\ AliveIsAccountedFor /\ StopIsStop
        /\ StartsShown /\ HeirsShown /\ RestShown /\ OneActs' /\ StopIsStop'
        /\ "stuck" \notin strays' /\ "unheeded" \notin strays'
    BY <1>5, <1>21, <1>22 DEF Told, Clean
  <2>1. /\ thread[t].at = "greeting" /\ thread'[t].at = "greeted"
        /\ thread[t].child \in Alive
        /\ \A u \in Actors : u # t => thread'[u] = thread[u]
        /\ thread'[t].slot = thread[t].slot /\ thread'[t].job = thread[t].job
        /\ thread'[t].generation = thread[t].generation /\ thread'[t].child = thread[t].child
        /\ \A r \in Slots : slot'[r].generation = slot[r].generation
        /\ \A r \in Slots : slot'[r].expected = slot[r].expected
        /\ \A r \in Slots : slot'[r].status = slot[r].status
        /\ slot'[thread[t].slot].live = thread[t].child
        /\ \A r \in Slots : r # thread[t].slot => slot'[r].live = slot[r].live
        /\ \A j \in Children : child'[j].of = child[j].of
        /\ child'[thread[t].child].at = "up"
        /\ \A j \in Children : j # thread[t].child => child'[j].at = child[j].at
        /\ UNCHANGED <<panel, strays>>
    BY <1>9, <1>10, <1>5, Numbers DEF Greeted, OnlyThread, OnlySlot, OnlyChild, SameThread, SameSlot, EndsChild, Rest, AtEase, Of, OffDuty
  <2>2. ASSUME NEW u \in Actors PROVE Acts(u)' <=> Acts(u)
    BY <1>0, <1>9, <1>10, <2>0, <2>1, <2>2, Numbers DEF Acts, Starts, Heir, CalledOff, Newer, Of, StartStages, OneActs, WaiterFits, WorkerFits, OffDuty, StopIsStop, Stops
  <2>3. ASSUME NEW u \in Actors PROVE StartShown(u)'
    BY <1>0, <1>9, <1>10, <2>0, <2>1, <2>2, <2>3, Numbers DEF StartsShown, StartShown, Of, OneActs, Starts, Acts, StartStages, WaiterFits, WorkerFits, OffDuty
  <2>4. ASSUME NEW k \in Children PROVE HeirShown(k)'
    BY SMTT(60), <1>0, <1>9, <1>10, <2>0, <2>1, <2>2, <2>4, Numbers DEF HeirsShown, HeirShown, OneActs, WaiterFits, OffDuty, Acts, Starts, Heir, CalledOff, Newer, Of, StartStages
  <2>5. RestShown'
    BY <1>0, <1>9, <1>10, <2>0, <2>1, <2>2, Numbers DEF RestShown, WorksOnKnown, WorkerFits, ActsInKnown, ActInKnown, StartStages
  <2>6. ((\E u \in Actors : Acts(u)') => (\E u \in Actors : Acts(u)) \/ thread[Worker].job = "refresh")
    BY <1>0, <1>9, <1>10, <2>0, <2>1, <2>2, Numbers DEF StartStages
  <2> QED
    BY <2>2, <2>3, <2>4, <2>5, <2>6 DEF StartsShown, HeirsShown
<1>6. ASSUME Serves(t), Told', Told
      PROVE  /\ StartsShown' /\ HeirsShown' /\ RestShown'
             /\ ((\E u \in Actors : Acts(u)') => (\E u \in Actors : Acts(u)) \/ thread[Worker].job = "refresh")
  <2>0. /\ OneActs /\ ActsInKnown /\ StartsCurrent /\ AliveIsAccountedFor /\ StopIsStop
        /\ StartsShown /\ HeirsShown /\ RestShown /\ OneActs' /\ StopIsStop'
        /\ "stuck" \notin strays' /\ "unheeded" \notin strays'
    BY <1>6, <1>21, <1>22 DEF Told, Clean
  <2>1. /\ thread[t].at = "greeted" /\ thread[t].child # t
        /\ \A u \in Actors : u # t /\ u # thread[t].child => thread'[u] = thread[u]
        /\ t = Worker => /\ thread'[t].at = "activate" /\ thread'[t].slot = thread[t].slot
                       /\ thread'[t].job = thread[t].job
        /\ t # Worker => thread'[t].at = "over" /\ thread'[t].job = "none"
        /\ thread'[thread[t].child].at = "watching" /\ thread'[thread[t].child].slot = thread[t].slot
        /\ thread'[thread[t].child].generation = thread[t].generation
        /\ \A r \in Slots : slot'[r].live = slot[r].live
        /\ \A r \in Slots : slot'[r].generation = slot[r].generation
        /\ \A r \in Slots : slot'[r].expected = slot[r].expected
        /\ slot'[thread[t].slot].status = "running"
        /\ \A r \in Slots : r # thread[t].slot => slot'[r].status = slot[r].status
        /\ UNCHANGED <<child, panel>>
        /\ t # Worker => "unshown" \in strays'
    BY <1>9, <1>10, <1>6, Numbers DEF Serves, OnlyThread, OnlySlot, OnlyChild, SameThread, SameSlot, EndsChild, Rest, AtEase, Of, OffDuty
  <2>2. ASSUME NEW u \in Actors PROVE Acts(u)' <=> u = thread[t].child
    <3>1. CASE u = thread[t].child
      <4>1. u # Worker /\ ~Newer(t) /\ ~Of(t).expected
        BY <1>0, <1>10, <2>0, <2>1, <3>1, Numbers DEF StartsCurrent, StartCurrent
      <4> QED
        BY <1>10, <2>1, <3>1, <4>1 DEF Acts, Heir, CalledOff, Newer, Of
    <3>2. CASE u = t
      BY <1>10, <2>1, <3>2 DEF Acts, Starts, Heir, StartStages
    <3>3. CASE u # t /\ u # thread[t].child
      <4>1. thread'[u] = thread[u] /\ ~Acts(u) /\ (thread[u].at \notin OffDuty => thread[u].slot \in Slots)
        BY <1>0, <1>10, <2>0, <2>1, <2>2, <3>3, Numbers DEF OneActs, WaiterFits, WorkerFits, OffDuty
      <4> QED
        BY <2>1, <3>3, <4>1 DEF Acts, Starts, Heir, CalledOff, Newer, Of, OffDuty, StartStages
    <3> QED
      BY <3>1, <3>2, <3>3
  <2>3. ASSUME NEW u \in Actors PROVE StartShown(u)'
    BY <1>0, <1>9, <1>10, <2>0, <2>1, <2>2, <2>3, Numbers DEF StartsShown, StartShown, Of, OneActs, Starts, Acts, StartStages, WaiterFits, WorkerFits, OffDuty
  <2>4. ASSUME NEW k \in Children PROVE HeirShown(k)'
    BY SMTT(60), <1>0, <1>9, <1>10, <2>0, <2>1, <2>2, <2>4, Numbers DEF HeirsShown, HeirShown, OneActs, WaiterFits, OffDuty, Acts, Starts, Heir, CalledOff, Newer, Of, StartStages
  <2>5. RestShown'
    BY <1>0, <1>9, <1>10, <2>0, <2>1, <2>2, Numbers DEF RestShown, WorksOnKnown, WorkerFits, ActsInKnown, ActInKnown, StartStages
  <2>6. ((\E u \in Actors : Acts(u)') => (\E u \in Actors : Acts(u)) \/ thread[Worker].job = "refresh")
    BY <1>0, <1>9, <1>10, <2>0, <2>1, <2>2, Numbers DEF StartStages
  <2> QED
    BY <2>2, <2>3, <2>4, <2>5, <2>6 DEF StartsShown, HeirsShown
<1> QED
  BY <1>1, <1>2, <1>3, <1>4, <1>5, <1>6, <1>20 DEF StarterDoes, StatusInv

\* So does a thread that waits, unless it was called off: then it is stuck.
LEMMA WaiterShown ==
  ASSUME HostTyped, HostTyped', CleanInv, CleanInv', StatusInv, NEW k0 \in Children, WaiterDoes(k0),
         UNCHANGED known
  PROVE  StatusInv' /\ (Told' /\ (\E u \in Actors : Acts(u)') =>
           (\E u \in Actors : Acts(u)) \/ thread[Worker].job = "refresh")
<1>0. /\ WorkerFits /\ (\A k \in Children : WaiterFits(k)) /\ (\A k \in Children : ChildFits(k))
      /\ (\A r \in Slots : SlotFits(r)) /\ (\A u \in Actors : GreetFits(u)) /\ GreetApart
      /\ (\A k \in Children : Tended(k)) /\ StopHolds /\ WorksOnKnown
  BY DEF HostTyped, ThreadsTyped, ChildrenTyped, StartersTyped
<1>9. /\ \A u \in Actors : thread[u].generation \in Nat /\ thread[u].slot \in Slots \cup {None}
                            /\ thread[u].child \in Children \cup {None}
      /\ \A r \in Slots : slot[r].generation \in Nat /\ slot'[r].generation \in Nat
                          /\ slot[r].live \in Children \cup {None} /\ slot[r].status \in Statuses
      /\ \A k \in Children : child[k].at \in {"unborn", "greeting", "up", "ended"}
      /\ known \in Slots \cup {None} /\ panel \in Children \cup {None}
  BY DEF HostTyped, HostDataTyped, Thread, SlotState
<1>10. k0 \in Actors /\ k0 # Worker /\ (thread[k0].at \notin OffDuty => thread[k0].slot \in Slots)
  BY <1>0, Numbers DEF WaiterFits
<1>20. Told' => Told
  BY DEF WaiterDoes, Dies, Notices, SendsGone, Judges, Wakes, Told, Clean
<1>21. Told => /\ OneActs /\ ActsInKnown /\ StartsCurrent /\ AliveIsAccountedFor /\ StopIsStop
              /\ StartsShown /\ HeirsShown /\ RestShown
  BY DEF Told, CleanInv, StatusInv
<1>22. Told' => OneActs' /\ StartsCurrent' /\ StopIsStop'
  BY DEF Told, CleanInv
<1>1. ASSUME Dies(k0), Told', Told
      PROVE  /\ StartsShown' /\ HeirsShown' /\ RestShown'
             /\ ((\E u \in Actors : Acts(u)') => (\E u \in Actors : Acts(u)) \/ thread[Worker].job = "refresh")
  <2>0. /\ OneActs /\ ActsInKnown /\ StartsCurrent /\ AliveIsAccountedFor /\ StopIsStop
        /\ StartsShown /\ HeirsShown /\ RestShown /\ OneActs' /\ StopIsStop'
        /\ "stuck" \notin strays' /\ "unheeded" \notin strays'
    BY <1>1, <1>21, <1>22 DEF Told, Clean
  <2>1. /\ UNCHANGED <<thread, slot, panel, strays>>
        /\ \A j \in Children : child'[j].of = child[j].of
        /\ child[k0].at \in {"greeting", "up"} /\ child'[k0].at = "ended"
        /\ \A j \in Children : j # k0 => child'[j].at = child[j].at
    BY <1>9, <1>10, <1>1, Numbers DEF Dies, Alive, OnlyThread, OnlySlot, OnlyChild, SameThread, SameSlot, EndsChild, Rest, AtEase, Of, OffDuty
  <2>2. ASSUME NEW u \in Actors PROVE Acts(u)' <=> Acts(u)
    BY <1>0, <1>9, <1>10, <2>0, <2>1, <2>2, Numbers DEF Acts, Starts, Heir, CalledOff, Newer, Of, StartStages, OneActs, WaiterFits, WorkerFits, OffDuty, StopIsStop, Stops
  <2>3. ASSUME NEW u \in Actors PROVE StartShown(u)'
    BY <1>0, <1>9, <1>10, <2>0, <2>1, <2>2, <2>3, Numbers DEF StartsShown, StartShown, Of, OneActs, Starts, Acts, StartStages, WaiterFits, WorkerFits, OffDuty
  <2>4. ASSUME NEW k \in Children PROVE HeirShown(k)'
    BY <1>0, <1>9, <1>10, <2>0, <2>1, <2>2, <2>4, Numbers DEF HeirsShown, HeirShown, OneActs, WaiterFits, OffDuty, Acts, Starts, Heir, CalledOff, Newer, Of, StartStages
  <2>5. RestShown'
    BY <1>0, <1>9, <1>10, <2>0, <2>1, <2>2, Numbers DEF RestShown, WorksOnKnown, WorkerFits, ActsInKnown, ActInKnown, StartStages
  <2>6. ((\E u \in Actors : Acts(u)') => (\E u \in Actors : Acts(u)) \/ thread[Worker].job = "refresh")
    BY <1>0, <1>9, <1>10, <2>0, <2>1, <2>2, Numbers DEF StartStages
  <2> QED
    BY <2>2, <2>3, <2>4, <2>5, <2>6 DEF StartsShown, HeirsShown
<1>2. ASSUME Notices(k0), Told', Told
      PROVE  /\ StartsShown' /\ HeirsShown' /\ RestShown'
             /\ ((\E u \in Actors : Acts(u)') => (\E u \in Actors : Acts(u)) \/ thread[Worker].job = "refresh")
  <2>0. /\ OneActs /\ ActsInKnown /\ StartsCurrent /\ AliveIsAccountedFor /\ StopIsStop
        /\ StartsShown /\ HeirsShown /\ RestShown /\ OneActs' /\ StopIsStop'
        /\ "stuck" \notin strays' /\ "unheeded" \notin strays'
    BY <1>2, <1>21, <1>22 DEF Told, Clean
  <2>1. /\ thread[k0].at = "watching" /\ child[k0].at = "ended"
        /\ \A u \in Actors : u # k0 => thread'[u] = thread[u]
        /\ \A r \in Slots : slot'[r].generation = slot[r].generation
        /\ \A r \in Slots : slot'[r].expected = slot[r].expected
        /\ \A r \in Slots : slot'[r].status = slot[r].status
        /\ \A r \in Slots : r # thread[k0].slot => slot'[r].live = slot[r].live
        /\ \/ /\ slot[thread[k0].slot].generation # thread[k0].generation /\ thread'[k0].at = "over"
              /\ UNCHANGED slot
           \/ /\ slot[thread[k0].slot].generation = thread[k0].generation
              /\ thread'[k0].at = IF slot[thread[k0].slot].expected THEN "parting" ELSE "falling"
              /\ thread'[k0].slot = thread[k0].slot /\ thread'[k0].generation = thread[k0].generation
              /\ slot'[thread[k0].slot].live = None
        /\ UNCHANGED <<child, panel, strays>>
    BY <1>9, <1>10, <1>2, Numbers DEF Notices, Newer, OnlyThread, OnlySlot, OnlyChild, SameThread, SameSlot, EndsChild, Rest, AtEase, Of, OffDuty
  <2>2. ASSUME NEW u \in Actors PROVE Acts(u)' <=> Acts(u)
    BY SMTT(30), <1>0, <1>9, <1>10, <2>0, <2>1, <2>2, Numbers DEF Acts, Starts, Heir, CalledOff, Newer, Of, StartStages, OneActs, WaiterFits, WorkerFits, OffDuty, StopIsStop, Stops
  <2>3. ASSUME NEW u \in Actors PROVE StartShown(u)'
    BY <1>0, <1>9, <1>10, <2>0, <2>1, <2>2, <2>3, Numbers DEF StartsShown, StartShown, Of, OneActs, Starts, Acts, StartStages, WaiterFits, WorkerFits, OffDuty
  <2>4. ASSUME NEW k \in Children PROVE HeirShown(k)'
    BY SMTT(60), <1>0, <1>9, <1>10, <2>0, <2>1, <2>2, <2>4, Numbers DEF HeirsShown, HeirShown, OneActs, WaiterFits, OffDuty, Acts, Starts, Heir, CalledOff, Newer, Of, StartStages
  <2>5. RestShown'
    BY <1>0, <1>9, <1>10, <2>0, <2>1, <2>2, Numbers DEF RestShown, WorksOnKnown, WorkerFits, ActsInKnown, ActInKnown, StartStages
  <2>6. ((\E u \in Actors : Acts(u)') => (\E u \in Actors : Acts(u)) \/ thread[Worker].job = "refresh")
    BY <1>0, <1>9, <1>10, <2>0, <2>1, <2>2, Numbers DEF StartStages
  <2> QED
    BY <2>2, <2>3, <2>4, <2>5, <2>6 DEF StartsShown, HeirsShown
<1>3. ASSUME SendsGone(k0), Told', Told
      PROVE  /\ StartsShown' /\ HeirsShown' /\ RestShown'
             /\ ((\E u \in Actors : Acts(u)') => (\E u \in Actors : Acts(u)) \/ thread[Worker].job = "refresh")
  <2>0. /\ OneActs /\ ActsInKnown /\ StartsCurrent /\ AliveIsAccountedFor /\ StopIsStop
        /\ StartsShown /\ HeirsShown /\ RestShown /\ OneActs' /\ StopIsStop'
        /\ "stuck" \notin strays' /\ "unheeded" \notin strays'
    BY <1>3, <1>21, <1>22 DEF Told, Clean
  <2>1. /\ \A u \in Actors : u # k0 => thread'[u] = thread[u]
        /\ \/ thread[k0].at = "parting" /\ thread'[k0].at = "over"
           \/ thread[k0].at = "falling" /\ thread'[k0].at = "deciding" /\ thread'[k0].slot = thread[k0].slot /\ thread'[k0].generation = thread[k0].generation
        /\ panel' = None
        /\ panel # None /\ panel # k0 => "wiped" \in strays'
        /\ UNCHANGED <<slot, child>>
    BY <1>9, <1>10, <1>3, Numbers DEF SendsGone, OnlyThread, OnlySlot, OnlyChild, SameThread, SameSlot, EndsChild, Rest, AtEase, Of, OffDuty
  <2>2. ASSUME NEW u \in Actors PROVE Acts(u)' <=> Acts(u)
    BY <1>0, <1>9, <1>10, <2>0, <2>1, <2>2, Numbers DEF Acts, Starts, Heir, CalledOff, Newer, Of, StartStages, OneActs, WaiterFits, WorkerFits, OffDuty, StopIsStop, Stops
  <2>3. ASSUME NEW u \in Actors PROVE StartShown(u)'
    BY <1>0, <1>9, <1>10, <2>0, <2>1, <2>2, <2>3, Numbers DEF StartsShown, StartShown, Of, OneActs, Starts, Acts, StartStages, WaiterFits, WorkerFits, OffDuty
  <2>4. ASSUME NEW k \in Children PROVE HeirShown(k)'
    BY <1>0, <1>9, <1>10, <2>0, <2>1, <2>2, <2>4, Numbers DEF HeirsShown, HeirShown, OneActs, WaiterFits, OffDuty, Acts, Starts, Heir, CalledOff, Newer, Of, StartStages
  <2>5. RestShown'
    BY <1>0, <1>9, <1>10, <2>0, <2>1, <2>2, Numbers DEF RestShown, WorksOnKnown, WorkerFits, ActsInKnown, ActInKnown, StartStages
  <2>6. ((\E u \in Actors : Acts(u)') => (\E u \in Actors : Acts(u)) \/ thread[Worker].job = "refresh")
    BY <1>0, <1>9, <1>10, <2>0, <2>1, <2>2, Numbers DEF StartStages
  <2> QED
    BY <2>2, <2>3, <2>4, <2>5, <2>6 DEF StartsShown, HeirsShown
<1>4. ASSUME Judges(k0), Told', Told
      PROVE  /\ StartsShown' /\ HeirsShown' /\ RestShown'
             /\ ((\E u \in Actors : Acts(u)') => (\E u \in Actors : Acts(u)) \/ thread[Worker].job = "refresh")
  <2>0. /\ OneActs /\ ActsInKnown /\ StartsCurrent /\ AliveIsAccountedFor /\ StopIsStop
        /\ StartsShown /\ HeirsShown /\ RestShown /\ OneActs' /\ StopIsStop'
        /\ "stuck" \notin strays' /\ "unheeded" \notin strays'
    BY <1>4, <1>21, <1>22 DEF Told, Clean
  <2>1. /\ thread[k0].at = "deciding"
        /\ \A u \in Actors : u # k0 => thread'[u] = thread[u]
        /\ \A r \in Slots : slot'[r].live = slot[r].live
        /\ \A r \in Slots : slot'[r].generation = slot[r].generation
        /\ \A r \in Slots : slot'[r].expected = slot[r].expected
        /\ \A r \in Slots : r # thread[k0].slot => slot'[r].status = slot[r].status
        /\ \/ /\ thread'[k0].at = "waiting" /\ thread'[k0].slot = thread[k0].slot /\ thread'[k0].generation = thread[k0].generation
              /\ slot'[thread[k0].slot].status = "crashed"
           \/ thread'[k0].at = "over" /\ slot'[thread[k0].slot].status = "disabled"
        /\ CalledOff(k0) => "stuck" \in strays'
        /\ UNCHANGED <<child, panel>>
    BY <1>9, <1>10, <1>4, Numbers DEF Judges, OnlyThread, OnlySlot, OnlyChild, SameThread, SameSlot, EndsChild, Rest, AtEase, Of, OffDuty
  <2>2. ASSUME NEW u \in Actors PROVE Acts(u)' => Acts(u) /\ (u = k0 => thread'[k0].at = "waiting")
    BY SMTT(60), <1>0, <1>9, <1>10, <2>0, <2>1, <2>2, Numbers DEF Acts, Starts, Heir, CalledOff, Newer, Of, StartStages, OneActs, WaiterFits, WorkerFits, OffDuty, StopIsStop, Stops
  <2>3. ASSUME NEW u \in Actors PROVE StartShown(u)'
    <3>1. CASE u = k0
      BY <2>1, <3>1 DEF StartShown
    <3>2. CASE u # k0
      <4>1. ~Starts(u)
        BY <1>10, <2>0, <2>1, <2>3, <3>2 DEF OneActs, Acts, Heir
      <4> QED
        BY <2>1, <2>3, <3>2, <4>1 DEF StartShown, Starts, StartStages
    <3> QED
      BY <3>1, <3>2
  <2>4. ASSUME NEW k \in Children PROVE HeirShown(k)'
    BY SMTT(60), <1>0, <1>9, <1>10, <2>0, <2>1, <2>2, <2>4, Numbers DEF HeirsShown, HeirShown, OneActs, WaiterFits, OffDuty, Acts, Starts, Heir, CalledOff, Newer, Of, StartStages
  <2>5. RestShown'
    <3> SUFFICES ASSUME known # None, ~Acts(k0)'
                 PROVE  slot'[known].status \in {"disabled", "broken"}
      BY <1>10, <2>1 DEF RestShown
    <3>1. Acts(k0) /\ ~CalledOff(k0) /\ thread[k0].slot \in Slots
      BY <1>10, <2>0, <2>1 DEF Acts, Heir, OffDuty
    <3>2. thread[k0].slot = known
      BY <1>10, <2>0, <3>1 DEF ActsInKnown, ActInKnown
    <3>3. thread'[k0].at # "waiting"
      BY <1>10, <2>1, <3>1 DEF Acts, Heir, CalledOff, Newer, Of
    <3> QED
      BY <2>1, <3>2, <3>3
  <2>6. ((\E u \in Actors : Acts(u)') => (\E u \in Actors : Acts(u)) \/ thread[Worker].job = "refresh")
    BY <1>0, <1>9, <1>10, <2>0, <2>1, <2>2, Numbers DEF StartStages
  <2> QED
    BY <2>2, <2>3, <2>4, <2>5, <2>6 DEF StartsShown, HeirsShown
<1>5. ASSUME Wakes(k0), Told', Told
      PROVE  /\ StartsShown' /\ HeirsShown' /\ RestShown'
             /\ ((\E u \in Actors : Acts(u)') => (\E u \in Actors : Acts(u)) \/ thread[Worker].job = "refresh")
  <2>0. /\ OneActs /\ ActsInKnown /\ StartsCurrent /\ AliveIsAccountedFor /\ StopIsStop
        /\ StartsShown /\ HeirsShown /\ RestShown /\ OneActs' /\ StopIsStop'
        /\ "stuck" \notin strays' /\ "unheeded" \notin strays'
    BY <1>5, <1>21, <1>22 DEF Told, Clean
  <2>1. /\ thread[k0].at = "waiting"
        /\ \A u \in Actors : u # k0 => thread'[u] = thread[u]
        /\ \/ CalledOff(k0) /\ thread'[k0].at = "over"
           \/ ~CalledOff(k0) /\ thread'[k0].at = "verify" /\ thread'[k0].slot = thread[k0].slot /\ thread'[k0].generation = thread[k0].generation
        /\ UNCHANGED <<slot, child, panel, strays>>
    BY <1>9, <1>10, <1>5, Numbers DEF Wakes, OnlyThread, OnlySlot, OnlyChild, SameThread, SameSlot, EndsChild, Rest, AtEase, Of, OffDuty
  <2>2. ASSUME NEW u \in Actors PROVE Acts(u)' <=> Acts(u)
    BY <1>0, <1>9, <1>10, <2>0, <2>1, <2>2, Numbers DEF Acts, Starts, Heir, CalledOff, Newer, Of, StartStages, OneActs, WaiterFits, WorkerFits, OffDuty, StopIsStop, Stops
  <2>3. ASSUME NEW u \in Actors PROVE StartShown(u)'
    BY <1>0, <1>9, <1>10, <2>0, <2>1, <2>2, <2>3, Numbers DEF StartsShown, StartShown, Of, OneActs, Starts, Acts, StartStages, WaiterFits, WorkerFits, OffDuty
  <2>4. ASSUME NEW k \in Children PROVE HeirShown(k)'
    BY SMTT(60), <1>0, <1>9, <1>10, <2>0, <2>1, <2>2, <2>4, Numbers DEF HeirsShown, HeirShown, OneActs, WaiterFits, OffDuty, Acts, Starts, Heir, CalledOff, Newer, Of, StartStages
  <2>5. RestShown'
    BY <1>0, <1>9, <1>10, <2>0, <2>1, <2>2, Numbers DEF RestShown, WorksOnKnown, WorkerFits, ActsInKnown, ActInKnown, StartStages
  <2>6. ((\E u \in Actors : Acts(u)') => (\E u \in Actors : Acts(u)) \/ thread[Worker].job = "refresh")
    BY <1>0, <1>9, <1>10, <2>0, <2>1, <2>2, Numbers DEF StartStages
  <2> QED
    BY <2>2, <2>3, <2>4, <2>5, <2>6 DEF StartsShown, HeirsShown
<1> QED
  BY <1>1, <1>2, <1>3, <1>4, <1>5, <1>20 DEF WaiterDoes, StatusInv

\* So does a stop, unless it leaves a crash as it was: then it is stuck.
LEMMA StopShown ==
  ASSUME HostTyped, HostTyped', CleanInv, CleanInv', StatusInv, Marks \/ ShowsDisabled \/ EndsIt \/ WaitsForEnd \/ GoesOnAfterStop,
         UNCHANGED known
  PROVE  StatusInv' /\ (Told' /\ (\E u \in Actors : Acts(u)') =>
           (\E u \in Actors : Acts(u)) \/ thread[Worker].job = "refresh")
<1>0. /\ WorkerFits /\ (\A k \in Children : WaiterFits(k)) /\ (\A k \in Children : ChildFits(k))
      /\ (\A r \in Slots : SlotFits(r)) /\ (\A u \in Actors : GreetFits(u)) /\ GreetApart
      /\ (\A k \in Children : Tended(k)) /\ StopHolds /\ WorksOnKnown
  BY DEF HostTyped, ThreadsTyped, ChildrenTyped, StartersTyped
<1>9. /\ \A u \in Actors : thread[u].generation \in Nat /\ thread[u].slot \in Slots \cup {None}
                            /\ thread[u].child \in Children \cup {None}
      /\ \A r \in Slots : slot[r].generation \in Nat /\ slot'[r].generation \in Nat
                          /\ slot[r].live \in Children \cup {None} /\ slot[r].status \in Statuses
      /\ \A k \in Children : child[k].at \in {"unborn", "greeting", "up", "ended"}
      /\ known \in Slots \cup {None} /\ panel \in Children \cup {None}
  BY DEF HostTyped, HostDataTyped, Thread, SlotState
<1>10. /\ thread[Worker].at # "idle" => thread[Worker].slot \in Slots
       /\ thread[Worker].at = "stopping" => thread[Worker].child \in Children
       /\ thread[Worker].at = "stopped" => thread[Worker].job \in {"remove", "refresh", "sweep"}
  <2>1. thread[Worker].at # "idle" => thread[Worker].slot \in Slots
    BY <1>0 DEF WorkerFits
  <2>2. thread[Worker].at = "stopped" => thread[Worker].job \in {"remove", "refresh", "sweep"}
    BY <1>0 DEF WorkerFits
  <2>3. thread[Worker].at = "stopping" => thread[Worker].child \in Children
    BY <1>0, <1>9, Numbers DEF StopHolds
  <2> QED
    BY <2>1, <2>2, <2>3
<1>20. Told' => Told
  BY DEF Marks, ShowsDisabled, EndsIt, WaitsForEnd, GoesOnAfterStop, Told, Clean
<1>21. Told => /\ OneActs /\ ActsInKnown /\ StartsCurrent /\ AliveIsAccountedFor /\ StopIsStop
              /\ StartsShown /\ HeirsShown /\ RestShown
  BY DEF Told, CleanInv, StatusInv
<1>22. Told' => OneActs' /\ StartsCurrent' /\ StopIsStop'
  BY DEF Told, CleanInv
<1>1. ASSUME Marks, Told', Told
      PROVE  /\ StartsShown' /\ HeirsShown' /\ RestShown'
             /\ ((\E u \in Actors : Acts(u)') => (\E u \in Actors : Acts(u)) \/ thread[Worker].job = "refresh")
  <2>0. /\ OneActs /\ ActsInKnown /\ StartsCurrent /\ AliveIsAccountedFor /\ StopIsStop
        /\ StartsShown /\ HeirsShown /\ RestShown /\ OneActs' /\ StopIsStop'
        /\ "stuck" \notin strays' /\ "unheeded" \notin strays'
    BY <1>1, <1>21, <1>22 DEF Told, Clean
  <2>1. /\ thread[Worker].at = "mark"
        /\ \A u \in Actors : u # Worker => thread'[u] = thread[u]
        /\ thread'[Worker].slot = thread[Worker].slot /\ thread'[Worker].job = thread[Worker].job
        /\ thread'[Worker].child = slot[thread[Worker].slot].live
        /\ thread'[Worker].at = IF slot[thread[Worker].slot].live # None \/ IsLive(thread[Worker].slot) THEN "marked" ELSE "stopped"
        /\ \A r \in Slots : slot'[r].live = slot[r].live
        /\ \A r \in Slots : slot'[r].generation = slot[r].generation
        /\ \A r \in Slots : slot'[r].status = slot[r].status
        /\ \A r \in Slots : r # thread[Worker].slot => slot'[r].expected = slot[r].expected
        /\ slot'[thread[Worker].slot].expected
        /\ slot[thread[Worker].slot].live = None /\ slot[thread[Worker].slot].status = "crashed" => "stuck" \in strays'
        /\ Restarting(thread[Worker].slot) => "unheeded" \in strays'
        /\ UNCHANGED <<child, panel>>
    BY <1>9, <1>10, <1>1, Numbers DEF Marks, OnlyThread, OnlySlot, OnlyChild, SameThread, SameSlot, EndsChild, Rest, AtEase, Of, OffDuty
  <2>2. ASSUME NEW u \in Actors PROVE ~Acts(u)' /\ ~Starts(u)
    BY <1>0, <1>9, <1>10, <2>0, <2>1, <2>2, Numbers DEF Acts, Starts, Heir, CalledOff, Newer, Of, StartStages, OneActs, WaiterFits, WorkerFits, OffDuty, StopIsStop, Stops
  <2>3. ASSUME NEW u \in Actors PROVE StartShown(u)'
    BY <1>0, <1>9, <1>10, <2>0, <2>1, <2>2, <2>3, Numbers DEF StartsShown, StartShown, Of, OneActs, Starts, Acts, StartStages, WaiterFits, WorkerFits, OffDuty
  <2>4. ASSUME NEW k \in Children PROVE HeirShown(k)'
    BY <1>0, <1>9, <1>10, <2>0, <2>1, <2>2, <2>4, Numbers DEF HeirsShown, HeirShown, OneActs, WaiterFits, OffDuty, Acts, Starts, Heir, CalledOff, Newer, Of, StartStages
  <2>5. RestShown'
    <3> SUFFICES ASSUME known # None, thread'[Worker].at # "marked"
                 PROVE  slot[known].status \in {"disabled", "broken"}
      BY <1>9, <2>1, Numbers DEF RestShown
    <3>1. /\ thread[Worker].slot = known /\ ~IsLive(known) /\ known \in Slots
          /\ slot[known].status \notin {"crashed", "starting", "running"}
      BY <1>0, <1>9, <1>10, <2>0, <2>1 DEF WorksOnKnown, IsLive
    <3>2. ASSUME NEW u \in Actors PROVE ~Acts(u)
      <4>1. Acts(u) => u \in Children /\ Heir(u)
        BY <1>10, <2>1, <2>2, <3>2, Numbers DEF Acts
      <4>2. Acts(u) => thread[u].slot = known
        BY <2>0, <2>1, <3>1, <3>2 DEF ActsInKnown, ActInKnown
      <4> QED
        BY <2>0, <3>1, <4>1, <4>2 DEF HeirsShown, HeirShown, Of
    <3> QED
      BY <2>0, <2>1, <3>2 DEF RestShown
  <2>6. ((\E u \in Actors : Acts(u)') => (\E u \in Actors : Acts(u)) \/ thread[Worker].job = "refresh")
    BY <1>0, <1>9, <1>10, <2>0, <2>1, <2>2, Numbers DEF StartStages
  <2> QED
    BY <2>2, <2>3, <2>4, <2>5, <2>6 DEF StartsShown, HeirsShown
<1>2. ASSUME ShowsDisabled, Told', Told
      PROVE  /\ StartsShown' /\ HeirsShown' /\ RestShown'
             /\ ((\E u \in Actors : Acts(u)') => (\E u \in Actors : Acts(u)) \/ thread[Worker].job = "refresh")
  <2>0. /\ OneActs /\ ActsInKnown /\ StartsCurrent /\ AliveIsAccountedFor /\ StopIsStop
        /\ StartsShown /\ HeirsShown /\ RestShown /\ OneActs' /\ StopIsStop'
        /\ "stuck" \notin strays' /\ "unheeded" \notin strays'
    BY <1>2, <1>21, <1>22 DEF Told, Clean
  <2>1. /\ thread[Worker].at = "marked"
        /\ \A u \in Actors : u # Worker => thread'[u] = thread[u]
        /\ thread'[Worker].slot = thread[Worker].slot /\ thread'[Worker].job = thread[Worker].job
        /\ thread'[Worker].generation = thread[Worker].generation /\ thread'[Worker].child = thread[Worker].child
        /\ thread'[Worker].at = IF thread[Worker].child = None THEN "stopped" ELSE "stopping"
        /\ \A r \in Slots : slot'[r].live = slot[r].live
        /\ \A r \in Slots : slot'[r].generation = slot[r].generation
        /\ \A r \in Slots : slot'[r].expected = slot[r].expected
        /\ slot'[thread[Worker].slot].status = "disabled"
        /\ \A r \in Slots : r # thread[Worker].slot => slot'[r].status = slot[r].status
        /\ UNCHANGED <<child, panel, strays>>
    BY <1>9, <1>10, <1>2, Numbers DEF ShowsDisabled, OnlyThread, OnlySlot, OnlyChild, SameThread, SameSlot, EndsChild, Rest, AtEase, Of, OffDuty
  <2>2. ASSUME NEW u \in Actors PROVE Acts(u)' <=> Acts(u)
    BY <1>0, <1>9, <1>10, <2>0, <2>1, <2>2, Numbers DEF Acts, Starts, Heir, CalledOff, Newer, Of, StartStages, OneActs, WaiterFits, WorkerFits, OffDuty, StopIsStop, Stops
  <2>3. ASSUME NEW u \in Actors PROVE StartShown(u)'
    BY <2>0, <2>1, <2>2, <2>3, Numbers DEF StartShown, StopIsStop, Stops, Acts, Starts, StartStages
  <2>4. ASSUME NEW k \in Children PROVE HeirShown(k)'
    BY <2>0, <2>1, <2>2, <2>4, Numbers DEF HeirShown, StopIsStop, Stops, Acts
  <2>5. RestShown'
    <3>1. known # None => thread[Worker].slot = known
      BY <1>0, <2>1 DEF WorksOnKnown
    <3> QED
      BY <2>1, <3>1 DEF RestShown
  <2>6. ((\E u \in Actors : Acts(u)') => (\E u \in Actors : Acts(u)) \/ thread[Worker].job = "refresh")
    BY <1>0, <1>9, <1>10, <2>0, <2>1, <2>2, Numbers DEF StartStages
  <2> QED
    BY <2>2, <2>3, <2>4, <2>5, <2>6 DEF StartsShown, HeirsShown
<1>3. ASSUME EndsIt, Told', Told
      PROVE  /\ StartsShown' /\ HeirsShown' /\ RestShown'
             /\ ((\E u \in Actors : Acts(u)') => (\E u \in Actors : Acts(u)) \/ thread[Worker].job = "refresh")
  <2>0. /\ OneActs /\ ActsInKnown /\ StartsCurrent /\ AliveIsAccountedFor /\ StopIsStop
        /\ StartsShown /\ HeirsShown /\ RestShown /\ OneActs' /\ StopIsStop'
        /\ "stuck" \notin strays' /\ "unheeded" \notin strays'
    BY <1>3, <1>21, <1>22 DEF Told, Clean
  <2>1. /\ thread[Worker].at = "stopping" /\ thread'[Worker].at = "lingering"
        /\ \A u \in Actors : u # Worker => thread'[u] = thread[u]
        /\ thread'[Worker].slot = thread[Worker].slot /\ thread'[Worker].job = thread[Worker].job
        /\ thread'[Worker].generation = thread[Worker].generation /\ thread'[Worker].child = thread[Worker].child
        /\ \A j \in Children : child'[j].of = child[j].of
        /\ child'[thread[Worker].child].at = "ended"
        /\ \A j \in Children : j # thread[Worker].child => child'[j].at = child[j].at
        /\ UNCHANGED <<slot, panel, strays>>
    BY <1>9, <1>10, <1>3, Numbers DEF EndsIt, OnlyThread, OnlySlot, OnlyChild, SameThread, SameSlot, EndsChild, Rest, AtEase, Of, OffDuty
  <2>2. ASSUME NEW u \in Actors PROVE Acts(u)' <=> Acts(u)
    BY <1>0, <1>9, <1>10, <2>0, <2>1, <2>2, Numbers DEF Acts, Starts, Heir, CalledOff, Newer, Of, StartStages, OneActs, WaiterFits, WorkerFits, OffDuty, StopIsStop, Stops
  <2>3. ASSUME NEW u \in Actors PROVE StartShown(u)'
    <3>1. CASE u = Worker
      BY <2>1, <3>1 DEF StartShown
    <3>2. CASE u # Worker
      <4>1. thread'[u] = thread[u] /\ StartShown(u) /\ (thread[u].at \notin OffDuty => thread[u].slot \in Slots)
        BY <1>0, <2>0, <2>1, <2>3, <3>2, Numbers DEF StartsShown, WaiterFits
      <4> QED
        BY <2>1, <4>1 DEF StartShown, Of, OffDuty
    <3> QED
      BY <3>1, <3>2
  <2>4. ASSUME NEW k \in Children PROVE HeirShown(k)'
    <3>1. thread'[k] = thread[k] /\ HeirShown(k) /\ (thread[k].at \notin OffDuty => thread[k].slot \in Slots)
      BY <1>0, <2>0, <2>1, <2>4, Numbers DEF HeirsShown, WaiterFits
    <3> QED
      BY <2>1, <3>1 DEF HeirShown, Heir, CalledOff, Newer, Of, OffDuty
  <2>5. RestShown'
    BY <1>0, <1>9, <1>10, <2>0, <2>1, <2>2, Numbers DEF RestShown, WorksOnKnown, WorkerFits, ActsInKnown, ActInKnown, StartStages
  <2>6. ((\E u \in Actors : Acts(u)') => (\E u \in Actors : Acts(u)) \/ thread[Worker].job = "refresh")
    BY <1>0, <1>9, <1>10, <2>0, <2>1, <2>2, Numbers DEF StartStages
  <2> QED
    BY <2>2, <2>3, <2>4, <2>5, <2>6 DEF StartsShown, HeirsShown
<1>4. ASSUME WaitsForEnd, Told', Told
      PROVE  /\ StartsShown' /\ HeirsShown' /\ RestShown'
             /\ ((\E u \in Actors : Acts(u)') => (\E u \in Actors : Acts(u)) \/ thread[Worker].job = "refresh")
  <2>0. /\ OneActs /\ ActsInKnown /\ StartsCurrent /\ AliveIsAccountedFor /\ StopIsStop
        /\ StartsShown /\ HeirsShown /\ RestShown /\ OneActs' /\ StopIsStop'
        /\ "stuck" \notin strays' /\ "unheeded" \notin strays'
    BY <1>4, <1>21, <1>22 DEF Told, Clean
  <2>1. /\ thread[Worker].at = "lingering" /\ thread'[Worker].at = "stopped"
        /\ \A u \in Actors : u # Worker => thread'[u] = thread[u]
        /\ thread'[Worker].slot = thread[Worker].slot /\ thread'[Worker].job = thread[Worker].job
        /\ thread'[Worker].generation = thread[Worker].generation /\ thread'[Worker].child = thread[Worker].child
        /\ slot[thread[Worker].slot].live # None => "hurried" \in strays'
        /\ UNCHANGED <<slot, child, panel>>
    BY <1>9, <1>10, <1>4, Numbers DEF WaitsForEnd, OnlyThread, OnlySlot, OnlyChild, SameThread, SameSlot, EndsChild, Rest, AtEase, Of, OffDuty
  <2>2. ASSUME NEW u \in Actors PROVE Acts(u)' <=> Acts(u)
    BY <1>0, <1>9, <1>10, <2>0, <2>1, <2>2, Numbers DEF Acts, Starts, Heir, CalledOff, Newer, Of, StartStages, OneActs, WaiterFits, WorkerFits, OffDuty, StopIsStop, Stops
  <2>3. ASSUME NEW u \in Actors PROVE StartShown(u)'
    <3>1. CASE u = Worker
      BY <2>1, <3>1 DEF StartShown
    <3>2. CASE u # Worker
      <4>1. thread'[u] = thread[u] /\ StartShown(u) /\ (thread[u].at \notin OffDuty => thread[u].slot \in Slots)
        BY <1>0, <2>0, <2>1, <2>3, <3>2, Numbers DEF StartsShown, WaiterFits
      <4> QED
        BY <2>1, <4>1 DEF StartShown, Of, OffDuty
    <3> QED
      BY <3>1, <3>2
  <2>4. ASSUME NEW k \in Children PROVE HeirShown(k)'
    <3>1. thread'[k] = thread[k] /\ HeirShown(k) /\ (thread[k].at \notin OffDuty => thread[k].slot \in Slots)
      BY <1>0, <2>0, <2>1, <2>4, Numbers DEF HeirsShown, WaiterFits
    <3> QED
      BY <2>1, <3>1 DEF HeirShown, Heir, CalledOff, Newer, Of, OffDuty
  <2>5. RestShown'
    BY <1>0, <1>9, <1>10, <2>0, <2>1, <2>2, Numbers DEF RestShown, WorksOnKnown, WorkerFits, ActsInKnown, ActInKnown, StartStages
  <2>6. ((\E u \in Actors : Acts(u)') => (\E u \in Actors : Acts(u)) \/ thread[Worker].job = "refresh")
    BY <1>0, <1>9, <1>10, <2>0, <2>1, <2>2, Numbers DEF StartStages
  <2> QED
    BY <2>2, <2>3, <2>4, <2>5, <2>6 DEF StartsShown, HeirsShown
<1>5. ASSUME GoesOnAfterStop, Told', Told
      PROVE  /\ StartsShown' /\ HeirsShown' /\ RestShown'
             /\ ((\E u \in Actors : Acts(u)') => (\E u \in Actors : Acts(u)) \/ thread[Worker].job = "refresh")
  <2>0. /\ OneActs /\ ActsInKnown /\ StartsCurrent /\ AliveIsAccountedFor /\ StopIsStop
        /\ StartsShown /\ HeirsShown /\ RestShown /\ OneActs' /\ StopIsStop'
        /\ "stuck" \notin strays' /\ "unheeded" \notin strays'
    BY <1>5, <1>21, <1>22 DEF Told, Clean
  <2>1. /\ thread[Worker].at = "stopped"
        /\ \A u \in Actors : u # Worker => thread'[u] = thread[u]
        /\ \/ thread[Worker].job = "refresh" /\ thread'[Worker].at = "verify" /\ thread'[Worker].slot = thread[Worker].slot /\ thread'[Worker].job = thread[Worker].job
           \/ thread[Worker].job # "refresh" /\ thread'[Worker].at = "idle" /\ thread'[Worker].job = "none"
        /\ \A r \in Slots : slot'[r].live = slot[r].live
        /\ \A r \in Slots : slot'[r].generation = slot[r].generation
        /\ \A r \in Slots : slot'[r].expected = slot[r].expected
        /\ \A r \in Slots : slot'[r].status = slot[r].status
        /\ panel' = IF thread[Worker].job = "remove" THEN None ELSE panel
        /\ UNCHANGED <<child, strays>>
    BY <1>9, <1>10, <1>5, Numbers DEF GoesOnAfterStop, OnlyThread, OnlySlot, OnlyChild, SameThread, SameSlot, EndsChild, Rest, AtEase, Of, OffDuty
  <2>2. ASSUME NEW u \in Actors PROVE ~Acts(u) /\ (Acts(u)' <=> u = Worker /\ thread[Worker].job = "refresh")
    BY <1>0, <1>9, <1>10, <2>0, <2>1, <2>2, Numbers DEF Acts, Starts, Heir, CalledOff, Newer, Of, StartStages, OneActs, WaiterFits, WorkerFits, OffDuty, StopIsStop, Stops
  <2>3. ASSUME NEW u \in Actors PROVE StartShown(u)'
    <3>1. CASE u = Worker
      BY <2>1, <3>1 DEF StartShown
    <3>2. CASE u # Worker
      <4>1. thread'[u] = thread[u] /\ StartShown(u) /\ (thread[u].at \notin OffDuty => thread[u].slot \in Slots)
        BY <1>0, <2>0, <2>1, <2>3, <3>2, Numbers DEF StartsShown, WaiterFits
      <4> QED
        BY <2>1, <4>1 DEF StartShown, Of, OffDuty
    <3> QED
      BY <3>1, <3>2
  <2>4. ASSUME NEW k \in Children PROVE HeirShown(k)'
    <3>1. thread'[k] = thread[k] /\ HeirShown(k) /\ (thread[k].at \notin OffDuty => thread[k].slot \in Slots)
      BY <1>0, <2>0, <2>1, <2>4, Numbers DEF HeirsShown, WaiterFits
    <3> QED
      BY <2>1, <3>1 DEF HeirShown, Heir, CalledOff, Newer, Of, OffDuty
  <2>5. RestShown'
    BY <1>0, <1>9, <1>10, <2>0, <2>1, <2>2, Numbers DEF RestShown, WorksOnKnown, WorkerFits, ActsInKnown, ActInKnown, StartStages
  <2>6. ((\E u \in Actors : Acts(u)') => (\E u \in Actors : Acts(u)) \/ thread[Worker].job = "refresh")
    BY <1>0, <1>9, <1>10, <2>0, <2>1, <2>2, Numbers DEF StartStages
  <2> QED
    BY <2>2, <2>3, <2>4, <2>5, <2>6 DEF StartsShown, HeirsShown
<1> QED
  BY <1>1, <1>2, <1>3, <1>4, <1>5, <1>20 DEF StatusInv

\* A job that is taken on, a sweep and an activation show nothing yet.
LEMMA WorkerShown ==
  ASSUME HostTyped, HostTyped', CleanInv, CleanInv', StatusInv,
         \/ thread[Worker].at = "idle" /\ Takes
         \/ thread[Worker].at = "idle" /\ Assigned("sweep", "mark", known) /\ UNCHANGED <<known, strays>>
         \/ Activates /\ UNCHANGED known,
         UNCHANGED <<slot, child>>
  PROVE  /\ StatusInv'
         /\ Told' => \A u \in Actors : Acts(u)' => Acts(u) \/ (u = Worker /\ thread'[Worker].job = "start")
<1> USE DEF OnlyThread, Of, StartStages, Stops, Assigned, Rest, AtEase, Activates, SameThread
<1>0. /\ thread \in [Actors -> Thread] /\ thread' \in [Actors -> Thread]
      /\ slot \in [Slots -> SlotState] /\ ThreadsTyped /\ ChildrenTyped /\ WorksOnKnown
      /\ known \in Slots \cup {None}
  BY DEF HostTyped, HostDataTyped
<1>1. Told' => Told
  BY DEF Takes, Told, Clean
<1> SUFFICES ASSUME Told', Told
             PROVE  /\ StartsShown' /\ HeirsShown' /\ RestShown'
                    /\ \A u \in Actors : Acts(u)' => Acts(u) \/ (u = Worker /\ thread'[Worker].job = "start")
  BY <1>1 DEF StatusInv
<1>2. OneActs /\ ActsInKnown /\ StartsShown /\ HeirsShown /\ RestShown
  BY DEF Told, CleanInv, StatusInv
<1>3. /\ \A u \in Actors \ {Worker} : thread'[u] = thread[u] /\ (Acts(u)' <=> Acts(u))
      /\ ~Acts(Worker)
      /\ Acts(Worker)' <=> thread'[Worker].at = "verify"
      /\ thread'[Worker].at = "verify" => thread'[Worker].job = "start"
      /\ thread'[Worker].at \in {"idle", "activate", "asking", "verify", "mark"}
      /\ known' = known \/ known' = None \/ thread'[Worker].at = "verify"
  BY <1>0, Numbers DEF Takes, Acts, Starts, Heir, CalledOff, Newer
<1>4. StartsShown'
  BY <1>0, <1>2, <1>3 DEF StartsShown, StartShown, ThreadsTyped, WorkerFits, WaiterFits, OffDuty
<1>5. HeirsShown'
  BY <1>0, <1>2, <1>3, Numbers DEF HeirsShown, HeirShown, Acts, Heir, CalledOff, Newer
<1>6. RestShown'
  BY <1>0, <1>2, <1>3, Numbers DEF RestShown
<1> QED
  BY <1>3, <1>4, <1>5, <1>6

\* The window's moves show nothing.
LEMMA WindowShown ==
  ASSUME StatusInv, UNCHANGED <<known, thread, slot, child>>, Told' => Told
  PROVE  StatusInv' /\ \A t \in Actors : Acts(t)' <=> Acts(t)
<1>1. \A t \in Actors : Acts(t)' <=> Acts(t)
  BY DEF Acts, Starts, Heir, CalledOff, Newer, Of
<1> QED
  BY <1>1 DEF StatusInv, StartsShown, StartShown, HeirsShown, HeirShown, RestShown, Heir, CalledOff, Newer, Of

\* No step leaves a status that does not tell.
LEMMA StepShown ==
  ASSUME HostTyped, HostTyped', CleanInv, CleanInv', StatusInv, HostNext
  PROVE  StatusInv'
<1>1. ASSUME NEW t \in Actors, StartMoves(t), UNCHANGED known
      PROVE  StatusInv'
  BY <1>1, StarterMoves, StarterShown
<1>2. ASSUME NEW k \in Children, WaiterMoves(k), UNCHANGED known
      PROVE  StatusInv'
  BY <1>1, <1>2, Numbers, WaiterDoesMoves, WaiterShown DEF WaiterMoves
<1>3. ASSUME TakeJob PROVE StatusInv'
  BY <1>3, TakeMoves, WorkerShown
<1>4. ASSUME Sweep, UNCHANGED <<enabled, dirty, outdated>> PROVE StatusInv'
  BY <1>4, AssignDoes, WorkerShown DEF Sweep
<1>5. ASSUME CallActivate \/ CallEnds, UNCHANGED known PROVE StatusInv'
  BY <1>5, ActivateMoves, WorkerShown DEF Activates
<1>6. ASSUME MarkStop \/ ShowDisabled \/ EndChild \/ EndWait \/ AfterStop, UNCHANGED known
      PROVE  StatusInv'
  BY <1>6, StopMoves, StopShown
<1>7. ASSUME Enable \/ Reconcile \/ MoveServer PROVE StatusInv'
  BY <1>7, WindowShown DEF Enable, Reconcile, MoveServer, Told, Clean, Stray
<1>8. ASSUME NEW k \in Children, Hears(k) PROVE StatusInv'
  <2>1. UNCHANGED <<known, thread, slot, child>> /\ strays \subseteq strays'
    BY <1>8 DEF Hears, Register, HearModule, Stray
  <2> QED
    BY <2>1, WindowShown DEF Told, Clean
<1> QED
  BY <1>1, <1>2, <1>3, <1>4, <1>5, <1>6, <1>7, <1>8, Numbers DEF HostNext, WorkerMoves, Hears

\* The status tells throughout.
LEMMA StatusInvHolds == HostSpec => []StatusInv
<1>1. HostInit => StatusInv
  BY DEF HostInit, StatusInv, StartsShown, StartShown, HeirsShown, HeirShown, RestShown, Heir, AtEase, Actors
<1>2. HostTyped /\ HostTyped' /\ CleanInv /\ CleanInv' /\ StatusInv /\ [HostNext]_hostVars => StatusInv'
  <2>1. StatusInv /\ UNCHANGED hostVars => StatusInv'
    BY WindowShown DEF hostVars, Told, Clean
  <2> QED
    BY <2>1, StepShown
<1> QED
  BY <1>1, <1>2, HostTypedHolds, CleanInvHolds, PTL DEF HostSpec

\* What is said of the jobs that wait, when the first of them is taken.
LEMMA TakeFirst ==
  ASSUME HostTyped, posted # <<>>, posted' = Tail(posted), NEW job, NEW other
  PROVE  /\ NonePosted(job) => NonePosted(job)' /\ Head(posted) # job
         /\ LastIs(job, other) =>
              LastIs(job, other)' \/ (Head(posted) = job /\ NonePosted(other)')
<1>1. posted \in Seq({"start", "remove", "refresh"}) /\ posted # <<>>
  BY DEF HostTyped, HostDataTyped
<1>2. /\ Head(posted) = posted[1] /\ 1 \in DOMAIN posted
      /\ \A i \in DOMAIN posted' : i + 1 \in DOMAIN posted /\ posted'[i] = posted[i + 1]
      /\ \A i \in DOMAIN posted : i # 1 => i - 1 \in DOMAIN posted' /\ posted'[i - 1] = posted[i]
  BY <1>1
<1>3. NonePosted(job) => NonePosted(job)' /\ Head(posted) # job
  BY <1>2 DEF NonePosted
<1>4. ASSUME LastIs(job, other)
      PROVE  LastIs(job, other)' \/ (Head(posted) = job /\ NonePosted(other)')
  <2>1. PICK i \in DOMAIN posted : posted[i] = job /\ \A j \in DOMAIN posted : j > i => posted[j] # other
    BY <1>4 DEF LastIs
  <2>2. /\ i \in Nat \ {0} /\ DOMAIN posted' \subseteq Nat /\ DOMAIN posted \subseteq Nat
    BY <1>1
  <2>3. CASE i = 1
    <3>1. \A j \in DOMAIN posted' : j + 1 > i
      BY <2>2, <2>3
    <3> QED
      BY <1>2, <2>1, <2>3, <3>1 DEF NonePosted
  <2>4. CASE i # 1
    <3>1. \A j \in DOMAIN posted' : j > i - 1 => j + 1 > i
      BY <2>2
    <3>2. \A j \in DOMAIN posted' : j > i - 1 => posted'[j] # other
      BY <1>2, <2>1, <3>1
    <3> QED
      BY <1>2, <2>1, <2>4, <3>2 DEF LastIs
  <2> QED
    BY <2>3, <2>4
<1> QED
  BY <1>3, <1>4

\* One more that is posted is another's.
LEMMA PostOther ==
  ASSUME HostTyped, NEW x, posted' = Append(posted, x), NEW job, NonePosted(job), x # job
  PROVE  NonePosted(job)'
<1>1. posted \in Seq({"start", "remove", "refresh"})
  BY DEF HostTyped, HostDataTyped
<1>2. \A i \in DOMAIN posted' : (i \in DOMAIN posted /\ posted'[i] = posted[i]) \/ posted'[i] = x
  BY <1>1
<1> QED
  BY <1>2 DEF NonePosted

\* One more that is posted is the last, and what was last stays it before another job.
LEMMA PostOneMore ==
  ASSUME HostTyped, NEW x, posted' = Append(posted, x), NEW job, NEW other
  PROVE  /\ LastIs(job, other) /\ x # other => LastIs(job, other)'
         /\ x = job => LastIs(job, other)'
<1>1. posted \in Seq({"start", "remove", "refresh"})
  BY DEF HostTyped, HostDataTyped
<1>2. /\ DOMAIN posted' = 1 .. Len(posted) + 1 /\ DOMAIN posted = 1 .. Len(posted) /\ Len(posted) \in Nat
      /\ \A i \in DOMAIN posted : posted'[i] = posted[i]
      /\ posted'[Len(posted) + 1] = x
  BY <1>1
<1>3. \A i \in DOMAIN posted' : i \in DOMAIN posted \/ i = Len(posted) + 1
  BY <1>2
<1>4. \A i \in DOMAIN posted : i \in DOMAIN posted' /\ Len(posted) + 1 > i
  BY <1>2
<1>6. ASSUME LastIs(job, other), x # other PROVE LastIs(job, other)'
  <2>1. PICK i \in DOMAIN posted : posted[i] = job /\ \A j \in DOMAIN posted : j > i => posted[j] # other
    BY <1>6 DEF LastIs
  <2>2. \A j \in DOMAIN posted' : j > i => posted'[j] # other
    BY <1>2, <1>3, <1>6, <2>1
  <2> QED
    BY <1>2, <1>4, <2>1, <2>2 DEF LastIs
<1>7. ASSUME x = job PROVE LastIs(job, other)'
  <2>1. Len(posted) + 1 \in DOMAIN posted' /\ \A j \in DOMAIN posted' : ~(j > Len(posted) + 1)
    BY <1>2
  <2> QED
    BY <1>2, <1>7, <2>1 DEF LastIs
<1> QED
  BY <1>6, <1>7

\* The module is not to be started: nothing is known of it, or nobody starts it.
Quiet ==
  \/ known = None
  \/ thread[Worker].job \notin {"start", "refresh"} /\ \A t \in Actors : ~Acts(t)

\* While the wish and the jobs stay as they are, who keeps quiet keeps the wish.
LEMMA WishKept ==
  ASSUME WishInv, UNCHANGED <<posted, known, enabled, dirty>>, Told' => Told,
         "hasty" \in strays => "hasty" \in strays',
         Told' => (Quiet => Quiet')
  PROVE  WishInv'
BY DEF WishInv, WishIsPosted, LastIs, NonePosted, Quiet

\* A job that is taken is the wish come true, or leaves it to the others.
LEMMA WishTaken ==
  ASSUME HostTyped, HostTyped', CleanInv, CleanInv', StatusInv, WishInv, TakeJob,
         UNCHANGED <<enabled, dirty>>
  PROVE  WishInv'
<1>1. /\ thread[Worker].at = "idle" /\ Takes /\ UNCHANGED <<slot, child>>
      /\ posted # <<>> /\ posted' = Tail(posted)
      /\ \/ Head(posted) = "start" /\ known' # None
         \/ Head(posted) = "remove" /\ known' = None
         \/ /\ Head(posted) = "refresh" /\ UNCHANGED known
            /\ Stale(known) \/ UNCHANGED thread
  BY TakeMoves
<1>2. (Told' => Told) /\ ("hasty" \in strays => "hasty" \in strays')
  BY <1>1 DEF Takes, Told, Clean
<1> SUFFICES ASSUME Told', Told, "hasty" \notin strays, ~dirty
             PROVE  WishIsPosted'
  BY <1>2 DEF WishInv, WishIsPosted
<1>3. \A u \in Actors : Acts(u)' => Acts(u) \/ (u = Worker /\ thread'[Worker].job = "start")
  BY <1>1, WorkerShown
<1>4. WishIsPosted /\ RestShown
  BY DEF WishInv, StatusInv
<1>5. CASE enabled
  <2>1. LastIs("start", "remove") \/ (NonePosted("remove") /\ known # None)
    BY <1>4, <1>5 DEF WishIsPosted
  <2>2. LastIs("start", "remove") =>
          LastIs("start", "remove")' \/ (Head(posted) = "start" /\ NonePosted("remove")')
    BY <1>1, TakeFirst
  <2>3. NonePosted("remove") => NonePosted("remove")' /\ Head(posted) # "remove"
    BY <1>1, TakeFirst
  <2> QED
    BY <1>1, <1>5, <2>1, <2>2, <2>3 DEF WishIsPosted
<1>6. CASE ~enabled
  <2>1. LastIs("remove", "start") \/ (NonePosted("start") /\ Quiet)
    BY <1>4, <1>6 DEF WishIsPosted, Quiet
  <2>2. LastIs("remove", "start") =>
          LastIs("remove", "start")' \/ (Head(posted) = "remove" /\ NonePosted("start")')
    BY <1>1, TakeFirst
  <2>3. NonePosted("start") => NonePosted("start")' /\ Head(posted) # "start"
    BY <1>1, TakeFirst
  <2>4. ASSUME Quiet, Head(posted) = "refresh", known # None PROVE Quiet'
    <3>1. slot[known].status \in {"disabled", "broken"}
      BY <1>1, <1>4, <2>4 DEF RestShown, Quiet
    <3>2. UNCHANGED <<thread, known>>
      BY <1>1, <2>4, <3>1 DEF Stale, IsLive
    <3> QED
      BY <1>1, <2>4, <3>2 DEF Quiet, Acts, Starts, Heir, CalledOff, Newer, Of
  <2> QED
    BY <1>1, <1>6, <2>1, <2>2, <2>3, <2>4 DEF WishIsPosted, Quiet
<1> QED
  BY <1>5, <1>6

\* The look at the store posts what is wished for, or finds it there.
LEMMA WishPosted ==
  ASSUME HostTyped, CleanInv, StatusInv, WishInv, Enable \/ Reconcile \/ MoveServer
  PROVE  WishInv'
<1>1. UNCHANGED <<known, thread, slot, child>> /\ (Told' => Told)
      /\ ("hasty" \in strays => "hasty" \in strays')
  BY DEF Enable, Reconcile, MoveServer, Stray, Told, Clean
<1> SUFFICES ASSUME Told', Told, "hasty" \notin strays', "hasty" \notin strays
             PROVE  WishIsPosted'
  BY <1>1 DEF WishInv
<1>2. WishIsPosted /\ OneActs /\ ActsInKnown
  BY DEF WishInv, CleanInv, Told
<1>3. Quiet' <=> Quiet
  BY <1>1 DEF Quiet, Acts, Starts, Heir, CalledOff, Newer, Of
<1>4. WishIsPosted' <=>
        (~dirty' => IF enabled' THEN LastIs("start", "remove")' \/ (NonePosted("remove")' /\ known # None)
                    ELSE LastIs("remove", "start")' \/ (NonePosted("start")' /\ Quiet))
  BY <1>1, <1>3 DEF WishIsPosted, Quiet
<1>5. CASE Enable
  BY <1>4, <1>5 DEF Enable
<1>6. CASE MoveServer
  <2>1. UNCHANGED <<dirty, enabled>> /\ posted' = Append(posted, "refresh")
    BY <1>6 DEF MoveServer
  <2>2. /\ NonePosted("start") => NonePosted("start")'
        /\ NonePosted("remove") => NonePosted("remove")'
    <3>1. NonePosted("start") => NonePosted("start")'
      BY <2>1, PostOther
    <3>2. NonePosted("remove") => NonePosted("remove")'
      BY <2>1, PostOther
    <3> QED
      BY <3>1, <3>2
  <2>3. /\ LastIs("start", "remove") => LastIs("start", "remove")'
        /\ LastIs("remove", "start") => LastIs("remove", "start")'
    BY <2>1, PostOneMore
  <2>4. ~dirty => IF enabled THEN LastIs("start", "remove") \/ (NonePosted("remove") /\ known # None)
                  ELSE LastIs("remove", "start") \/ (NonePosted("start") /\ Quiet)
    BY <1>2 DEF WishIsPosted, Quiet
  <2> QED
    BY <1>4, <2>1, <2>2, <2>3, <2>4
<1>7. CASE Reconcile
  <2>1. UNCHANGED enabled /\ (IsLive(known) => known # None)
    BY <1>7 DEF Reconcile, IsLive
  <2>2. CASE enabled /\ ~IsLive(known)
    <3>1. posted' = Append(posted, "start")
      BY <1>7, <2>2 DEF Reconcile
    <3>2. LastIs("start", "remove")'
      BY <3>1, PostOneMore
    <3> QED
      BY <1>4, <2>1, <2>2, <3>2
  <2>3. CASE ~enabled /\ IsLive(known)
    <3>1. posted' = Append(posted, "remove")
      BY <1>7, <2>3 DEF Reconcile
    <3>2. LastIs("remove", "start")'
      BY <3>1, PostOneMore
    <3> QED
      BY <1>4, <2>1, <2>3, <3>2
  <2>4. CASE enabled /\ IsLive(known)
    <3>1. posted' = posted /\ ~Going
      BY <1>7, <2>4 DEF Reconcile, Stray
    <3>2. NonePosted("remove")'
      BY <3>1 DEF NonePosted, Going
    <3> QED
      BY <1>4, <2>1, <2>4, <3>2
  <2>5. CASE ~enabled /\ ~IsLive(known)
    <3>1. posted' = posted /\ ~Coming
      BY <1>7, <2>5 DEF Reconcile, Stray
    <3>2. NonePosted("start")'
      BY <3>1 DEF NonePosted, Coming
    <3>3. thread[Worker].job \notin {"start", "refresh"} /\ (known # None => ~Lingers(known))
      BY <3>1 DEF Coming, HostTyped, ThreadsTyped, WorkerFits, WaiterFits
    <3>4. ASSUME known # None, NEW t \in Actors, Acts(t) PROVE FALSE
      <4>1. t \in Children
        BY <3>3, <3>4, Numbers DEF Acts, Starts, HostTyped, ThreadsTyped, WorkerFits, WaiterFits
      <4>2. thread[t].slot = known /\ thread[t].at \notin OffDuty
        BY <1>2, <3>4, <4>1 DEF ActsInKnown, ActInKnown, Acts, Starts, StartStages, Heir, OffDuty
      <4>3. child[t].of = known
        BY <4>1, <4>2 DEF HostTyped, ChildrenTyped, ChildFits, SlotFits
      <4> QED
        BY <3>3, <3>4, <4>1, <4>2, <4>3 DEF Lingers, OffDuty
    <3>5. Quiet
      BY <3>3, <3>4 DEF Quiet
    <3> QED
      BY <1>4, <2>1, <2>5, <3>2, <3>5
  <2> QED
    BY <2>2, <2>3, <2>4, <2>5
<1> QED
  BY <1>5, <1>6, <1>7

\* No step forgets the wish.
LEMMA StepWished ==
  ASSUME HostTyped, HostTyped', CleanInv, CleanInv', StatusInv, WishInv, HostNext
  PROVE  WishInv'
<1> DEFINE Same == UNCHANGED <<known, posted, enabled, dirty>>
<1>1. ASSUME NEW t \in Actors, StartMoves(t), Same
      PROVE  WishInv'
  <2>1. /\ StarterDoes(t) /\ thread[t].at \in StartStages
        /\ Told' /\ (\E u \in Actors : Acts(u)') =>
           (\E u \in Actors : Acts(u)) \/ thread[Worker].job = "refresh"
    BY <1>1, StarterMoves, StarterShown
  <2>2. /\ Told' => Told
        /\ "hasty" \in strays => "hasty" \in strays'
        /\ thread[Worker].at \in StartStages \/ thread'[Worker].job = thread[Worker].job
    BY SMTT(60), <2>1, Numbers DEF StarterDoes, GivesUp, Bumps, ShowsStarting, Spawns, Greeted, Serves, OnlyThread,
       SameThread, Told, Clean, HostTyped, StartersTyped, GreetFits, GreetApart, Tended, StopHolds, Greets
  <2>3. thread[Worker].at \in StartStages => Acts(Worker)
    BY DEF Acts, Starts
  <2> QED
    BY <1>1, <2>1, <2>2, <2>3, Numbers, WishKept DEF Quiet
<1>2. ASSUME NEW k \in Children, WaiterMoves(k), Same
      PROVE  WishInv'
  <2>1. CASE StartMoves(k)
    BY <1>1, <1>2, <2>1, Numbers
  <2>2. CASE WaiterDoes(k)
    <3>1. Told' /\ (\E u \in Actors : Acts(u)') =>
           (\E u \in Actors : Acts(u)) \/ thread[Worker].job = "refresh"
      BY <1>2, <2>2, WaiterShown
    <3>2. /\ Told' => Told
          /\ "hasty" \in strays => "hasty" \in strays'
          /\ thread'[Worker] = thread[Worker]
      BY <2>2, Numbers DEF WaiterDoes, Dies, Notices, SendsGone, Judges, Wakes, OnlyThread, Told, Clean
    <3> QED
      BY <1>2, <3>1, <3>2, WishKept DEF Quiet
  <2> QED
    BY <1>2, <2>1, <2>2, WaiterDoesMoves DEF WaiterMoves
<1>3. ASSUME TakeJob, UNCHANGED <<enabled, dirty, outdated>> PROVE WishInv'
  BY <1>3, WishTaken
<1>4. ASSUME Sweep, UNCHANGED <<enabled, dirty, outdated>> PROVE WishInv'
  <2>1. Same /\ UNCHANGED strays /\ thread[Worker].at = "idle" /\ Assigned("sweep", "mark", known)
        /\ UNCHANGED <<slot, child>>
    BY <1>4, AssignDoes DEF Sweep
  <2>2. Told' => \A u \in Actors : Acts(u)' => Acts(u)
    BY <2>1, WorkerShown DEF Assigned
  <2> QED
    BY <2>1, <2>2, WishKept DEF Quiet, Assigned, Told, Clean
<1>5. ASSUME CallActivate \/ CallEnds, Same PROVE WishInv'
  <2>1. Activates /\ thread[Worker].job \in {"start", "refresh"}
    BY <1>5, ActivateMoves DEF Activates, HostTyped, ThreadsTyped, WorkerFits
  <2> QED
    BY <1>5, <2>1, WishKept DEF Activates, Quiet, Told, Clean
<1>6. ASSUME MarkStop \/ ShowDisabled \/ EndChild \/ EndWait \/ AfterStop, Same
      PROVE  WishInv'
  <2>1. /\ Marks \/ ShowsDisabled \/ EndsIt \/ WaitsForEnd \/ GoesOnAfterStop
        /\ Told' /\ (\E u \in Actors : Acts(u)') =>
           (\E u \in Actors : Acts(u)) \/ thread[Worker].job = "refresh"
    BY <1>6, StopMoves, StopShown
  <2>2. /\ Told' => Told
        /\ "hasty" \in strays => "hasty" \in strays'
        /\ thread'[Worker].job \in {thread[Worker].job, "none"}
    BY <2>1 DEF Marks, ShowsDisabled, EndsIt, WaitsForEnd, GoesOnAfterStop, SameThread, Rest, AtEase,
       Told, Clean
  <2> QED
    BY <1>6, <2>1, <2>2, WishKept DEF Quiet
<1>7. ASSUME Enable \/ Reconcile \/ MoveServer PROVE WishInv'
  BY <1>7, WishPosted
<1>8. ASSUME NEW k \in Children, Hears(k) PROVE WishInv'
  <2>1. UNCHANGED <<known, thread, slot>> /\ Same /\ strays \subseteq strays'
    BY <1>8 DEF Hears, Register, HearModule, Stray
  <2>2. Quiet => Quiet'
    BY <2>1 DEF Quiet, Acts, Starts, Heir, CalledOff, Newer, Of
  <2> QED
    BY <2>1, <2>2, WishKept DEF Told, Clean
<1> QED
  BY <1>1, <1>2, <1>3, <1>4, <1>5, <1>6, <1>7, <1>8, Numbers DEF HostNext, WorkerMoves, Hears

\* The wish is posted or has come true throughout.
LEMMA WishInvHolds == HostSpec => []WishInv
<1>1. HostInit => WishInv
  BY DEF HostInit, WishInv, WishIsPosted, LastIs
<1>2. HostTyped /\ HostTyped' /\ CleanInv /\ CleanInv' /\ StatusInv /\ WishInv /\ [HostNext]_hostVars => WishInv'
  <2>1. WishInv /\ UNCHANGED hostVars => WishInv'
    BY WishKept DEF hostVars, Told, Clean, Quiet, Acts, Starts, Heir, CalledOff, Newer, Of
  <2> QED
    BY <2>1, StepWished
<1> QED
  BY <1>1, <1>2, HostTypedHolds, CleanInvHolds, StatusInvHolds, PTL DEF HostSpec

\* When nothing is left to do, the module runs only if it is enabled, under the slot the
\* host knows and with the status it has; and one that is enabled and does not run is
\* shown as disabled or broken.
THEOREM RestsWell == HostSpec => []RestsAsWanted
<1>1. HostTyped /\ CleanInv /\ StatusInv /\ WishInv => RestsAsWanted
  <2> SUFFICES ASSUME HostTyped, CleanInv, StatusInv, WishInv, HostAtRest,
                      strays \cap {"replaced", "unheeded", "hasty", "stuck"} = {}
               PROVE  /\ Alive # {} => enabled /\ IsLive(known) /\ Alive = {slot[known].live}
                      /\ enabled => known # None
                      /\ known # None => slot[known].status \in {"disabled", "broken"}
                                           \/ (slot[known].status = "running" /\ Alive # {})
    BY DEF RestsAsWanted
  <2>1. /\ OneActs /\ ActsInKnown /\ AliveIsAccountedFor /\ StopIsStop /\ HeirsShown /\ RestShown
        /\ WishIsPosted /\ Clean
    BY DEF CleanInv, StatusInv, WishInv, Told, Clean
  <2>2. /\ thread[Worker].at = "idle" /\ thread[Worker].job = "none" /\ posted = <<>> /\ ~dirty
        /\ \A t \in Actors : ~Starts(t)
        /\ \A k \in Children : Heir(k) => thread[k].at = "watching" /\ k \in Alive
        /\ Children \subseteq Actors /\ Worker \notin Children
    BY Numbers DEF HostAtRest, HostTyped, ThreadsTyped, WorkerFits, WaiterFits, Starts, StartStages, Heir
  <2>3. \A k \in Alive : /\ Heir(k) /\ Of(k).live = k /\ thread[k].slot = known /\ known # None
                         /\ Of(k).status = "running" /\ k \in Children
    <3> SUFFICES ASSUME NEW k \in Alive
                 PROVE  /\ Heir(k) /\ Of(k).live = k /\ thread[k].slot = known /\ known # None
                        /\ Of(k).status = "running" /\ k \in Children
      OBVIOUS
    <3>1. k \in Children
      BY DEF Alive
    <3>2. Heir(k) /\ Of(k).live = k
      BY <2>1, <2>2, <3>1 DEF AliveIsAccountedFor, Accounted, Greets, Starts, StartStages
    <3>3. thread[k].slot = known
      BY <2>1, <2>2, <3>1, <3>2 DEF ActsInKnown, ActInKnown, Acts
    <3>4. thread[k].at = "watching" /\ Of(k).status = "running"
      BY <2>1, <2>2, <3>1, <3>2 DEF HeirsShown, HeirShown
    <3>5. known # None
      BY <2>2, <3>1, <3>3, <3>4, Numbers DEF HostTyped, ThreadsTyped, WorkerFits, WaiterFits, OffDuty
    <3> QED
      BY <3>1, <3>2, <3>3, <3>4, <3>5
  <2>4. enabled => known # None
    BY <2>1, <2>2 DEF WishIsPosted, LastIs
  <2>5. ~enabled => known = None \/ \A t \in Actors : ~Acts(t)
    BY <2>1, <2>2 DEF WishIsPosted, LastIs
  <2>6. Alive # {} => enabled /\ IsLive(known) /\ Alive = {slot[known].live}
    <3> SUFFICES ASSUME NEW k \in Alive PROVE enabled /\ IsLive(known) /\ Alive = {slot[known].live}
      OBVIOUS
    <3>1. k \in Actors /\ Acts(k) /\ Of(k) = slot[known]
      BY <2>2, <2>3 DEF Acts, Of
    <3>2. Alive = {k}
      BY <2>1, AtMostOneAlive
    <3> QED
      BY <2>3, <2>5, <3>1, <3>2 DEF IsLive
  <2>7. ASSUME known # None
        PROVE  slot[known].status \in {"disabled", "broken"} \/ (slot[known].status = "running" /\ Alive # {})
    <3>1. CASE \A t \in Actors : ~Acts(t)
      BY <2>1, <2>2, <2>7, <3>1 DEF RestShown
    <3>2. CASE \E t \in Actors : Acts(t)
      <4>1. PICK k \in Alive : TRUE
        BY <2>2, <3>2, Numbers DEF Acts
      <4> QED
        BY <2>3, <4>1 DEF Of
    <3> QED
      BY <3>1, <3>2
  <2> QED
    BY <2>4, <2>6, <2>7
<1> QED
  BY <1>1, HostTypedHolds, CleanInvHolds, StatusInvHolds, WishInvHolds, PTL
-----------------------------------------------------------------------------
(* The panel and the server's address.                                     *)

\* A move to the server's new address that waits is taken first, or goes on waiting.
LEMMA RefreshWaits ==
  ASSUME HostTyped, posted # <<>>, posted' = Tail(posted), Head(posted) # "refresh",
         \E i \in DOMAIN posted : posted[i] = "refresh"
  PROVE  \E i \in DOMAIN posted' : posted'[i] = "refresh"
<1>1. /\ Head(posted) = posted[1]
      /\ \A i \in DOMAIN posted : i # 1 => i - 1 \in DOMAIN posted' /\ posted'[i - 1] = posted[i]
  BY DEF HostTyped, HostDataTyped
<1> QED
  BY <1>1

\* A start leaves the panel alone; the worker's ends in an activation.
LEMMA StarterTouches ==
  ASSUME HostTyped, HostTyped', CleanInv, CleanInv', TouchInv, NEW t \in Actors, StarterDoes(t), thread[t].at \in StartStages,
         UNCHANGED <<known, posted, outdated>>
  PROVE  TouchInv'
<1>0. /\ WorkerFits /\ (\A k \in Children : WaiterFits(k)) /\ (\A k \in Children : ChildFits(k))
      /\ (\A r \in Slots : SlotFits(r)) /\ (\A u \in Actors : GreetFits(u)) /\ GreetApart
      /\ (\A k \in Children : Tended(k)) /\ StopHolds /\ WorksOnKnown
  BY DEF HostTyped, ThreadsTyped, ChildrenTyped, StartersTyped
<1>9. /\ \A u \in Actors : thread[u].generation \in Nat /\ thread[u].slot \in Slots \cup {None}
                            /\ thread[u].child \in Children \cup {None}
      /\ \A r \in Slots : slot[r].generation \in Nat /\ slot'[r].generation \in Nat
                          /\ slot[r].live \in Children \cup {None} /\ slot[r].status \in Statuses
      /\ \A k \in Children : child[k].at \in {"unborn", "greeting", "up", "ended"}
      /\ known \in Slots \cup {None} /\ panel \in Children \cup {None}
  BY DEF HostTyped, HostDataTyped, Thread, SlotState
<1>10. /\ (t = Worker \/ t \in Children) /\ thread[t].slot \in Slots /\ Acts(t) /\ Starts(t)
       /\ thread[t].at \in {"greeting", "greeted"} => thread[t].child \in Children
  BY <1>0, Numbers DEF Starts, Acts, StartStages, WorkerFits, WaiterFits, OffDuty, GreetFits, Greets
<1>20. Touch' => Touch
  BY DEF StarterDoes, GivesUp, Bumps, ShowsStarting, Spawns, Greeted, Serves, Touch
<1>21. Touch => /\ OneActs /\ ActsInKnown /\ StartsCurrent /\ AliveIsAccountedFor /\ StopIsStop
               /\ WatchesLive /\ PanelIsTold /\ ServedIsShown /\ OutdatedGoes
  BY DEF Touch, Clean, CleanInv, TouchInv
<1>22. Touch' => StartsCurrent' /\ AliveIsAccountedFor' /\ StopIsStop'
  BY DEF Touch, Clean, CleanInv
<1>1. ASSUME GivesUp(t), Touch', Touch
      PROVE  WatchesLive' /\ PanelIsTold' /\ ServedIsShown' /\ OutdatedGoes'
  <2>0. /\ OneActs /\ ActsInKnown /\ StartsCurrent /\ AliveIsAccountedFor /\ StopIsStop
        /\ WatchesLive /\ PanelIsTold /\ ServedIsShown /\ OutdatedGoes
        /\ StartsCurrent' /\ AliveIsAccountedFor' /\ StopIsStop' /\ strays' \subseteq {"hasty"}
    BY <1>1, <1>21, <1>22 DEF Touch
  <2>1. /\ thread[t].at \in {"verify", "spawning", "greeting"}
        /\ \A u \in Actors : u # t => thread'[u] = thread[u]
        /\ thread'[t].at = (IF t = Worker THEN "idle" ELSE "over") /\ thread'[t].job = "none"
        /\ \A r \in Slots : slot'[r].live = slot[r].live
        /\ \A r \in Slots : slot'[r].generation = slot[r].generation
        /\ \A r \in Slots : slot'[r].expected = slot[r].expected
        /\ slot'[thread[t].slot].status \in {"disabled", "broken"}
        /\ \A r \in Slots : r # thread[t].slot => slot'[r].status = slot[r].status
        /\ \A j \in Children : child'[j].of = child[j].of
        /\ \A j \in Children : child'[j].at = child[j].at \/
                  (child'[j].at = "ended" /\ thread[t].at = "greeting" /\ j = thread[t].child)
        /\ thread[t].at = "greeting" => child'[thread[t].child].at = "ended"
        /\ UNCHANGED <<calls, mail, panel, strays>>
    BY <1>9, <1>10, <1>1, Numbers DEF GivesUp, OnlyThread, OnlySlot, OnlyChild, SameThread, SameSlot, EndsChild, Rest, AtEase, Of, OffDuty
  <2>2. ASSUME NEW k \in Children PROVE Watches(k)'
    BY <1>0, <1>9, <1>10, <2>0, <2>1, <2>2, Numbers DEF WatchesLive, Watches, Newer, Of, ChildFits, WaiterFits, OffDuty, StartsCurrent, StartCurrent, Starts, StartStages, GreetFits, Greets
  <2>3. LeavesNone'
    BY <1>0, <1>9, <1>10, <2>0, <2>1, Numbers DEF WatchesLive, LeavesNone, Of, WorkerFits, StartStages
  <2>4. PanelIsTold'
    BY <1>0, <1>9, <1>10, <2>0, <2>1, Numbers DEF PanelIsTold, Untold, GreetFits, Greets, StartStages
  <2>5. ASSUME NEW k \in Children PROVE ServeShown(k)'
    BY <1>0, <1>9, <1>10, <2>0, <2>1, <2>5, Numbers DEF ServedIsShown, ServeShown, Alive, ChildFits
  <2>6. ASSUME NEW k \in Children PROVE GoesSoon(k)'
    BY <1>0, <1>9, <1>10, <2>0, <2>1, <2>6, Numbers DEF OutdatedGoes, GoesSoon, Alive, ChildFits, StartStages, WorkerFits, StopIsStop, Stops
  <2> QED
    BY <2>2, <2>3, <2>4, <2>5, <2>6 DEF WatchesLive, ServedIsShown, OutdatedGoes
<1>2. ASSUME Bumps(t), Touch', Touch
      PROVE  WatchesLive' /\ PanelIsTold' /\ ServedIsShown' /\ OutdatedGoes'
  <2>0. /\ OneActs /\ ActsInKnown /\ StartsCurrent /\ AliveIsAccountedFor /\ StopIsStop
        /\ WatchesLive /\ PanelIsTold /\ ServedIsShown /\ OutdatedGoes
        /\ StartsCurrent' /\ AliveIsAccountedFor' /\ StopIsStop' /\ strays' \subseteq {"hasty"}
    BY <1>2, <1>21, <1>22 DEF Touch
  <2>1. /\ thread[t].at = "verify" /\ thread'[t].at = "bumped"
        /\ \A u \in Actors : u # t => thread'[u] = thread[u]
        /\ thread'[t].slot = thread[t].slot /\ thread'[t].job = thread[t].job
        /\ thread'[t].generation = slot[thread[t].slot].generation + 1
        /\ \A r \in Slots : r # thread[t].slot => slot'[r] = slot[r]
        /\ \A r \in Slots : slot'[r].status = slot[r].status
        /\ slot'[thread[t].slot].generation = slot[thread[t].slot].generation + 1
        /\ slot'[thread[t].slot].live = None /\ ~slot'[thread[t].slot].expected
        /\ UNCHANGED <<child, calls, mail, panel, strays>>
    BY <1>9, <1>10, <1>2, Numbers DEF Bumps, OnlyThread, OnlySlot, OnlyChild, SameThread, SameSlot, EndsChild, Rest, AtEase, Of, OffDuty
  <2>2. ASSUME NEW k \in Children PROVE Watches(k)'
    <3>1. CASE thread'[k].at = "watching"
      <4>1. k # t /\ thread'[k] = thread[k] /\ thread[k].at = "watching" /\ k \in Actors /\ thread[k].slot \in Slots
        BY <1>0, <1>10, <2>1, <2>2, <3>1, Numbers DEF WaiterFits, OffDuty
      <4>2. Of(k).live = k /\ ~Newer(k) /\ k # None
        BY <2>0, <2>2, <4>1, Numbers DEF WatchesLive, Watches
      <4>3. thread[k].slot # thread[t].slot
        <5>1. CASE t = Worker
          BY <2>0, <2>1, <4>2, <5>1 DEF WatchesLive, LeavesNone, Of
        <5>2. CASE t # Worker
          <6>1. ~Of(t).expected
            BY <1>10, <2>0, <5>2 DEF StartsCurrent, StartCurrent
          <6>2. ~Heir(k)
            BY <1>10, <2>0, <2>2, <4>1, Numbers DEF OneActs, Acts
          <6> QED
            BY <4>1, <4>2, <6>1, <6>2 DEF Heir, CalledOff, Of
        <5> QED
          BY <5>1, <5>2
      <4> QED
        BY <2>1, <4>1, <4>2, <4>3 DEF Watches, Newer, Of
    <3> QED
      BY <3>1 DEF Watches
  <2>3. LeavesNone'
    BY <1>0, <1>9, <1>10, <2>0, <2>1, Numbers DEF WatchesLive, LeavesNone, Of, WorkerFits, StartStages
  <2>4. PanelIsTold'
    BY <1>0, <1>9, <1>10, <2>0, <2>1, Numbers DEF PanelIsTold, Untold, GreetFits, Greets, StartStages
  <2>5. ASSUME NEW k \in Children PROVE ServeShown(k)'
    BY <1>0, <1>9, <1>10, <2>0, <2>1, <2>5, Numbers DEF ServedIsShown, ServeShown, Alive, ChildFits
  <2>6. ASSUME NEW k \in Children PROVE GoesSoon(k)'
    BY <1>0, <1>9, <1>10, <2>0, <2>1, <2>6, Numbers DEF OutdatedGoes, GoesSoon, Alive, ChildFits, StartStages, WorkerFits, StopIsStop, Stops
  <2> QED
    BY <2>2, <2>3, <2>4, <2>5, <2>6 DEF WatchesLive, ServedIsShown, OutdatedGoes
<1>3. ASSUME ShowsStarting(t), Touch', Touch
      PROVE  WatchesLive' /\ PanelIsTold' /\ ServedIsShown' /\ OutdatedGoes'
  <2>0. /\ OneActs /\ ActsInKnown /\ StartsCurrent /\ AliveIsAccountedFor /\ StopIsStop
        /\ WatchesLive /\ PanelIsTold /\ ServedIsShown /\ OutdatedGoes
        /\ StartsCurrent' /\ AliveIsAccountedFor' /\ StopIsStop' /\ strays' \subseteq {"hasty"}
    BY <1>3, <1>21, <1>22 DEF Touch
  <2>1. /\ thread[t].at = "bumped" /\ thread'[t].at = "spawning"
        /\ \A u \in Actors : u # t => thread'[u] = thread[u]
        /\ thread'[t].slot = thread[t].slot /\ thread'[t].job = thread[t].job
        /\ thread'[t].generation = thread[t].generation /\ thread'[t].child = thread[t].child
        /\ \A r \in Slots : slot'[r].live = slot[r].live
        /\ \A r \in Slots : slot'[r].generation = slot[r].generation
        /\ \A r \in Slots : slot'[r].expected = slot[r].expected
        /\ slot'[thread[t].slot].status = "starting"
        /\ \A r \in Slots : r # thread[t].slot => slot'[r].status = slot[r].status
        /\ UNCHANGED <<child, calls, mail, panel, strays>>
    BY <1>9, <1>10, <1>3, Numbers DEF ShowsStarting, OnlyThread, OnlySlot, OnlyChild, SameThread, SameSlot, EndsChild, Rest, AtEase, Of, OffDuty
  <2>2. ASSUME NEW k \in Children PROVE Watches(k)'
    BY <1>0, <1>9, <1>10, <2>0, <2>1, <2>2, Numbers DEF WatchesLive, Watches, Newer, Of, ChildFits, WaiterFits, OffDuty, StartsCurrent, StartCurrent, Starts, StartStages, GreetFits, Greets
  <2>3. LeavesNone'
    BY <1>0, <1>9, <1>10, <2>0, <2>1, Numbers DEF WatchesLive, LeavesNone, Of, WorkerFits, StartStages
  <2>4. PanelIsTold'
    BY <1>0, <1>9, <1>10, <2>0, <2>1, Numbers DEF PanelIsTold, Untold, GreetFits, Greets, StartStages
  <2>5. ASSUME NEW k \in Children PROVE ServeShown(k)'
    BY <1>0, <1>9, <1>10, <2>0, <2>1, <2>5, Numbers DEF ServedIsShown, ServeShown, Alive, ChildFits
  <2>6. ASSUME NEW k \in Children PROVE GoesSoon(k)'
    BY <1>0, <1>9, <1>10, <2>0, <2>1, <2>6, Numbers DEF OutdatedGoes, GoesSoon, Alive, ChildFits, StartStages, WorkerFits, StopIsStop, Stops
  <2> QED
    BY <2>2, <2>3, <2>4, <2>5, <2>6 DEF WatchesLive, ServedIsShown, OutdatedGoes
<1>4. ASSUME NEW k0 \in Children, Spawns(t, k0), Touch', Touch
      PROVE  WatchesLive' /\ PanelIsTold' /\ ServedIsShown' /\ OutdatedGoes'
  <2>0. /\ OneActs /\ ActsInKnown /\ StartsCurrent /\ AliveIsAccountedFor /\ StopIsStop
        /\ WatchesLive /\ PanelIsTold /\ ServedIsShown /\ OutdatedGoes
        /\ StartsCurrent' /\ AliveIsAccountedFor' /\ StopIsStop' /\ strays' \subseteq {"hasty"}
    BY <1>4, <1>21, <1>22 DEF Touch
  <2>1. /\ thread[t].at = "spawning" /\ thread'[t].at = "greeting"
        /\ \A u \in Actors : u # t => thread'[u] = thread[u]
        /\ thread'[t].slot = thread[t].slot /\ thread'[t].job = thread[t].job
        /\ thread'[t].generation = thread[t].generation /\ thread'[t].child = k0
        /\ child[k0].at = "unborn" /\ child'[k0].at = "greeting" /\ child'[k0].of = thread[t].slot
        /\ \A j \in Children : j # k0 => child'[j] = child[j]
        /\ UNCHANGED <<slot, calls, mail, panel, strays>>
    BY <1>9, <1>10, <1>4, Numbers DEF Spawns, OnlyThread, OnlySlot, OnlyChild, SameThread, SameSlot, EndsChild, Rest, AtEase, Of, OffDuty
  <2>2. ASSUME NEW k \in Children PROVE Watches(k)'
    BY <1>0, <1>9, <1>10, <2>0, <2>1, <2>2, Numbers DEF WatchesLive, Watches, Newer, Of, ChildFits, WaiterFits, OffDuty, StartsCurrent, StartCurrent, Starts, StartStages, GreetFits, Greets
  <2>3. LeavesNone'
    BY <1>0, <1>9, <1>10, <2>0, <2>1, Numbers DEF WatchesLive, LeavesNone, Of, WorkerFits, StartStages
  <2>4. PanelIsTold'
    BY <1>0, <1>9, <1>10, <2>0, <2>1, Numbers DEF PanelIsTold, Untold, GreetFits, Greets, StartStages
  <2>5. ASSUME NEW k \in Children PROVE ServeShown(k)'
    BY <1>0, <1>9, <1>10, <2>0, <2>1, <2>5, Numbers DEF ServedIsShown, ServeShown, Alive, ChildFits
  <2>6. ASSUME NEW k \in Children PROVE GoesSoon(k)'
    BY <1>0, <1>9, <1>10, <2>0, <2>1, <2>6, Numbers DEF OutdatedGoes, GoesSoon, Alive, ChildFits, StartStages, WorkerFits, StopIsStop, Stops
  <2> QED
    BY <2>2, <2>3, <2>4, <2>5, <2>6 DEF WatchesLive, ServedIsShown, OutdatedGoes
<1>5. ASSUME Greeted(t), Touch', Touch
      PROVE  WatchesLive' /\ PanelIsTold' /\ ServedIsShown' /\ OutdatedGoes'
  <2>0. /\ OneActs /\ ActsInKnown /\ StartsCurrent /\ AliveIsAccountedFor /\ StopIsStop
        /\ WatchesLive /\ PanelIsTold /\ ServedIsShown /\ OutdatedGoes
        /\ StartsCurrent' /\ AliveIsAccountedFor' /\ StopIsStop' /\ strays' \subseteq {"hasty"}
    BY <1>5, <1>21, <1>22 DEF Touch
  <2>1. /\ thread[t].at = "greeting" /\ thread'[t].at = "greeted"
        /\ thread[t].child \in Alive
        /\ \A u \in Actors : u # t => thread'[u] = thread[u]
        /\ thread'[t].slot = thread[t].slot /\ thread'[t].job = thread[t].job
        /\ thread'[t].generation = thread[t].generation /\ thread'[t].child = thread[t].child
        /\ \A r \in Slots : slot'[r].generation = slot[r].generation
        /\ \A r \in Slots : slot'[r].expected = slot[r].expected
        /\ \A r \in Slots : slot'[r].status = slot[r].status
        /\ slot'[thread[t].slot].live = thread[t].child
        /\ \A r \in Slots : r # thread[t].slot => slot'[r].live = slot[r].live
        /\ \A j \in Children : child'[j].of = child[j].of
        /\ child'[thread[t].child].at = "up"
        /\ \A j \in Children : j # thread[t].child => child'[j].at = child[j].at
        /\ UNCHANGED <<calls, mail, panel, strays>>
    BY <1>9, <1>10, <1>5, Numbers DEF Greeted, OnlyThread, OnlySlot, OnlyChild, SameThread, SameSlot, EndsChild, Rest, AtEase, Of, OffDuty
  <2>2. ASSUME NEW k \in Children PROVE Watches(k)'
    BY <1>0, <1>9, <1>10, <2>0, <2>1, <2>2, Numbers DEF WatchesLive, Watches, Newer, Of, ChildFits, WaiterFits, OffDuty, StartsCurrent, StartCurrent, Starts, StartStages, GreetFits, Greets
  <2>3. LeavesNone'
    <3>1. CASE t = Worker
      BY <2>1, <3>1 DEF LeavesNone
    <3>2. CASE t # Worker
      BY <1>10, <2>0, <2>1, <3>2, Numbers DEF LeavesNone, OneActs, Acts, Starts, StartStages, StopIsStop, Stops
    <3> QED
      BY <3>1, <3>2
  <2>4. PanelIsTold'
    BY <1>0, <1>9, <1>10, <2>0, <2>1, Numbers DEF PanelIsTold, Untold, GreetFits, Greets, StartStages
  <2>5. ASSUME NEW k \in Children PROVE ServeShown(k)'
    <3>1. CASE k \in Alive' /\ thread'[k].at = "watching"
      <4>1. k # t /\ thread'[k] = thread[k] /\ k # thread[t].child
        BY <1>0, <1>10, <2>1, <2>5, <3>1, Numbers DEF GreetFits, Greets
      <4>2. k \in Alive /\ thread[k].at = "watching"
        BY <2>1, <2>5, <3>1, <4>1 DEF Alive
      <4>3. thread'[Worker].at = "activate" <=> thread[Worker].at = "activate"
        BY <2>1, Numbers
      <4> QED
        BY <2>0, <2>1, <2>5, <4>2, <4>3 DEF ServedIsShown, ServeShown
    <3> QED
      BY <3>1 DEF ServeShown
  <2>6. ASSUME NEW k \in Children PROVE GoesSoon(k)'
    <3>1. k \in Alive' => k \in Alive
      BY <2>1, <2>6 DEF Alive
    <3>2. thread'[Worker].at # thread[Worker].at => t = Worker
      BY <2>1, Numbers
    <3> QED
      BY <2>0, <2>1, <2>6, <3>1, <3>2, Numbers DEF OutdatedGoes, GoesSoon
  <2> QED
    BY <2>2, <2>3, <2>4, <2>5, <2>6 DEF WatchesLive, ServedIsShown, OutdatedGoes
<1>6. ASSUME Serves(t), Touch', Touch
      PROVE  WatchesLive' /\ PanelIsTold' /\ ServedIsShown' /\ OutdatedGoes'
  <2>0. /\ OneActs /\ ActsInKnown /\ StartsCurrent /\ AliveIsAccountedFor /\ StopIsStop
        /\ WatchesLive /\ PanelIsTold /\ ServedIsShown /\ OutdatedGoes
        /\ StartsCurrent' /\ AliveIsAccountedFor' /\ StopIsStop' /\ strays' \subseteq {"hasty"}
    BY <1>6, <1>21, <1>22 DEF Touch
  <2>1. /\ thread[t].at = "greeted" /\ thread[t].child # t
        /\ \A u \in Actors : u # t /\ u # thread[t].child => thread'[u] = thread[u]
        /\ t = Worker => /\ thread'[t].at = "activate" /\ thread'[t].slot = thread[t].slot
                       /\ thread'[t].job = thread[t].job
        /\ t # Worker => thread'[t].at = "over" /\ thread'[t].job = "none"
        /\ thread'[thread[t].child].at = "watching" /\ thread'[thread[t].child].slot = thread[t].slot
        /\ thread'[thread[t].child].generation = thread[t].generation
        /\ \A r \in Slots : slot'[r].live = slot[r].live
        /\ \A r \in Slots : slot'[r].generation = slot[r].generation
        /\ \A r \in Slots : slot'[r].expected = slot[r].expected
        /\ slot'[thread[t].slot].status = "running"
        /\ \A r \in Slots : r # thread[t].slot => slot'[r].status = slot[r].status
        /\ UNCHANGED <<child, calls, mail, panel>>
        /\ t # Worker => "unshown" \in strays'
    BY <1>9, <1>10, <1>6, Numbers DEF Serves, OnlyThread, OnlySlot, OnlyChild, SameThread, SameSlot, EndsChild, Rest, AtEase, Of, OffDuty
  <2>2. ASSUME NEW k \in Children PROVE Watches(k)'
    BY <1>0, <1>9, <1>10, <2>0, <2>1, <2>2, Numbers DEF WatchesLive, Watches, Newer, Of, ChildFits, WaiterFits, OffDuty, StartsCurrent, StartCurrent, Starts, StartStages, GreetFits, Greets
  <2>3. LeavesNone'
    BY <1>0, <1>9, <1>10, <2>0, <2>1, Numbers DEF WatchesLive, LeavesNone, Of, WorkerFits, StartStages
  <2>4. PanelIsTold'
    BY <1>0, <1>9, <1>10, <2>0, <2>1, Numbers DEF PanelIsTold, Untold, GreetFits, Greets, StartStages
  <2>5. ASSUME NEW k \in Children PROVE ServeShown(k)'
    BY <1>0, <1>9, <1>10, <2>0, <2>1, <2>5, Numbers DEF ServedIsShown, ServeShown, Alive, ChildFits
  <2>6. ASSUME NEW k \in Children PROVE GoesSoon(k)'
    BY <1>0, <1>9, <1>10, <2>0, <2>1, <2>6, Numbers DEF OutdatedGoes, GoesSoon, Alive, ChildFits, StartStages, WorkerFits, StopIsStop, Stops
  <2> QED
    BY <2>2, <2>3, <2>4, <2>5, <2>6 DEF WatchesLive, ServedIsShown, OutdatedGoes
<1> QED
  BY <1>1, <1>2, <1>3, <1>4, <1>5, <1>6, <1>20 DEF StarterDoes, TouchInv

\* A thread that waits tells the panel of the exit of the process it shows.
LEMMA WaiterTouches ==
  ASSUME HostTyped, HostTyped', CleanInv, CleanInv', TouchInv, NEW k0 \in Children, WaiterDoes(k0),
         UNCHANGED <<known, posted, outdated>>
  PROVE  TouchInv'
<1>0. /\ WorkerFits /\ (\A k \in Children : WaiterFits(k)) /\ (\A k \in Children : ChildFits(k))
      /\ (\A r \in Slots : SlotFits(r)) /\ (\A u \in Actors : GreetFits(u)) /\ GreetApart
      /\ (\A k \in Children : Tended(k)) /\ StopHolds /\ WorksOnKnown
  BY DEF HostTyped, ThreadsTyped, ChildrenTyped, StartersTyped
<1>9. /\ \A u \in Actors : thread[u].generation \in Nat /\ thread[u].slot \in Slots \cup {None}
                            /\ thread[u].child \in Children \cup {None}
      /\ \A r \in Slots : slot[r].generation \in Nat /\ slot'[r].generation \in Nat
                          /\ slot[r].live \in Children \cup {None} /\ slot[r].status \in Statuses
      /\ \A k \in Children : child[k].at \in {"unborn", "greeting", "up", "ended"}
      /\ known \in Slots \cup {None} /\ panel \in Children \cup {None}
  BY DEF HostTyped, HostDataTyped, Thread, SlotState
<1>10. k0 \in Actors /\ k0 # Worker /\ (thread[k0].at \notin OffDuty => thread[k0].slot \in Slots)
  BY <1>0, Numbers DEF WaiterFits
<1>20. Touch' => Touch
  BY DEF WaiterDoes, Dies, Notices, SendsGone, Judges, Wakes, Touch
<1>21. Touch => /\ OneActs /\ ActsInKnown /\ StartsCurrent /\ AliveIsAccountedFor /\ StopIsStop
               /\ WatchesLive /\ PanelIsTold /\ ServedIsShown /\ OutdatedGoes
  BY DEF Touch, Clean, CleanInv, TouchInv
<1>22. Touch' => StartsCurrent' /\ AliveIsAccountedFor' /\ StopIsStop'
  BY DEF Touch, Clean, CleanInv
<1>1. ASSUME Dies(k0), Touch', Touch
      PROVE  WatchesLive' /\ PanelIsTold' /\ ServedIsShown' /\ OutdatedGoes'
  <2>0. /\ OneActs /\ ActsInKnown /\ StartsCurrent /\ AliveIsAccountedFor /\ StopIsStop
        /\ WatchesLive /\ PanelIsTold /\ ServedIsShown /\ OutdatedGoes
        /\ StartsCurrent' /\ AliveIsAccountedFor' /\ StopIsStop' /\ strays' \subseteq {"hasty"}
    BY <1>1, <1>21, <1>22 DEF Touch
  <2>1. /\ UNCHANGED <<thread, slot, mail, panel, strays>> /\ calls' = calls \ {k0}
        /\ \A j \in Children : child'[j].of = child[j].of
        /\ child[k0].at \in {"greeting", "up"} /\ child'[k0].at = "ended"
        /\ \A j \in Children : j # k0 => child'[j].at = child[j].at
    BY <1>9, <1>10, <1>1, Numbers DEF Dies, Alive, OnlyThread, OnlySlot, OnlyChild, SameThread, SameSlot, EndsChild, Rest, AtEase, Of, OffDuty
  <2>2. ASSUME NEW k \in Children PROVE Watches(k)'
    BY <1>0, <1>9, <1>10, <2>0, <2>1, <2>2, Numbers DEF WatchesLive, Watches, Newer, Of, ChildFits, WaiterFits, OffDuty, StartsCurrent, StartCurrent, Starts, StartStages, GreetFits, Greets
  <2>3. LeavesNone'
    BY <1>0, <1>9, <1>10, <2>0, <2>1, Numbers DEF WatchesLive, LeavesNone, Of, WorkerFits, StartStages
  <2>4. PanelIsTold'
    BY <1>0, <1>9, <1>10, <2>0, <2>1, Numbers DEF PanelIsTold, Untold, GreetFits, Greets, StartStages
  <2>5. ASSUME NEW k \in Children PROVE ServeShown(k)'
    BY <1>0, <1>9, <1>10, <2>0, <2>1, <2>5, Numbers DEF ServedIsShown, ServeShown, Alive, ChildFits
  <2>6. ASSUME NEW k \in Children PROVE GoesSoon(k)'
    BY <1>0, <1>9, <1>10, <2>0, <2>1, <2>6, Numbers DEF OutdatedGoes, GoesSoon, Alive, ChildFits, StartStages, WorkerFits, StopIsStop, Stops
  <2> QED
    BY <2>2, <2>3, <2>4, <2>5, <2>6 DEF WatchesLive, ServedIsShown, OutdatedGoes
<1>2. ASSUME Notices(k0), Touch', Touch
      PROVE  WatchesLive' /\ PanelIsTold' /\ ServedIsShown' /\ OutdatedGoes'
  <2>0. /\ OneActs /\ ActsInKnown /\ StartsCurrent /\ AliveIsAccountedFor /\ StopIsStop
        /\ WatchesLive /\ PanelIsTold /\ ServedIsShown /\ OutdatedGoes
        /\ StartsCurrent' /\ AliveIsAccountedFor' /\ StopIsStop' /\ strays' \subseteq {"hasty"}
    BY <1>2, <1>21, <1>22 DEF Touch
  <2>1. /\ thread[k0].at = "watching" /\ child[k0].at = "ended"
        /\ \A u \in Actors : u # k0 => thread'[u] = thread[u]
        /\ \A r \in Slots : slot'[r].generation = slot[r].generation
        /\ \A r \in Slots : slot'[r].expected = slot[r].expected
        /\ \A r \in Slots : slot'[r].status = slot[r].status
        /\ \A r \in Slots : r # thread[k0].slot => slot'[r].live = slot[r].live
        /\ \/ /\ slot[thread[k0].slot].generation # thread[k0].generation /\ thread'[k0].at = "over"
              /\ UNCHANGED slot
           \/ /\ slot[thread[k0].slot].generation = thread[k0].generation
              /\ thread'[k0].at = IF slot[thread[k0].slot].expected THEN "parting" ELSE "falling"
              /\ thread'[k0].slot = thread[k0].slot /\ thread'[k0].generation = thread[k0].generation
              /\ slot'[thread[k0].slot].live = None
        /\ UNCHANGED <<child, calls, mail, panel, strays>>
    BY <1>9, <1>10, <1>2, Numbers DEF Notices, Newer, OnlyThread, OnlySlot, OnlyChild, SameThread, SameSlot, EndsChild, Rest, AtEase, Of, OffDuty
  <2>2. ASSUME NEW k \in Children PROVE Watches(k)'
    BY SMTT(30), <1>0, <1>9, <1>10, <2>0, <2>1, <2>2, Numbers DEF WatchesLive, Watches, Newer, Of, ChildFits, WaiterFits, OffDuty, StartsCurrent, StartCurrent, Starts, StartStages, GreetFits, Greets
  <2>3. LeavesNone'
    BY <1>0, <1>9, <1>10, <2>0, <2>1, Numbers DEF WatchesLive, LeavesNone, Of, WorkerFits, StartStages
  <2>4. PanelIsTold'
    <3>1. thread'[k0].at \in {"parting", "falling"}
      BY <2>0, <2>1 DEF WatchesLive, Watches, Newer, Of
    <3>2. CASE panel = k0
      BY <2>1, <3>1, <3>2 DEF PanelIsTold, Untold
    <3>3. CASE panel # k0
      BY <1>9, <2>0, <2>1, <3>3, Numbers DEF PanelIsTold, Untold
    <3> QED
      BY <3>2, <3>3
  <2>5. ASSUME NEW k \in Children PROVE ServeShown(k)'
    BY <1>0, <1>9, <1>10, <2>0, <2>1, <2>5, Numbers DEF ServedIsShown, ServeShown, Alive, ChildFits
  <2>6. ASSUME NEW k \in Children PROVE GoesSoon(k)'
    BY <1>0, <1>9, <1>10, <2>0, <2>1, <2>6, Numbers DEF OutdatedGoes, GoesSoon, Alive, ChildFits, StartStages, WorkerFits, StopIsStop, Stops
  <2> QED
    BY <2>2, <2>3, <2>4, <2>5, <2>6 DEF WatchesLive, ServedIsShown, OutdatedGoes
<1>3. ASSUME SendsGone(k0), Touch', Touch
      PROVE  WatchesLive' /\ PanelIsTold' /\ ServedIsShown' /\ OutdatedGoes'
  <2>0. /\ OneActs /\ ActsInKnown /\ StartsCurrent /\ AliveIsAccountedFor /\ StopIsStop
        /\ WatchesLive /\ PanelIsTold /\ ServedIsShown /\ OutdatedGoes
        /\ StartsCurrent' /\ AliveIsAccountedFor' /\ StopIsStop' /\ strays' \subseteq {"hasty"}
    BY <1>3, <1>21, <1>22 DEF Touch
  <2>1. /\ \A u \in Actors : u # k0 => thread'[u] = thread[u]
        /\ \/ thread[k0].at = "parting" /\ thread'[k0].at = "over"
           \/ thread[k0].at = "falling" /\ thread'[k0].at = "deciding" /\ thread'[k0].slot = thread[k0].slot /\ thread'[k0].generation = thread[k0].generation
        /\ panel' = None
        /\ panel # None /\ panel # k0 => "wiped" \in strays'
        /\ UNCHANGED <<slot, child, calls, mail>>
    BY <1>9, <1>10, <1>3, Numbers DEF SendsGone, OnlyThread, OnlySlot, OnlyChild, SameThread, SameSlot, EndsChild, Rest, AtEase, Of, OffDuty
  <2>2. ASSUME NEW k \in Children PROVE Watches(k)'
    BY <1>0, <1>9, <1>10, <2>0, <2>1, <2>2, Numbers DEF WatchesLive, Watches, Newer, Of, ChildFits, WaiterFits, OffDuty, StartsCurrent, StartCurrent, Starts, StartStages, GreetFits, Greets
  <2>3. LeavesNone'
    BY <1>0, <1>9, <1>10, <2>0, <2>1, Numbers DEF WatchesLive, LeavesNone, Of, WorkerFits, StartStages
  <2>4. PanelIsTold'
    BY <1>0, <1>9, <1>10, <2>0, <2>1, Numbers DEF PanelIsTold, Untold, GreetFits, Greets, StartStages
  <2>5. ASSUME NEW k \in Children PROVE ServeShown(k)'
    BY <1>0, <1>9, <1>10, <2>0, <2>1, <2>5, Numbers DEF ServedIsShown, ServeShown, Alive, ChildFits
  <2>6. ASSUME NEW k \in Children PROVE GoesSoon(k)'
    BY <1>0, <1>9, <1>10, <2>0, <2>1, <2>6, Numbers DEF OutdatedGoes, GoesSoon, Alive, ChildFits, StartStages, WorkerFits, StopIsStop, Stops
  <2> QED
    BY <2>2, <2>3, <2>4, <2>5, <2>6 DEF WatchesLive, ServedIsShown, OutdatedGoes
<1>4. ASSUME Judges(k0), Touch', Touch
      PROVE  WatchesLive' /\ PanelIsTold' /\ ServedIsShown' /\ OutdatedGoes'
  <2>0. /\ OneActs /\ ActsInKnown /\ StartsCurrent /\ AliveIsAccountedFor /\ StopIsStop
        /\ WatchesLive /\ PanelIsTold /\ ServedIsShown /\ OutdatedGoes
        /\ StartsCurrent' /\ AliveIsAccountedFor' /\ StopIsStop' /\ strays' \subseteq {"hasty"}
    BY <1>4, <1>21, <1>22 DEF Touch
  <2>1. /\ thread[k0].at = "deciding"
        /\ \A u \in Actors : u # k0 => thread'[u] = thread[u]
        /\ \A r \in Slots : slot'[r].live = slot[r].live
        /\ \A r \in Slots : slot'[r].generation = slot[r].generation
        /\ \A r \in Slots : slot'[r].expected = slot[r].expected
        /\ \A r \in Slots : r # thread[k0].slot => slot'[r].status = slot[r].status
        /\ \/ /\ thread'[k0].at = "waiting" /\ thread'[k0].slot = thread[k0].slot /\ thread'[k0].generation = thread[k0].generation
              /\ slot'[thread[k0].slot].status = "crashed"
           \/ thread'[k0].at = "over" /\ slot'[thread[k0].slot].status = "disabled"
        /\ CalledOff(k0) => "stuck" \in strays'
        /\ UNCHANGED <<child, calls, mail, panel>>
    BY <1>9, <1>10, <1>4, Numbers DEF Judges, OnlyThread, OnlySlot, OnlyChild, SameThread, SameSlot, EndsChild, Rest, AtEase, Of, OffDuty
  <2>2. ASSUME NEW k \in Children PROVE Watches(k)'
    BY <1>0, <1>9, <1>10, <2>0, <2>1, <2>2, Numbers DEF WatchesLive, Watches, Newer, Of, ChildFits, WaiterFits, OffDuty, StartsCurrent, StartCurrent, Starts, StartStages, GreetFits, Greets
  <2>3. LeavesNone'
    BY <1>0, <1>9, <1>10, <2>0, <2>1, Numbers DEF WatchesLive, LeavesNone, Of, WorkerFits, StartStages
  <2>4. PanelIsTold'
    BY <1>0, <1>9, <1>10, <2>0, <2>1, Numbers DEF PanelIsTold, Untold, GreetFits, Greets, StartStages
  <2>5. ASSUME NEW k \in Children PROVE ServeShown(k)'
    BY <1>0, <1>9, <1>10, <2>0, <2>1, <2>5, Numbers DEF ServedIsShown, ServeShown, Alive, ChildFits
  <2>6. ASSUME NEW k \in Children PROVE GoesSoon(k)'
    BY <1>0, <1>9, <1>10, <2>0, <2>1, <2>6, Numbers DEF OutdatedGoes, GoesSoon, Alive, ChildFits, StartStages, WorkerFits, StopIsStop, Stops
  <2> QED
    BY <2>2, <2>3, <2>4, <2>5, <2>6 DEF WatchesLive, ServedIsShown, OutdatedGoes
<1>5. ASSUME Wakes(k0), Touch', Touch
      PROVE  WatchesLive' /\ PanelIsTold' /\ ServedIsShown' /\ OutdatedGoes'
  <2>0. /\ OneActs /\ ActsInKnown /\ StartsCurrent /\ AliveIsAccountedFor /\ StopIsStop
        /\ WatchesLive /\ PanelIsTold /\ ServedIsShown /\ OutdatedGoes
        /\ StartsCurrent' /\ AliveIsAccountedFor' /\ StopIsStop' /\ strays' \subseteq {"hasty"}
    BY <1>5, <1>21, <1>22 DEF Touch
  <2>1. /\ thread[k0].at = "waiting"
        /\ \A u \in Actors : u # k0 => thread'[u] = thread[u]
        /\ \/ CalledOff(k0) /\ thread'[k0].at = "over"
           \/ ~CalledOff(k0) /\ thread'[k0].at = "verify" /\ thread'[k0].slot = thread[k0].slot /\ thread'[k0].generation = thread[k0].generation
        /\ UNCHANGED <<slot, child, calls, mail, panel, strays>>
    BY <1>9, <1>10, <1>5, Numbers DEF Wakes, OnlyThread, OnlySlot, OnlyChild, SameThread, SameSlot, EndsChild, Rest, AtEase, Of, OffDuty
  <2>2. ASSUME NEW k \in Children PROVE Watches(k)'
    BY <1>0, <1>9, <1>10, <2>0, <2>1, <2>2, Numbers DEF WatchesLive, Watches, Newer, Of, ChildFits, WaiterFits, OffDuty, StartsCurrent, StartCurrent, Starts, StartStages, GreetFits, Greets
  <2>3. LeavesNone'
    BY <1>0, <1>9, <1>10, <2>0, <2>1, Numbers DEF WatchesLive, LeavesNone, Of, WorkerFits, StartStages
  <2>4. PanelIsTold'
    BY <1>0, <1>9, <1>10, <2>0, <2>1, Numbers DEF PanelIsTold, Untold, GreetFits, Greets, StartStages
  <2>5. ASSUME NEW k \in Children PROVE ServeShown(k)'
    BY <1>0, <1>9, <1>10, <2>0, <2>1, <2>5, Numbers DEF ServedIsShown, ServeShown, Alive, ChildFits
  <2>6. ASSUME NEW k \in Children PROVE GoesSoon(k)'
    BY <1>0, <1>9, <1>10, <2>0, <2>1, <2>6, Numbers DEF OutdatedGoes, GoesSoon, Alive, ChildFits, StartStages, WorkerFits, StopIsStop, Stops
  <2> QED
    BY <2>2, <2>3, <2>4, <2>5, <2>6 DEF WatchesLive, ServedIsShown, OutdatedGoes
<1> QED
  BY <1>1, <1>2, <1>3, <1>4, <1>5, <1>20 DEF WaiterDoes, TouchInv

\* A stop takes the process that is to be replaced, or all there is.
LEMMA StopTouches ==
  ASSUME HostTyped, HostTyped', CleanInv, CleanInv', TouchInv, Marks \/ ShowsDisabled \/ EndsIt \/ WaitsForEnd \/ GoesOnAfterStop,
         UNCHANGED <<known, posted, outdated>>
  PROVE  TouchInv'
<1>0. /\ WorkerFits /\ (\A k \in Children : WaiterFits(k)) /\ (\A k \in Children : ChildFits(k))
      /\ (\A r \in Slots : SlotFits(r)) /\ (\A u \in Actors : GreetFits(u)) /\ GreetApart
      /\ (\A k \in Children : Tended(k)) /\ StopHolds /\ WorksOnKnown
  BY DEF HostTyped, ThreadsTyped, ChildrenTyped, StartersTyped
<1>9. /\ \A u \in Actors : thread[u].generation \in Nat /\ thread[u].slot \in Slots \cup {None}
                            /\ thread[u].child \in Children \cup {None}
      /\ \A r \in Slots : slot[r].generation \in Nat /\ slot'[r].generation \in Nat
                          /\ slot[r].live \in Children \cup {None} /\ slot[r].status \in Statuses
      /\ \A k \in Children : child[k].at \in {"unborn", "greeting", "up", "ended"}
      /\ known \in Slots \cup {None} /\ panel \in Children \cup {None}
  BY DEF HostTyped, HostDataTyped, Thread, SlotState
<1>10. /\ thread[Worker].at # "idle" => thread[Worker].slot \in Slots
       /\ thread[Worker].at = "stopping" => thread[Worker].child \in Children
       /\ thread[Worker].at = "stopped" => thread[Worker].job \in {"remove", "refresh", "sweep"}
  <2>1. thread[Worker].at # "idle" => thread[Worker].slot \in Slots
    BY <1>0 DEF WorkerFits
  <2>2. thread[Worker].at = "stopped" => thread[Worker].job \in {"remove", "refresh", "sweep"}
    BY <1>0 DEF WorkerFits
  <2>3. thread[Worker].at = "stopping" => thread[Worker].child \in Children
    BY <1>0, <1>9, Numbers DEF StopHolds
  <2> QED
    BY <2>1, <2>2, <2>3
<1>20. Touch' => Touch
  BY DEF Marks, ShowsDisabled, EndsIt, WaitsForEnd, GoesOnAfterStop, Touch
<1>21. Touch => /\ OneActs /\ ActsInKnown /\ StartsCurrent /\ AliveIsAccountedFor /\ StopIsStop
               /\ WatchesLive /\ PanelIsTold /\ ServedIsShown /\ OutdatedGoes
  BY DEF Touch, Clean, CleanInv, TouchInv
<1>22. Touch' => StartsCurrent' /\ AliveIsAccountedFor' /\ StopIsStop'
  BY DEF Touch, Clean, CleanInv
<1>1. ASSUME Marks, Touch', Touch
      PROVE  WatchesLive' /\ PanelIsTold' /\ ServedIsShown' /\ OutdatedGoes'
  <2>0. /\ OneActs /\ ActsInKnown /\ StartsCurrent /\ AliveIsAccountedFor /\ StopIsStop
        /\ WatchesLive /\ PanelIsTold /\ ServedIsShown /\ OutdatedGoes
        /\ StartsCurrent' /\ AliveIsAccountedFor' /\ StopIsStop' /\ strays' \subseteq {"hasty"}
    BY <1>1, <1>21, <1>22 DEF Touch
  <2>1. /\ thread[Worker].at = "mark"
        /\ \A u \in Actors : u # Worker => thread'[u] = thread[u]
        /\ thread'[Worker].slot = thread[Worker].slot /\ thread'[Worker].job = thread[Worker].job
        /\ thread'[Worker].child = slot[thread[Worker].slot].live
        /\ thread'[Worker].at = IF slot[thread[Worker].slot].live # None \/ IsLive(thread[Worker].slot) THEN "marked" ELSE "stopped"
        /\ \A r \in Slots : slot'[r].live = slot[r].live
        /\ \A r \in Slots : slot'[r].generation = slot[r].generation
        /\ \A r \in Slots : slot'[r].status = slot[r].status
        /\ \A r \in Slots : r # thread[Worker].slot => slot'[r].expected = slot[r].expected
        /\ slot'[thread[Worker].slot].expected
        /\ slot[thread[Worker].slot].live = None /\ slot[thread[Worker].slot].status = "crashed" => "stuck" \in strays'
        /\ Restarting(thread[Worker].slot) => "unheeded" \in strays'
        /\ UNCHANGED <<child, calls, mail, panel>>
    BY <1>9, <1>10, <1>1, Numbers DEF Marks, OnlyThread, OnlySlot, OnlyChild, SameThread, SameSlot, EndsChild, Rest, AtEase, Of, OffDuty
  <2>2. ASSUME NEW k \in Children PROVE Watches(k)'
    BY SMTT(30), <1>0, <1>9, <1>10, <2>0, <2>1, <2>2, Numbers DEF WatchesLive, Watches, Newer, Of, ChildFits, WaiterFits, OffDuty, StartsCurrent, StartCurrent, Starts, StartStages, GreetFits, Greets
  <2>3. LeavesNone'
    BY <1>0, <1>9, <1>10, <2>0, <2>1, Numbers DEF WatchesLive, LeavesNone, Of, WorkerFits, StartStages
  <2>4. PanelIsTold'
    BY <1>0, <1>9, <1>10, <2>0, <2>1, Numbers DEF PanelIsTold, Untold, GreetFits, Greets, StartStages
  <2>5. ASSUME NEW k \in Children PROVE ServeShown(k)'
    BY <1>0, <1>9, <1>10, <2>0, <2>1, <2>5, Numbers DEF ServedIsShown, ServeShown, Alive, ChildFits
  <2>6. ASSUME NEW k \in Children PROVE GoesSoon(k)'
    BY <1>0, <1>9, <1>10, <2>0, <2>1, <2>6, Numbers DEF OutdatedGoes, GoesSoon, Alive, ChildFits, StartStages, WorkerFits, StopIsStop, Stops
  <2> QED
    BY <2>2, <2>3, <2>4, <2>5, <2>6 DEF WatchesLive, ServedIsShown, OutdatedGoes
<1>2. ASSUME ShowsDisabled, Touch', Touch
      PROVE  WatchesLive' /\ PanelIsTold' /\ ServedIsShown' /\ OutdatedGoes'
  <2>0. /\ OneActs /\ ActsInKnown /\ StartsCurrent /\ AliveIsAccountedFor /\ StopIsStop
        /\ WatchesLive /\ PanelIsTold /\ ServedIsShown /\ OutdatedGoes
        /\ StartsCurrent' /\ AliveIsAccountedFor' /\ StopIsStop' /\ strays' \subseteq {"hasty"}
    BY <1>2, <1>21, <1>22 DEF Touch
  <2>1. /\ thread[Worker].at = "marked"
        /\ \A u \in Actors : u # Worker => thread'[u] = thread[u]
        /\ thread'[Worker].slot = thread[Worker].slot /\ thread'[Worker].job = thread[Worker].job
        /\ thread'[Worker].generation = thread[Worker].generation /\ thread'[Worker].child = thread[Worker].child
        /\ thread'[Worker].at = IF thread[Worker].child = None THEN "stopped" ELSE "stopping"
        /\ \A r \in Slots : slot'[r].live = slot[r].live
        /\ \A r \in Slots : slot'[r].generation = slot[r].generation
        /\ \A r \in Slots : slot'[r].expected = slot[r].expected
        /\ slot'[thread[Worker].slot].status = "disabled"
        /\ \A r \in Slots : r # thread[Worker].slot => slot'[r].status = slot[r].status
        /\ UNCHANGED <<child, calls, mail, panel, strays>>
    BY <1>9, <1>10, <1>2, Numbers DEF ShowsDisabled, OnlyThread, OnlySlot, OnlyChild, SameThread, SameSlot, EndsChild, Rest, AtEase, Of, OffDuty
  <2>2. ASSUME NEW k \in Children PROVE Watches(k)'
    BY <1>0, <1>9, <1>10, <2>0, <2>1, <2>2, Numbers DEF WatchesLive, Watches, Newer, Of, ChildFits, WaiterFits, OffDuty, StartsCurrent, StartCurrent, Starts, StartStages, GreetFits, Greets
  <2>3. LeavesNone'
    BY <1>0, <1>9, <1>10, <2>0, <2>1, Numbers DEF WatchesLive, LeavesNone, Of, WorkerFits, StartStages
  <2>4. PanelIsTold'
    BY <1>0, <1>9, <1>10, <2>0, <2>1, Numbers DEF PanelIsTold, Untold, GreetFits, Greets, StartStages
  <2>5. ASSUME NEW k \in Children PROVE ServeShown(k)'
    BY <1>0, <1>9, <1>10, <2>0, <2>1, <2>5, Numbers DEF ServedIsShown, ServeShown, Alive, ChildFits
  <2>6. ASSUME NEW k \in Children PROVE GoesSoon(k)'
    BY <1>0, <1>9, <1>10, <2>0, <2>1, <2>6, Numbers DEF OutdatedGoes, GoesSoon, Alive, ChildFits, StartStages, WorkerFits, StopIsStop, Stops
  <2> QED
    BY <2>2, <2>3, <2>4, <2>5, <2>6 DEF WatchesLive, ServedIsShown, OutdatedGoes
<1>3. ASSUME EndsIt, Touch', Touch
      PROVE  WatchesLive' /\ PanelIsTold' /\ ServedIsShown' /\ OutdatedGoes'
  <2>0. /\ OneActs /\ ActsInKnown /\ StartsCurrent /\ AliveIsAccountedFor /\ StopIsStop
        /\ WatchesLive /\ PanelIsTold /\ ServedIsShown /\ OutdatedGoes
        /\ StartsCurrent' /\ AliveIsAccountedFor' /\ StopIsStop' /\ strays' \subseteq {"hasty"}
    BY <1>3, <1>21, <1>22 DEF Touch
  <2>1. /\ thread[Worker].at = "stopping" /\ thread'[Worker].at = "lingering"
        /\ \A u \in Actors : u # Worker => thread'[u] = thread[u]
        /\ thread'[Worker].slot = thread[Worker].slot /\ thread'[Worker].job = thread[Worker].job
        /\ thread'[Worker].generation = thread[Worker].generation /\ thread'[Worker].child = thread[Worker].child
        /\ \A j \in Children : child'[j].of = child[j].of
        /\ child'[thread[Worker].child].at = "ended"
        /\ \A j \in Children : j # thread[Worker].child => child'[j].at = child[j].at
        /\ calls' = calls \ {thread[Worker].child}
        /\ UNCHANGED <<slot, mail, panel, strays>>
    BY <1>9, <1>10, <1>3, Numbers DEF EndsIt, OnlyThread, OnlySlot, OnlyChild, SameThread, SameSlot, EndsChild, Rest, AtEase, Of, OffDuty
  <2>2. ASSUME NEW k \in Children PROVE Watches(k)'
    BY <1>0, <1>9, <1>10, <2>0, <2>1, <2>2, Numbers DEF WatchesLive, Watches, Newer, Of, ChildFits, WaiterFits, OffDuty, StartsCurrent, StartCurrent, Starts, StartStages, GreetFits, Greets
  <2>3. LeavesNone'
    BY <1>0, <1>9, <1>10, <2>0, <2>1, Numbers DEF WatchesLive, LeavesNone, Of, WorkerFits, StartStages
  <2>4. PanelIsTold'
    BY <1>0, <1>9, <1>10, <2>0, <2>1, Numbers DEF PanelIsTold, Untold, GreetFits, Greets, StartStages
  <2>5. ASSUME NEW k \in Children PROVE ServeShown(k)'
    BY <1>0, <1>9, <1>10, <2>0, <2>1, <2>5, Numbers DEF ServedIsShown, ServeShown, Alive, ChildFits
  <2>6. ASSUME NEW k \in Children PROVE GoesSoon(k)'
    BY <1>0, <1>9, <1>10, <2>0, <2>1, <2>6, Numbers DEF OutdatedGoes, GoesSoon, Alive, ChildFits, StartStages, WorkerFits, StopIsStop, Stops
  <2> QED
    BY <2>2, <2>3, <2>4, <2>5, <2>6 DEF WatchesLive, ServedIsShown, OutdatedGoes
<1>4. ASSUME WaitsForEnd, Touch', Touch
      PROVE  WatchesLive' /\ PanelIsTold' /\ ServedIsShown' /\ OutdatedGoes'
  <2>0. /\ OneActs /\ ActsInKnown /\ StartsCurrent /\ AliveIsAccountedFor /\ StopIsStop
        /\ WatchesLive /\ PanelIsTold /\ ServedIsShown /\ OutdatedGoes
        /\ StartsCurrent' /\ AliveIsAccountedFor' /\ StopIsStop' /\ strays' \subseteq {"hasty"}
    BY <1>4, <1>21, <1>22 DEF Touch
  <2>1. /\ thread[Worker].at = "lingering" /\ thread'[Worker].at = "stopped"
        /\ \A u \in Actors : u # Worker => thread'[u] = thread[u]
        /\ thread'[Worker].slot = thread[Worker].slot /\ thread'[Worker].job = thread[Worker].job
        /\ thread'[Worker].generation = thread[Worker].generation /\ thread'[Worker].child = thread[Worker].child
        /\ slot[thread[Worker].slot].live # None => "hurried" \in strays'
        /\ UNCHANGED <<slot, child, calls, mail, panel>>
    BY <1>9, <1>10, <1>4, Numbers DEF WaitsForEnd, OnlyThread, OnlySlot, OnlyChild, SameThread, SameSlot, EndsChild, Rest, AtEase, Of, OffDuty
  <2>2. ASSUME NEW k \in Children PROVE Watches(k)'
    BY <1>0, <1>9, <1>10, <2>0, <2>1, <2>2, Numbers DEF WatchesLive, Watches, Newer, Of, ChildFits, WaiterFits, OffDuty, StartsCurrent, StartCurrent, Starts, StartStages, GreetFits, Greets
  <2>3. LeavesNone'
    BY <1>0, <1>9, <1>10, <2>0, <2>1, Numbers DEF WatchesLive, LeavesNone, Of, WorkerFits, StartStages
  <2>4. PanelIsTold'
    BY <1>0, <1>9, <1>10, <2>0, <2>1, Numbers DEF PanelIsTold, Untold, GreetFits, Greets, StartStages
  <2>5. ASSUME NEW k \in Children PROVE ServeShown(k)'
    BY <1>0, <1>9, <1>10, <2>0, <2>1, <2>5, Numbers DEF ServedIsShown, ServeShown, Alive, ChildFits
  <2>6. ASSUME NEW k \in Children PROVE GoesSoon(k)'
    BY <1>0, <1>9, <1>10, <2>0, <2>1, <2>6, Numbers DEF OutdatedGoes, GoesSoon, Alive, ChildFits, StartStages, WorkerFits, StopIsStop, Stops
  <2> QED
    BY <2>2, <2>3, <2>4, <2>5, <2>6 DEF WatchesLive, ServedIsShown, OutdatedGoes
<1>5. ASSUME GoesOnAfterStop, Touch', Touch
      PROVE  WatchesLive' /\ PanelIsTold' /\ ServedIsShown' /\ OutdatedGoes'
  <2>0. /\ OneActs /\ ActsInKnown /\ StartsCurrent /\ AliveIsAccountedFor /\ StopIsStop
        /\ WatchesLive /\ PanelIsTold /\ ServedIsShown /\ OutdatedGoes
        /\ StartsCurrent' /\ AliveIsAccountedFor' /\ StopIsStop' /\ strays' \subseteq {"hasty"}
    BY <1>5, <1>21, <1>22 DEF Touch
  <2>1. /\ thread[Worker].at = "stopped"
        /\ \A u \in Actors : u # Worker => thread'[u] = thread[u]
        /\ \/ thread[Worker].job = "refresh" /\ thread'[Worker].at = "verify" /\ thread'[Worker].slot = thread[Worker].slot /\ thread'[Worker].job = thread[Worker].job
           \/ thread[Worker].job # "refresh" /\ thread'[Worker].at = "idle" /\ thread'[Worker].job = "none"
        /\ \A r \in Slots : slot'[r].live = slot[r].live
        /\ \A r \in Slots : slot'[r].generation = slot[r].generation
        /\ \A r \in Slots : slot'[r].expected = slot[r].expected
        /\ \A r \in Slots : slot'[r].status = slot[r].status
        /\ panel' = IF thread[Worker].job = "remove" THEN None ELSE panel
        /\ UNCHANGED <<child, calls, mail, strays>>
    BY <1>9, <1>10, <1>5, Numbers DEF GoesOnAfterStop, OnlyThread, OnlySlot, OnlyChild, SameThread, SameSlot, EndsChild, Rest, AtEase, Of, OffDuty
  <2>2. ASSUME NEW k \in Children PROVE Watches(k)'
    BY <1>0, <1>9, <1>10, <2>0, <2>1, <2>2, Numbers DEF WatchesLive, Watches, Newer, Of, ChildFits, WaiterFits, OffDuty, StartsCurrent, StartCurrent, Starts, StartStages, GreetFits, Greets
  <2>3. LeavesNone'
    BY <1>0, <1>9, <1>10, <2>0, <2>1, Numbers DEF WatchesLive, LeavesNone, Of, WorkerFits, StartStages
  <2>4. PanelIsTold'
    BY <1>0, <1>9, <1>10, <2>0, <2>1, Numbers DEF PanelIsTold, Untold, GreetFits, Greets, StartStages
  <2>5. ASSUME NEW k \in Children PROVE ServeShown(k)'
    BY <2>0, <2>1 DEF ServeShown, StopIsStop, Stops, Alive
  <2>6. ASSUME NEW k \in Children PROVE GoesSoon(k)'
    BY <1>0, <1>9, <1>10, <2>0, <2>1, <2>6, Numbers DEF OutdatedGoes, GoesSoon, Alive, ChildFits, StartStages, WorkerFits, StopIsStop, Stops
  <2> QED
    BY <2>2, <2>3, <2>4, <2>5, <2>6 DEF WatchesLive, ServedIsShown, OutdatedGoes
<1> QED
  BY <1>1, <1>2, <1>3, <1>4, <1>5, <1>20 DEF TouchInv

\* What the invariants say of a worker with nothing of the module in hand but an
\* activation: who lives and is waited for is the process of the slot that is known.
LEMMA WatchedIsKnown ==
  ASSUME HostTyped, CleanInv, TouchInv, Touch, thread[Worker].at \in {"idle", "activate"},
         NEW k \in Alive, thread[k].at = "watching"
  PROVE  known # None /\ slot[known].live = k
<1>1. /\ ActsInKnown /\ AliveIsAccountedFor /\ ThreadsTyped /\ StartersTyped
  BY DEF Touch, Clean, CleanInv, HostTyped
<1>2. k \in Children /\ k \in Actors /\ k # Worker
  BY Numbers DEF Alive
<1>3. Heir(k) /\ Of(k).live = k
  BY <1>1, <1>2 DEF AliveIsAccountedFor, Accounted, StartersTyped, GreetFits, Greets
<1>4. thread[k].slot = known
  BY <1>1, <1>2, <1>3 DEF ActsInKnown, ActInKnown, Acts
<1>5. thread[k].slot \in Slots
  BY <1>1, <1>2 DEF ThreadsTyped, WaiterFits, OffDuty
<1> QED
  BY <1>3, <1>4, <1>5, Numbers DEF Of

\* A job that is taken on touches nothing, and one that is not needed goes unheard.
LEMMA TakeTouches ==
  ASSUME HostTyped, HostTyped', CleanInv, TouchInv, TakeJob, UNCHANGED outdated
  PROVE  TouchInv'
<1> USE DEF OnlyThread, Assigned
<1>1. /\ thread[Worker].at = "idle" /\ UNCHANGED <<slot, child, calls, mail, panel>>
      /\ posted # <<>> /\ posted' = Tail(posted) /\ Takes
      /\ \/ Head(posted) # "refresh"
         \/ /\ strays' = strays \cup {m \in {"unheard"} : ~Stale(known) /\ outdated \cap Alive # {}}
            /\ IF Stale(known) THEN Assigned("refresh", "mark", known) ELSE UNCHANGED thread
  BY TakeMoves DEF railVars
<1>2. /\ \A u \in Actors \ {Worker} : thread'[u] = thread[u]
      /\ thread'[Worker].at \in {"idle", "activate", "verify", "mark"}
      /\ thread'[Worker].at = "verify" => Of(Worker)'.live = None
      /\ Touch' => Touch
  BY <1>1, Numbers DEF Takes, Touch, Of, NewSlot
<1> SUFFICES ASSUME Touch', Touch PROVE WatchesLive' /\ PanelIsTold' /\ ServedIsShown' /\ OutdatedGoes'
  BY <1>2 DEF TouchInv
<1>3. WatchesLive /\ PanelIsTold /\ ServedIsShown /\ OutdatedGoes
  BY DEF TouchInv
<1>4. Children \subseteq Actors \ {Worker} /\ thread[Worker].job = "none"
  BY <1>1, Numbers DEF HostTyped, ThreadsTyped, WorkerFits, WaiterFits
<1>5. WatchesLive'
  BY <1>1, <1>2, <1>3, <1>4 DEF WatchesLive, Watches, LeavesNone, Of, Newer
<1>6. PanelIsTold'
  BY <1>1, <1>2, <1>3, <1>4 DEF PanelIsTold, Untold, HostTyped, HostDataTyped
<1>7. ServedIsShown'
  BY <1>1, <1>2, <1>3, <1>4 DEF ServedIsShown, ServeShown, Alive
<1>8. OutdatedGoes'
  <2>1. CASE Head(posted) # "refresh"
    BY <1>1, <1>3, <1>4, <2>1, RefreshWaits DEF OutdatedGoes, GoesSoon, Alive
  <2>2. CASE Head(posted) = "refresh" /\ Stale(known)
    BY <1>1, <2>2 DEF OutdatedGoes, GoesSoon
  <2>3. CASE Head(posted) = "refresh" /\ ~Stale(known)
    <3>1. outdated \cap Alive = {}
      BY <1>1, <2>3 DEF Touch
    <3> QED
      BY <1>1, <3>1 DEF OutdatedGoes, GoesSoon, Alive
  <2> QED
    BY <2>1, <2>2, <2>3
<1> QED
  BY <1>5, <1>6, <1>7, <1>8

\* A sweep marks what is known.
LEMMA SweepTouches ==
  ASSUME HostTyped, TouchInv, thread[Worker].at = "idle", Assigned("sweep", "mark", known),
         UNCHANGED <<slot, child, posted, outdated, calls, mail, panel, strays>>
  PROVE  TouchInv'
<1> USE DEF OnlyThread, Assigned
<1> SUFFICES ASSUME Touch' PROVE WatchesLive' /\ PanelIsTold' /\ ServedIsShown' /\ OutdatedGoes'
  BY DEF TouchInv
<1>1. WatchesLive /\ PanelIsTold /\ ServedIsShown /\ OutdatedGoes /\ thread[Worker].job = "none"
  BY DEF TouchInv, Touch, HostTyped, ThreadsTyped, WorkerFits, WaiterFits
<1>2. \A k \in Children : thread'[k] = thread[k]
  BY Numbers
<1>3. WatchesLive'
  BY <1>1, <1>2 DEF WatchesLive, Watches, LeavesNone, Of, Newer
<1>4. PanelIsTold'
  BY <1>1, <1>2 DEF PanelIsTold, Untold, HostTyped, HostDataTyped
<1>5. ServedIsShown' /\ OutdatedGoes'
  BY <1>1, <1>2 DEF ServedIsShown, ServeShown, OutdatedGoes, GoesSoon, Alive
<1> QED
  BY <1>3, <1>4, <1>5

\* An activation asks the process that serves.
LEMMA ActivateTouches ==
  ASSUME HostTyped, CleanInv, TouchInv, CallActivate \/ CallEnds, UNCHANGED <<known, posted, outdated>>
  PROVE  TouchInv'
<1>1. Activates
  BY ActivateMoves
<1> SUFFICES ASSUME Touch, Touch' PROVE WatchesLive' /\ PanelIsTold' /\ ServedIsShown' /\ OutdatedGoes'
  BY <1>1 DEF TouchInv, Touch, Activates
<1>2. WatchesLive /\ PanelIsTold /\ ServedIsShown /\ OutdatedGoes
  BY DEF TouchInv
<1>3. /\ \A k \in Children : thread'[k] = thread[k]
      /\ thread[Worker].at \in {"activate", "asking"} /\ thread'[Worker].at \in {"idle", "asking"}
      /\ UNCHANGED <<slot, child, mail, panel>>
  BY <1>1, Numbers DEF Activates, OnlyThread, Rest, AtEase
<1>4. WatchesLive'
  BY <1>2, <1>3 DEF WatchesLive, Watches, LeavesNone, Of, Newer
<1>5. PanelIsTold'
  BY <1>2, <1>3 DEF PanelIsTold, Untold, HostTyped, HostDataTyped
<1>6. ASSUME NEW k \in Children, k \in Alive, thread[k].at = "watching"
      PROVE  panel = k \/ k \in calls' \cup mail
  <2>1. CASE CallActivate
    <3>1. known # None /\ slot[known].live = k
      BY <1>6, <2>1, WatchedIsKnown DEF CallActivate
    <3> QED
      BY <1>6, <2>1, <3>1 DEF CallActivate
  <2>2. CASE CallEnds
    <3>1. UNCHANGED calls /\ thread[Worker].at = "asking"
      BY <2>2 DEF CallEnds, railVars
    <3> QED
      BY <1>2, <1>6, <3>1 DEF ServedIsShown, ServeShown
  <2> QED
    BY <2>1, <2>2
<1>7. ServedIsShown'
  BY <1>3, <1>6 DEF ServedIsShown, ServeShown, Alive
<1>8. OutdatedGoes'
  BY <1>2, <1>3 DEF OutdatedGoes, GoesSoon, Alive
<1> QED
  BY <1>4, <1>5, <1>7, <1>8

\* What it registers is on its way to the panel until it is shown.
LEMMA HearsTouches ==
  ASSUME HostTyped, TouchInv, NEW h \in Children, Hears(h)
  PROVE  TouchInv'
<1>1. UNCHANGED <<thread, slot, child, posted, outdated>> /\ strays \subseteq strays'
  BY DEF Hears, Register, HearModule, Stray
<1> SUFFICES ASSUME Touch, Touch' PROVE WatchesLive' /\ PanelIsTold' /\ ServedIsShown' /\ OutdatedGoes'
  BY <1>1 DEF TouchInv, Touch
<1>2. WatchesLive /\ PanelIsTold /\ ServedIsShown /\ OutdatedGoes
  BY DEF TouchInv
<1>3. /\ (calls \cup mail) \ {h} \subseteq calls' \cup mail'
      /\ \/ UNCHANGED panel /\ (h \in Alive /\ h \in calls \cup mail => h \in calls' \cup mail')
         \/ panel' = h /\ Untold(h) /\ panel \in {None, h}
  <2>1. CASE Register(h)
    BY <2>1 DEF Register, Stray, Touch
  <2>2. CASE HearModule(h)
    BY <2>2 DEF HearModule, Stray, Touch
  <2> QED
    BY <2>1, <2>2 DEF Hears
<1>4. WatchesLive'
  BY <1>1, <1>2 DEF WatchesLive, Watches, LeavesNone, Of, Newer
<1>5. PanelIsTold'
  BY <1>1, <1>2, <1>3 DEF PanelIsTold, Untold
<1>6. ServedIsShown'
  BY <1>1, <1>2, <1>3, Numbers DEF ServedIsShown, ServeShown, Alive
<1>7. OutdatedGoes'
  BY <1>1, <1>2 DEF OutdatedGoes, GoesSoon, Alive
<1> QED
  BY <1>4, <1>5, <1>6, <1>7

\* Whoever finds a process with an old address has posted the move to the new one.
LEMMA WindowTouches ==
  ASSUME HostTyped, TouchInv, Enable \/ Reconcile \/ MoveServer
  PROVE  TouchInv'
<1>1. UNCHANGED <<thread, slot, child, calls, mail, panel>> /\ (Touch' => Touch)
  BY DEF Enable, Reconcile, MoveServer, Stray, Touch, railVars
<1> SUFFICES ASSUME Touch', Touch PROVE WatchesLive' /\ PanelIsTold' /\ ServedIsShown' /\ OutdatedGoes'
  BY <1>1 DEF TouchInv
<1>2. WatchesLive /\ PanelIsTold /\ ServedIsShown /\ OutdatedGoes
  BY DEF TouchInv
<1>3. WatchesLive' /\ PanelIsTold' /\ ServedIsShown'
  BY <1>1, <1>2 DEF WatchesLive, Watches, LeavesNone, PanelIsTold, Untold, ServedIsShown, ServeShown, Alive, Of, Newer
<1>4. CASE MoveServer
  <2>1. posted' = Append(posted, "refresh")
    BY <1>4 DEF MoveServer
  <2>2. LastIs("refresh", "start")'
    BY <2>1, PostOneMore
  <2> QED
    BY <1>3, <2>2 DEF OutdatedGoes, GoesSoon, LastIs
<1>5. CASE Enable \/ Reconcile
  <2>1. /\ UNCHANGED outdated
        /\ \/ UNCHANGED posted
           \/ posted' = Append(posted, "start")
           \/ posted' = Append(posted, "remove")
    BY <1>5 DEF Enable, Reconcile
  <2>2. (\E i \in DOMAIN posted : posted[i] = "refresh") => \E i \in DOMAIN posted' : posted'[i] = "refresh"
    <3>1. posted \in Seq({"start", "remove", "refresh"})
      BY DEF HostTyped, HostDataTyped
    <3>2. ASSUME NEW x, posted' = Append(posted, x), NEW i \in DOMAIN posted
          PROVE  i \in DOMAIN posted' /\ posted'[i] = posted[i]
      BY <3>1, <3>2
    <3> QED
      BY <2>1, <3>2
  <2> QED
    BY <1>1, <1>2, <1>3, <2>1, <2>2 DEF OutdatedGoes, GoesSoon, Alive
<1> QED
  BY <1>4, <1>5

\* Every step keeps in touch.
LEMMA StepTouched ==
  ASSUME HostTyped, HostTyped', CleanInv, CleanInv', TouchInv, HostNext
  PROVE  TouchInv'
<1> DEFINE Same == UNCHANGED <<known, posted, outdated>>
<1>1. ASSUME NEW t \in Actors, StartMoves(t), Same PROVE TouchInv'
  BY <1>1, StarterMoves, StarterTouches
<1>2. ASSUME NEW k \in Children, WaiterMoves(k), Same PROVE TouchInv'
  BY <1>1, <1>2, Numbers, WaiterDoesMoves, WaiterTouches DEF WaiterMoves
<1>3. ASSUME TakeJob, UNCHANGED <<enabled, dirty, outdated>> PROVE TouchInv'
  BY <1>3, TakeTouches
<1>4. ASSUME Sweep, UNCHANGED <<enabled, dirty, outdated>> PROVE TouchInv'
  BY <1>4, AssignDoes, SweepTouches DEF Sweep, railVars
<1>5. ASSUME CallActivate \/ CallEnds, Same PROVE TouchInv'
  BY <1>5, ActivateTouches
<1>6. ASSUME MarkStop \/ ShowDisabled \/ EndChild \/ EndWait \/ AfterStop, Same PROVE TouchInv'
  BY <1>6, StopMoves, StopTouches
<1>7. ASSUME Enable \/ Reconcile \/ MoveServer PROVE TouchInv'
  BY <1>7, WindowTouches
<1>8. ASSUME NEW k \in Children, Hears(k) PROVE TouchInv'
  BY <1>8, HearsTouches
<1> QED
  BY <1>1, <1>2, <1>3, <1>4, <1>5, <1>6, <1>7, <1>8, Numbers DEF HostNext, WorkerMoves, Hears

\* The panel and the address are kept whatever happens, but for the known ways out.
LEMMA TouchInvHolds == HostSpec => []TouchInv
<1>1. HostInit => TouchInv
  <2> SUFFICES ASSUME HostInit PROVE WatchesLive /\ PanelIsTold /\ ServedIsShown /\ OutdatedGoes
    BY DEF TouchInv
  <2>1. /\ \A k \in Children : thread[k].at = "none" /\ child[k].at = "unborn"
        /\ thread[Worker].at = "idle" /\ panel = None
    BY Numbers DEF HostInit, AtEase
  <2> QED
    BY <2>1 DEF WatchesLive, Watches, LeavesNone, PanelIsTold, Untold, ServedIsShown, ServeShown, OutdatedGoes, GoesSoon, Alive
<1>2. HostTyped /\ HostTyped' /\ CleanInv /\ CleanInv' /\ TouchInv /\ [HostNext]_hostVars => TouchInv'
  <2>1. TouchInv /\ UNCHANGED hostVars => TouchInv'
    BY DEF hostVars, railVars, TouchInv, Touch, WatchesLive, Watches, LeavesNone, PanelIsTold, Untold, ServedIsShown, ServeShown, OutdatedGoes, GoesSoon, Alive, Of, Newer
  <2> QED
    BY <2>1, StepTouched
<1> QED
  BY <1>1, <1>2, HostTypedHolds, CleanInvHolds, PTL DEF HostSpec

\* When nothing is left to do, the panel shows the entries of the process that runs, and
\* of none that does not, and that process knows the server's address, unless one of the
\* known ways out was taken: then it may be one that the panel or the server has lost.
THEOREM StaysInTouch == HostSpec => []InTouch
<1>1. HostTyped /\ CleanInv /\ TouchInv => InTouch
  <2> SUFFICES ASSUME HostTyped, CleanInv, TouchInv, HostAtRest, Touch
               PROVE  /\ panel # None => panel \in Alive
                      /\ Alive \subseteq {panel} \ outdated
    BY DEF InTouch, Touch
  <2>1. PanelIsTold /\ ServedIsShown /\ OutdatedGoes /\ AliveIsAccountedFor
    BY DEF TouchInv, CleanInv, Touch, Clean
  <2>2. /\ thread[Worker].at = "idle" /\ thread[Worker].job = "none" /\ posted = <<>>
        /\ \A t \in Actors : ~Greets(t)
        /\ \A k \in Children : thread[k].at \in {"none", "over"} \/ (thread[k].at = "watching" /\ k \in Alive)
        /\ panel \in Children \cup {None} /\ calls = {} /\ mail = {}
    BY Numbers DEF HostAtRest, HostTyped, HostDataTyped, ThreadsTyped, WorkerFits, WaiterFits, Greets
  <2>3. panel # None => panel \in Alive
    BY <2>1, <2>2 DEF PanelIsTold, Untold
  <2>4. ASSUME NEW k \in Alive PROVE k \in {panel} \ outdated
    <3>0. k \in Children
      BY DEF Alive
    <3>1. thread[k].at = "watching"
      BY <2>1, <2>2, <3>0 DEF AliveIsAccountedFor, Accounted
    <3>2. k = panel
      BY <2>1, <2>2, <3>0, <3>1 DEF ServedIsShown, ServeShown
    <3>3. k \notin outdated
      BY <2>1, <2>2, <3>0 DEF OutdatedGoes, GoesSoon
    <3> QED
      BY <3>2, <3>3
  <2> QED
    BY <2>3, <2>4
<1> QED
  BY <1>1, HostTypedHolds, CleanInvHolds, TouchInvHolds, PTL
=============================================================================
