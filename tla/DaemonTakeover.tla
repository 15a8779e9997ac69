--------------------------- MODULE DaemonTakeover ---------------------------
(***************************************************************************)
(* The live upgrade of the session daemon (core/src/session/daemon.rs):    *)
(* a daemon of a new build asks the one that serves the salt for its       *)
(* sessions, receives the pty masters over the socket, waits for the flock *)
(* and serves in its place; the old one retires into the linger stub.      *)
(* Clients (daemon_client.rs) spawn daemons, create and kill sessions, and *)
(* may tear down a stale daemon that looks empty.                          *)
(*                                                                         *)
(* A session is its shell.  It lives as long as some process, or a message *)
(* in flight to a process that still reads, holds its pty master.          *)
(***************************************************************************)
EXTENDS FiniteSets, Integers

CONSTANTS
  Daemons,      \* the daemon processes that may be spawned for the salt
  Sessions,     \* the sessions that may be created
  Nobody,       \* no daemon
  First,        \* the daemon that serves when the model begins
  Open,         \* the sessions it has then
  Build,        \* Build[d] is the build id of daemon d
  MaxFds,       \* MAX_FDS_PER_MSG
  Events        \* what the environment may do: see EventNames

(***************************************************************************)
(*   slow        a budget (TAKEOVER_RECV_TIMEOUT, TAKEOVER_LOCK_BUDGET,    *)
(*               TAKEOVER_BUDGET, the probe's) may run out on a peer that  *)
(*               is still at work                                          *)
(*   crash       a daemon may die between any two of its steps             *)
(*   descriptor  a descriptor may turn out to be unusable when adopted     *)
(*   exec        the exec into the linger stub may fail                    *)
(*   killDaemon  the user runs avada --kill-daemon                         *)
(***************************************************************************)
EventNames == {"slow", "crash", "descriptor", "exec", "killDaemon"}

ASSUME DaemonsAssumption ==
  /\ First \in Daemons
  /\ Nobody \notin Daemons
  /\ Open \subseteq Sessions
  /\ DOMAIN Build = Daemons
  /\ MaxFds \in Nat \ {0}
  /\ Events \subseteq EventNames

VARIABLES
  pc,         \* how far the main thread of each process is in run
  flock,      \* the process that holds the lock file of the salt
  socket,     \* the process whose bind made the file at the socket path
  registry,   \* the sessions each daemon drives
  drained,    \* masters a retiring daemon leaked when it handed them off
  inherited,  \* masters a starting daemon has received
  link,       \* link[d] is the connection on which d asked for a takeover
  teardown,   \* what each daemon is being torn down for
  unlinked,   \* the daemons whose teardown has removed the socket
  session,    \* what has become of each session
  verdicts,   \* what a client has seen and is about to act on
  disturbed   \* history: the daemons a known disturbance has met

vars == <<pc, flock, socket, registry, drained, inherited, link, teardown,
          unlinked, session, verdicts, disturbed>>

Starting == {"locking", "probing", "asking", "receiving", "waiting",
             "reaping", "binding"}
Gone     == {"exited", "lingering", "returned"}
Pcs      == {"unborn", "serving"} \cup Starting \cup Gone

Latched  == {"idle", "retired", "torn", "asked"}
Links    == [peer : Daemons \cup {Nobody},
             stage : {"none", "asked", "sending", "sent", "broken", "parked"},
             todo : SUBSET Sessions, inbox : SUBSET SUBSET Sessions,
             heard : BOOLEAN]
NoLink   == [peer |-> Nobody, stage |-> "none", todo |-> {}, inbox |-> {},
             heard |-> FALSE]

TypeOK ==
  /\ pc \in [Daemons -> Pcs]
  /\ flock \in Daemons \cup {Nobody}
  /\ socket \in Daemons \cup {Nobody}
  /\ registry \in [Daemons -> SUBSET Sessions]
  /\ drained \in [Daemons -> SUBSET Sessions]
  /\ inherited \in [Daemons -> SUBSET Sessions]
  /\ link \in [Daemons -> Links]
  /\ teardown \in [Daemons -> {"no", "idling"} \cup Latched]
  /\ unlinked \in SUBSET Daemons
  /\ session \in [Sessions -> {"unborn", "live", "ended"}]
  /\ verdicts \in SUBSET {"empty", "refused"}
  /\ disturbed \in SUBSET Daemons

Init ==
  /\ pc = [d \in Daemons |-> IF d = First THEN "serving" ELSE "unborn"]
  /\ flock = First
  /\ socket = First
  /\ registry = [d \in Daemons |-> IF d = First THEN Open ELSE {}]
  /\ drained = [d \in Daemons |-> {}]
  /\ inherited = [d \in Daemons |-> {}]
  /\ link = [d \in Daemons |-> NoLink]
  /\ teardown = [d \in Daemons |-> "no"]
  /\ unlinked = {}
  /\ session = [s \in Sessions |-> IF s \in Open THEN "live" ELSE "unborn"]
  /\ verdicts = {}
  /\ disturbed = {}

-----------------------------------------------------------------------------
(* What the processes can observe.                                         *)

Serving(d) == pc[d] = "serving"

\* A connect to the socket path reaches this daemon, Nobody if refused.
Listener == IF socket # Nobody /\ pc[socket] = "serving" THEN socket ELSE Nobody

\* The connections on which a successor has asked p and p still serves.
AskersOf(p) == {d \in Daemons : link[d].peer = p /\ link[d].stage # "none"}

\* Some connection thread of p has begun to hand the sessions over.
HandingOver(p) == \E d \in AskersOf(p) : link[d].stage # "asked"

\* The descriptors of the sessions are open in p, or on their way to p.
Holds(p) == registry[p] \cup drained[p] \cup inherited[p]
            \cup (IF pc[p] = "receiving" THEN UNION link[p].inbox ELSE {})

Lost == {s \in Sessions : session[s] = "live" /\ \A p \in Daemons : s \notin Holds(p)}

\* The process is over: the kernel frees its flock and closes its files.
Leaves(p, how) ==
  /\ pc' = [pc EXCEPT ![p] = how]
  /\ flock' = IF flock = p THEN Nobody ELSE flock
  /\ registry' = [registry EXCEPT ![p] = {}]
  /\ drained' = [drained EXCEPT ![p] = {}]
  /\ inherited' = [inherited EXCEPT ![p] = {}]

-----------------------------------------------------------------------------
(* A daemon starts (run).                                                  *)

\* A client found nobody listening, or a daemon of another build.
Spawn(d) ==
  /\ pc[d] = "unborn"
  /\ Listener # Nobody => Build[Listener] # Build[d]
  /\ pc' = [pc EXCEPT ![d] = "locking"]
  /\ UNCHANGED <<flock, socket, registry, drained, inherited, link, teardown,
                 unlinked, session, verdicts, disturbed>>

TryLock(d) ==
  /\ pc[d] = "locking"
  /\ IF flock = Nobody
     THEN flock' = d /\ pc' = [pc EXCEPT ![d] = "reaping"]
     ELSE flock' = flock /\ pc' = [pc EXCEPT ![d] = "probing"]
  /\ UNCHANGED <<socket, registry, drained, inherited, link, teardown,
                 unlinked, session, verdicts, disturbed>>

\* Only a Hello of our own build makes us stand down; a daemon on its way out
\* may accept the probe and never answer it.
AnswersAs(d) == Listener # Nobody /\ Build[Listener] = Build[d]

Probe(d) ==
  /\ pc[d] = "probing"
  /\ \/ AnswersAs(d) /\ Leaves(d, "exited")
     \/ /\ AnswersAs(d) => teardown[Listener] \in Latched \/ "slow" \in Events
        /\ pc' = [pc EXCEPT ![d] = "asking"]
        /\ UNCHANGED <<flock, registry, drained, inherited>>
  /\ UNCHANGED <<socket, link, teardown, unlinked, session, verdicts, disturbed>>

\* take_over connects afresh, to whichever daemon the path leads to by now.
Ask(d) ==
  /\ pc[d] = "asking"
  /\ IF Listener = Nobody
     THEN Leaves(d, "exited") /\ UNCHANGED <<link, disturbed>>
     ELSE /\ pc' = [pc EXCEPT ![d] = "receiving"]
          /\ link' = [link EXCEPT ![d] = [NoLink EXCEPT !.peer = Listener,
                                                        !.stage = "asked"]]
          /\ disturbed' = disturbed \cup {p \in {Listener} : AskersOf(p) # {}}
          /\ UNCHANGED <<flock, registry, drained, inherited>>
  /\ UNCHANGED <<socket, teardown, unlinked, session, verdicts>>

Recv(d) ==
  /\ pc[d] = "receiving"
  /\ \E batch \in link[d].inbox :
       /\ link' = [link EXCEPT ![d].inbox = @ \ {batch}, ![d].heard = TRUE]
       /\ inherited' = [inherited EXCEPT ![d] = @ \cup batch]
  /\ UNCHANGED <<pc, flock, socket, registry, drained, teardown, unlinked,
                 session, verdicts, disturbed>>

\* take_over returns and its stream is closed: no message at all is an error.
StopReading(d) ==
  /\ pc[d] = "receiving"
  /\ link[d].inbox = {}
  /\ IF link[d].heard
     THEN /\ pc' = [pc EXCEPT ![d] = "waiting"]
          /\ UNCHANGED <<flock, registry, drained, inherited>>
     ELSE Leaves(d, "exited")
  /\ UNCHANGED <<socket, link, teardown, unlinked, session, verdicts>>

\* Slip: a close before the first message goes unnoticed.
RecvEofHeard(d) ==
  /\ pc[d] = "receiving" /\ link[d].heard /\ pc[link[d].peer] \in Gone
  /\ StopReading(d)
  /\ UNCHANGED disturbed

RecvEof(d) ==
  /\ pc[d] = "receiving" /\ pc[link[d].peer] \in Gone
  /\ StopReading(d)
  /\ UNCHANGED disturbed

RecvTimeout(d) ==
  /\ "slow" \in Events
  /\ pc[d] = "receiving" /\ pc[link[d].peer] \notin Gone
  /\ StopReading(d)
  /\ disturbed' = disturbed \cup {link[d].peer}

AcquireFlock(d) ==
  /\ pc[d] = "waiting"
  /\ flock = Nobody
  /\ flock' = d
  /\ pc' = [pc EXCEPT ![d] = "reaping"]
  /\ UNCHANGED <<socket, registry, drained, inherited, link, teardown, unlinked,
                 session, verdicts, disturbed>>

\* Slip: the daemon gives up whether it holds sessions or not.
LockTimeoutGivesUp(d) ==
  /\ pc[d] = "waiting"
  /\ flock # Nobody
  /\ flock # link[d].peer \/ "slow" \in Events
  /\ Leaves(d, "exited")
  /\ UNCHANGED <<socket, link, teardown, unlinked, session, verdicts, disturbed>>

\* The lock budget runs out: with sessions in hand the daemon serves without
\* the flock.  An incumbent that is not slow leaves within the budget.
LockTimeout(d) ==
  /\ pc[d] = "waiting"
  /\ flock # Nobody
  /\ flock # link[d].peer \/ "slow" \in Events
  /\ IF inherited[d] = {}
     THEN Leaves(d, "exited")
     ELSE /\ pc' = [pc EXCEPT ![d] = "reaping"]
          /\ UNCHANGED <<flock, registry, drained, inherited>>
  /\ UNCHANGED <<socket, link, teardown, unlinked, session, verdicts, disturbed>>

\* remove_file(socket), whoever made it.
Reap(d) ==
  /\ pc[d] = "reaping"
  /\ socket' = Nobody
  /\ pc' = [pc EXCEPT ![d] = "binding"]
  /\ UNCHANGED <<flock, registry, drained, inherited, link, teardown, unlinked,
                 session, verdicts, disturbed>>

\* bind, adopt_all and the start of serve.  A session whose descriptor cannot
\* be adopted is dropped.
Bind(d) ==
  /\ pc[d] = "binding" /\ socket = Nobody
  /\ socket' = d
  /\ pc' = [pc EXCEPT ![d] = "serving"]
  /\ \E bad \in SUBSET (IF "descriptor" \in Events THEN inherited[d] ELSE {}) :
       /\ registry' = [registry EXCEPT ![d] = inherited[d] \ bad]
       /\ disturbed' = IF bad = {} THEN disturbed ELSE disturbed \cup {d}
  /\ inherited' = [inherited EXCEPT ![d] = {}]
  /\ UNCHANGED <<flock, drained, link, teardown, unlinked, session, verdicts>>

\* The path is taken again: a daemon that holds sessions removes it and retries.
BindFails(d) ==
  /\ pc[d] = "binding" /\ socket # Nobody
  /\ IF inherited[d] = {}
     THEN Leaves(d, "exited") /\ UNCHANGED socket
     ELSE socket' = Nobody /\ UNCHANGED <<pc, flock, registry, drained, inherited>>
  /\ UNCHANGED <<link, teardown, unlinked, session, verdicts, disturbed>>

-----------------------------------------------------------------------------
(* The connection thread that serves d's Takeover (hand_over).             *)

\* Slip: the sessions are listed, not drained.
HandOffListed(d) ==
  LET p == link[d].peer IN
  /\ link[d].stage = "asked" /\ Serving(p)
  /\ link' = [link EXCEPT ![d].stage = "sending", ![d].todo = registry[p]]
  /\ UNCHANGED <<pc, flock, socket, registry, drained, inherited, teardown,
                 unlinked, session, verdicts, disturbed>>

HandOff(d) ==
  LET p == link[d].peer IN
  /\ link[d].stage = "asked" /\ Serving(p)
  /\ link' = [link EXCEPT ![d].stage = "sending", ![d].todo = registry[p]]
  /\ drained' = [drained EXCEPT ![p] = @ \cup registry[p]]
  /\ registry' = [registry EXCEPT ![p] = {}]
  /\ UNCHANGED <<pc, flock, socket, inherited, teardown, unlinked, session,
                 verdicts, disturbed>>

\* One message of at most MaxFds descriptors; an empty hand-over sends one too.
Batches(todo) ==
  {b \in SUBSET todo :
     Cardinality(b) = IF Cardinality(todo) < MaxFds THEN Cardinality(todo) ELSE MaxFds}

SendBatch(d) ==
  /\ link[d].stage = "sending" /\ Serving(link[d].peer)
  /\ pc[d] = "receiving"
  /\ \E batch \in Batches(link[d].todo) :
       link' = [link EXCEPT ![d].todo = @ \ batch, ![d].inbox = @ \cup {batch},
                  ![d].stage = IF link[d].todo = batch THEN "sent" ELSE "sending"]
  /\ UNCHANGED <<pc, flock, socket, registry, drained, inherited, teardown,
                 unlinked, session, verdicts, disturbed>>

\* The successor has stopped reading: break, and retire all the same.
SendFails(d) ==
  /\ link[d].stage = "sending" /\ Serving(link[d].peer)
  /\ pc[d] # "receiving"
  /\ link' = [link EXCEPT ![d].stage = "broken"]
  /\ UNCHANGED <<pc, flock, socket, registry, drained, inherited, teardown,
                 unlinked, session, verdicts, disturbed>>

\* Slip: the daemon retires before it has sent every batch.
RetireEarly(d) ==
  LET p == link[d].peer IN
  /\ link[d].stage \in {"sending", "broken"} /\ Serving(p)
  /\ teardown[p] \notin Latched
  /\ teardown' = [teardown EXCEPT ![p] = "retired"]
  /\ UNCHANGED <<pc, flock, socket, registry, drained, inherited, link, unlinked,
                 session, verdicts, disturbed>>

\* Lifecycle::retire; the loser of the latch parks for good.
Retire(d) ==
  LET p == link[d].peer IN
  /\ link[d].stage \in {"sent", "broken"} /\ Serving(p)
  /\ IF teardown[p] \in Latched
     THEN link' = [link EXCEPT ![d].stage = "parked"] /\ UNCHANGED teardown
     ELSE teardown' = [teardown EXCEPT ![p] = "retired"] /\ UNCHANGED link
  /\ UNCHANGED <<pc, flock, socket, registry, drained, inherited, unlinked,
                 session, verdicts, disturbed>>

-----------------------------------------------------------------------------
(* Teardown (Lifecycle).                                                   *)

\* The winner of the latch kills what the registry drives, then leaves.
Shutdown(p, why) ==
  /\ teardown[p] \notin Latched
  /\ teardown' = [teardown EXCEPT ![p] = why]
  /\ session' = [s \in Sessions |-> IF s \in registry[p] THEN "ended" ELSE session[s]]
  /\ registry' = [registry EXCEPT ![p] = {}]
  /\ disturbed' = IF HandingOver(p) THEN disturbed \cup {p} ELSE disturbed
  /\ UNCHANGED <<pc, flock, socket, drained, inherited, link, unlinked>>

\* The idle monitor sees no session and no connection through the grace ...
IdleObserved(p) ==
  /\ Serving(p) /\ teardown[p] = "no"
  /\ registry[p] = {}
  /\ AskersOf(p) = {}
  /\ teardown' = [teardown EXCEPT ![p] = "idling"]
  /\ UNCHANGED <<pc, flock, socket, registry, drained, inherited, link, unlinked,
                 session, verdicts, disturbed>>

\* Slip: the flock is dropped before the socket is unlinked.
IdleExitUnlocked(p) ==
  /\ Serving(p) /\ teardown[p] = "idling"
  /\ teardown' = [teardown EXCEPT ![p] = "idle"]
  /\ flock' = IF flock = p THEN Nobody ELSE flock
  /\ UNCHANGED <<pc, socket, registry, drained, inherited, link, unlinked,
                 session, verdicts, disturbed>>

\* ... and shuts the daemon down, with no second look and nothing to kill.
IdleExit(p) ==
  /\ Serving(p) /\ teardown[p] = "idling"
  /\ teardown' = [teardown EXCEPT ![p] = "idle"]
  /\ UNCHANGED <<pc, flock, socket, registry, drained, inherited, link, unlinked,
                 session, verdicts, disturbed>>

Unlink(p) ==
  /\ Serving(p) /\ teardown[p] \in Latched /\ p \notin unlinked
  /\ socket' = Nobody
  /\ unlinked' = unlinked \cup {p}
  /\ UNCHANGED <<pc, flock, registry, drained, inherited, link, teardown,
                 session, verdicts, disturbed>>

\* A retired daemon becomes the linger stub: every descriptor closes.
ExecLinger(p) ==
  /\ Serving(p) /\ p \in unlinked /\ teardown[p] = "retired"
  /\ \/ Leaves(p, "lingering")
     \/ "exec" \in Events /\ Leaves(p, "exited")
  /\ UNCHANGED <<socket, link, teardown, unlinked, session, verdicts, disturbed>>

Exit(p) ==
  /\ Serving(p) /\ p \in unlinked /\ teardown[p] # "retired"
  /\ Leaves(p, "exited")
  /\ UNCHANGED <<socket, link, teardown, unlinked, session, verdicts, disturbed>>

\* The accept loop sees the latch first: run returns, and main with it.
ServeReturns(p) ==
  /\ Serving(p) /\ teardown[p] \in Latched
  /\ Leaves(p, "returned")
  /\ UNCHANGED <<socket, link, teardown, unlinked, session, verdicts, disturbed>>

Crash(p) ==
  /\ "crash" \in Events
  /\ pc[p] \notin Gone \cup {"unborn"}
  /\ Leaves(p, "exited")
  /\ disturbed' = disturbed \cup ({p, link[p].peer} \ {Nobody})
  /\ UNCHANGED <<socket, link, teardown, unlinked, session, verdicts>>

-----------------------------------------------------------------------------
(* Clients.                                                                *)

\* A client that is connected; after the idle monitor has looked, a new one.
Create(p, s) ==
  /\ Serving(p) /\ session[s] = "unborn"
  /\ teardown[p] \in {"idling", "idle"} => Listener = p
  /\ session' = [session EXCEPT ![s] = "live"]
  /\ registry' = [registry EXCEPT ![p] = @ \cup {s}]
  /\ disturbed' = IF teardown[p] # "no" \/ HandingOver(p)
                  THEN disturbed \cup {p} ELSE disturbed
  /\ UNCHANGED <<pc, flock, socket, drained, inherited, link, teardown, unlinked,
                 verdicts>>

\* A client kills the session, or its shell ends.
Kill(p, s) ==
  /\ Serving(p) /\ s \in registry[p]
  /\ session' = [session EXCEPT ![s] = "ended"]
  /\ registry' = [registry EXCEPT ![p] = @ \ {s}]
  /\ UNCHANGED <<pc, flock, socket, drained, inherited, link, teardown, unlinked,
                 verdicts, disturbed>>

\* TAKEOVER_BUDGET has run out on a client of a newer protocol, and the stale
\* daemon lists no live session.
CountEmpty ==
  /\ Listener # Nobody /\ registry[Listener] = {}
  /\ \E d \in Daemons : pc[d] # "unborn" /\ Build[d] # Build[Listener]
  /\ "slow" \in Events \/ \A d \in Daemons : pc[d] \notin Starting
  /\ verdicts' = verdicts \cup {"empty"}
  /\ UNCHANGED <<pc, flock, socket, registry, drained, inherited, link, teardown,
                 unlinked, session, disturbed>>

\* tear_down_stale_daemon connects afresh and sends Shutdown.
TearDownStale ==
  /\ "empty" \in verdicts
  /\ verdicts' = verdicts \ {"empty"}
  /\ IF Listener # Nobody /\ teardown[Listener] \notin Latched
     THEN Shutdown(Listener, "torn")
     ELSE UNCHANGED <<pc, flock, socket, registry, drained, inherited, link,
                      teardown, unlinked, session, disturbed>>

\* kill_daemon: Shutdown, or the removal of a socket file nobody listens on.
KillDaemon ==
  /\ "killDaemon" \in Events
  /\ \/ /\ Listener # Nobody /\ Shutdown(Listener, "asked")
        /\ UNCHANGED verdicts
     \/ /\ Listener = Nobody
        /\ verdicts' = verdicts \cup {"refused"}
        /\ UNCHANGED <<pc, flock, socket, registry, drained, inherited, link,
                       teardown, unlinked, session, disturbed>>

SweepSocket ==
  /\ "refused" \in verdicts
  /\ verdicts' = verdicts \ {"refused"}
  /\ socket' = Nobody
  /\ UNCHANGED <<pc, flock, registry, drained, inherited, link, teardown,
                 unlinked, session, disturbed>>

-----------------------------------------------------------------------------
(* The specification.                                                      *)

\* The main thread of a process.
MainStep(d) ==
  \/ TryLock(d) \/ Probe(d) \/ Ask(d) \/ Recv(d) \/ RecvEof(d) \/ RecvTimeout(d)
  \/ AcquireFlock(d) \/ LockTimeout(d) \/ Reap(d) \/ Bind(d) \/ BindFails(d)

\* The connection thread of the incumbent that d asked.
HandOverStep(d) ==
  HandOff(d) \/ SendBatch(d) \/ SendFails(d) \/ Retire(d)

LeaveStep(p) == Unlink(p) \/ ExecLinger(p) \/ Exit(p) \/ ServeReturns(p)

ClientStep ==
  \/ \E d \in Daemons : Spawn(d)
  \/ \E p \in Daemons, s \in Sessions : Create(p, s) \/ Kill(p, s)
  \/ CountEmpty \/ TearDownStale \/ KillDaemon \/ SweepSocket

Next ==
  \/ \E d \in Daemons :
       \/ MainStep(d) \/ HandOverStep(d) \/ LeaveStep(d)
       \/ IdleObserved(d) \/ IdleExit(d) \/ Crash(d)
  \/ ClientStep

Spec == Init /\ [][Next]_vars

\* The threads of a live process run; a client need not do anything.
FairSpec ==
  /\ Spec
  /\ \A d \in Daemons :
       WF_vars(MainStep(d)) /\ WF_vars(HandOverStep(d)) /\ WF_vars(LeaveStep(d))

-----------------------------------------------------------------------------
(* What the upgrade keeps.                                                 *)

\* A live session is lost only with a process that a known disturbance has
\* met: a crash, a successor that stopped reading, a second takeover, a
\* shutdown or a session created during the hand-over, a bad descriptor.
\* Whatever else daemons and clients do, in any order, no shell dies of it.
NothingLostUnlessDisturbed ==
  [][\A s \in Lost' \ Lost : \E p \in disturbed' : s \in Holds(p)]_vars

\* A session that the holder of the flock drives is driven by it alone: no
\* other process still has its pty master, so none takes bytes from it
\* (hand_off leaves reader threads running until the process image goes).
AdoptedAlone ==
  \A p, q \in Daemons :
    p # q /\ flock = q => registry[q] \cap (registry[p] \cup drained[p]) = {}

\* While no budget runs out and there has been one successor, the socket path
\* leads to every daemon that serves and is not on its way out, so its
\* sessions can be reached.
ServingIsReachable ==
  Cardinality({d \in Daemons : pc[d] # "unborn"}) <= 2 =>
    \A d \in Daemons : Serving(d) /\ teardown[d] \notin Latched => socket = d

\* A daemon that starts ends up serving or gone, and one that is torn down
\* ends up gone: neither a connection that parks at the latch nor a wait for
\* the other side lasts for ever.
TakeoverSettles ==
  \A d \in Daemons :
    /\ (pc[d] \in Starting) ~> (pc[d] \notin Starting)
    /\ (teardown[d] \in Latched) ~> (pc[d] \in Gone)

\* A session that is handed off is driven again by a daemon clients can reach,
\* unless a disturbance has met a daemon.
HandedOffIsServedAgain ==
  \A s \in Sessions :
    (\E p \in Daemons : s \in drained[p]) ~>
      \/ Listener # Nobody /\ s \in registry[Listener]
      \/ disturbed # {}

-----------------------------------------------------------------------------
(* What comments and documents say that the code does not keep.            *)

\* run: the incumbent "hands us its pty masters and exits, and the shells
\* never notice".
ShellsNeverNotice == Lost = {}

=============================================================================
