# A model of avada-terminal in TLA+

avada-terminal is a terminal multiplexer with a control plane. Shells live in a
*session daemon* that outlives the desktop application; the application, `avada
attach` and other clients watch the same shells over a Unix socket. The
application also runs a *control server* (HTTP) through which agents enqueue
work, start panes and follow events.

This directory holds TLA+ modules for the parts of it where order, failure and
concurrency decide whether the program is right, the TLC configurations that
check them on small instances, and proofs, for every value of the constants,
about each of these parts: the theorems are in eight modules, and cover every
invariant and action property that a passing run checks. Paths below are relative
to `src/rs/crates/` unless they begin with `src/`.

Contents: [parts of the system](#the-parts-of-the-system),
[modules](#modules), [work queue](#the-work-queue),
[daemon takeover](#the-live-upgrade-of-the-daemon),
[attached terminal](#a-terminal-attached-to-a-session),
[the application's mirror](#the-applications-mirror-of-a-session),
[claims](#who-shows-a-session), [panes](#supervised-panes), [mail](#the-mail-of-an-agent),
[discovery](#the-discovery-file), [install store](#the-installed-modules),
[module host](#the-host-of-a-module), [runs](#the-runs), [proofs](#the-proofs),
[where code and text differ](#where-the-code-and-its-text-differ),
[not modelled](#not-modelled), [plan](#plan).

## The parts of the system

| Part | State it keeps | Operations, and whom it talks to | What is hard | What makes it correct | Model |
|---|---|---|---|---|---|
| durable work queue (`core/src/control/work.rs`) | table `tasks` in SQLite, counters `seq`, `fence` in memory | enqueue, claim, ack, nack, extend, reap, purge, recover; called by control routes and the reaper | leases that end under a live worker, restarts, purges that forget numbers, long sequences of retries | numbers unique, one live task per dedupe key, retries counted right, dependencies honoured, late workers fenced out | all |
| worker runner (`app/src/worker.rs`) | task and token in hand, heartbeat thread | claims, runs a child, renews, acks or nacks over HTTP | lost replies, its own death, a lease lost while the child runs, a server that restarts | an outcome is counted once; every task is settled in the end | partly |
| control server (`core/src/control/server.rs`, `routes.rs`, `dispatch.rs`) | host, bus, state coalescer | routes, reaper tick, boot recovery, pane exits and restarts, start and stop | tasks of one runtime that share a host; timers | cursors are complete; a crash is answered once | partly |
| session daemon (`core/src/session/daemon.rs`, `linger.rs`) | registry, flock, socket path, lifecycle latch, connections with attach-sets and writer queues | start, takeover, retire, idle exit, shutdown; attach, kill, broadcast | two processes that replace one another, threads that race for one latch, one path both unlink, a bounded queue, a bus that overwrites | no shell is lost in an upgrade, the path leads to whoever serves, streams have no gap | partly |
| registry and pipeline (`core/src/session_manager.rs`) | per session: pty, replay ring, screen, `output_bytes` | spawn, read, flush, resize, kill, exit, hand-off | a driver task and the kill race; the seed must match the stream | seed and cursor move together; exit comes after all output | partly |
| daemon client (`core/src/session/daemon_client.rs`) | mirror of every session, connection, claims to re-send | spawn or find a daemon, tear down a stale one, subscribe, reconnect, reconcile | its mirror is built from a seed, a stream and pushed snapshots that race | the mirror holds what the session put out, and no session that has ended | partly |
| attach client (`core/src/session/attach.rs`) | splice cursor, pending events | open, paint, repaint, end | the seam between seed and stream, a lagging bus | shows each byte once, in order, and ends when the shell ends | partly |
| claims (`core/src/session/claims.rs`, `app/src/leftpanel.rs`) | who answers for a session | claim, release, on close, on exit; a table that is sent to all | connections that close while others claim; copies of the table that overtake one another | a session is shown once; its claim is its window's; all know it | all |
| pane supervisor (`core/src/control/supervisor.rs`, `readmodel.rs`) | retries per pane, index from session to pane | exit, restart after backoff, health | a delayed restart races a manual one, or the end of the session | a crash is answered, the budget is kept, no shell is orphaned | partly |
| inbox and nudge (`core/src/control/inbox.rs`, `nudge.rs`) | messages and a ledger per pane | post, arm, wait, type one line | two locks; a pane that closes or restarts meanwhile | no message is passed over | all |
| discovery guard (`core/src/control/discovery_guard.rs`, `app/src/control_host.rs`) | one file | guard, write, remove | two instances, an aborted task, a dead owner | the file leads to the server that serves | partly |
| install store and seeding (`core/src/install/`, `marketplace/mod.rs`) | a directory per version, lockfile, ledger | install, activate, uninstall, seed, retire | no lock over a request; failure or death between any two steps | what is pinned is whole; the seeder follows the user | partly |
| module host (`core/src/module/host.rs`, `supervisor.rs`, `app/src/module_runtime.rs`) | a slot and a child process per module | start, wait, restart, stop, respawn; a worker with a queue of jobs | the thread that restarts and the worker that stops | one process; runs as wanted; the panel shows it | partly |
| message queues (`core/src/control/mq.rs`) | subscribers | publish to those there are | number minted before the topic's lock | in-process, kept nowhere, nobody resumes by the number | no |
| events, output, revisions | ring and revision | publish, resume | lag, resume | resume has no gap | only the read model's pane |
| dictation and speech | one recording | start, stop, result | a late answer | one recording at a time | no |
| Windows pty host, protocol, transport, control mode, spawning | none of their own | encodings, a line protocol, OS calls | text | round trips | no |
| locks, tokens, scopes; licence, rights, policy | tables under a mutex | check, grant | nothing concurrent of their own | table rules | no |
| orchestrator and recovery | what panes print | classify | text | rules over text | no |
| UI operations, persistence, workspaces, layout, CLI, assistants | documents, trees | translations, pure functions | little | round trips | no |
| desktop application, widget, SDK, parsers, bundled modules, companion, packaging | GUI | drawing, input, glue | GUI | - | no |

How they meet: the application and `avada attach` are clients of the daemon over
its socket; every connection has a thread that dispatches requests, a forwarder
task on the broadcast bus and a writer that drains one bounded queue. The control
server is a thread of the application, owns the work queue behind a mutex, and
drives panes through the daemon client; it is found through `control.json`.
Runners are separate processes that see the queue only over HTTP. A daemon of a new
build meets the old one three times: at the flock, at the socket (the `Takeover`
request, which carries pty masters by `SCM_RIGHTS`), and at the socket path, which
both unlink. Modules are child processes of the application, started by a worker
thread from what the install store has, when the control server's routes or the
launch say so, and told the control server's address in their hello.

`PROJECT.json` lists the parts with their sources, the hazards with the line
where each one bites, and the properties that answer to them.

## Modules

| Module | What it is |
|---|---|
| `FencedLease` | abstract: what the queue promises a claimer |
| `WorkQueue` | the queue: rows, counters, crash and recovery; implements `FencedLease` |
| `WorkQueueObserver` | `WorkQueue` and a client that pages through a queue with a cursor |
| `WorkQueueWorkers` | `WorkQueue` and runners that claim, renew, ack, nack, die |
| `DaemonTakeover` | daemons that start, hand over, retire and exit; clients that spawn and tear down |
| `DaemonTakeoverProofs` | theorems about `DaemonTakeover` |
| `SessionStream` | one session's output from driver to socket, for one connection |
| `SessionStreamProofs` | lemmas about its queues that both clients' proofs rest on |
| `AttachStream` | `SessionStream` and an attached terminal |
| `AttachStreamProofs` | theorems about `AttachStream` |
| `MirrorStream` | `SessionStream` and the application's mirror of the session |
| `MirrorStreamProofs` | theorems about `MirrorStream` |
| `ClaimTable` | the daemon's claims and the windows that make them |
| `ClaimTableProofs` | theorems about `ClaimTable` |
| `PaneSupervision` | a supervised pane of the control server |
| `PaneMail` | inbox and nudge of an agent's pane |
| `ControlServerProofs` | theorems about the work queue, its runners and its observer, `PaneSupervision`, `PaneMail` and their composition |
| `Discovery` | instances that share `control.json` |
| `InstallStore` | directories, lockfile and ledger of the installed modules |
| `ModuleHost` | a module's process, the thread that waits for it, the worker |
| `ModuleHostProofs` | theorems about `ModuleHost` |
| `MCControlServer` | runners, poller, pane and mail: one of the four in each behaviour |
| `MCServices` | claims, discovery, store and module host: likewise |
| `ServicesProofs` | theorems about `Discovery`, `InstallStore` and the composition of the services |
| other `MC*` | the instances TLC checks |

Most actions stand for the whole of the function `PROJECT.json`'s map names for
them, with its effects in one step where one lock or one transaction makes them
one, and in several where another process can come between. A definition whose
comment begins with *Slip* is a plausible mistake in the definition that follows
it; nothing but the mutation runs uses it, and every checked property is broken
by at least one of them.

*Named mishaps.* Several of these parts do not keep their promise always: the code
takes a step whose consequence it accepts, documents, or overlooks. Where that is
so the module keeps a history variable (`disturbed`, `spoiled`, `lapses`, `slips`,
`mislaid`, `blurred`, `mishaps`, `strays`) that an action adds a name to at the very
step where the thing goes wrong, and a property exempts the names that can break
it and no others. Such a property says that these are *all* the ways it can fail,
which is the useful statement: a mishap that can be named at one line can be
repaired there. No guard reads a history variable, but for one bound: a copy of
the claim table is dropped at most once.

## The work queue

`WorkQueue` models `work.rs`. The table is a function `task` from ids to rows;
`absent` is an id that was never enqueued, `purged` one whose row was deleted (a
uuid is never reused). `seq` and `fence` are the two counters of the process,
`up` says that a process has the table open, `now` is the clock, `completed` is
a history of the ids that ever were done. The columns that the properties do not
look at (payload, result, error, worker name formats) are left out.

- `Enqueue`, `Claim`, `Ack`, `NackGiveUp`, `NackRequeue`, `Extend`, `Reap`,
  `Purge` are the methods of the same name; the process's mutex makes each one
  step. Refusals (409, 404, a duplicate of a live key, nothing to claim, the ack
  of a task that is done under the same token) change nothing and are the guards.
- `ack`, `nack` and `extend` discard the error of their UPDATE and answer `Ok` all the
  same (`work.rs:581`, 606, 619, 651): `NotWritten` is that alternative of each. A
  sweep discards the error of each row likewise, so that `Reap`, and the recovery in
  `Open`, reach any subset of the rows they are to release. A claim or a purge whose
  statement fails answers that it did nothing, and changes nothing. An insert that
  fails panics under the queue's mutex, which ends the queue and is left out.
- A claim takes the row that `ORDER BY priority DESC, available_at, seq` puts
  first, among those whose dependencies are all `done`.
- `Crash` may cut a reaper sweep short: the sweep's statements are separate.
  `Open` reads the counters back with `MAX` over the rows that are left and then
  undoes every claim; `OpenCutShort` dies in between.
- `Tick` only moves the clock while a row waits for it. Nothing else reads it.

`WorkQueueObserver` adds a client that lists a queue with the last answer's
highest `seq` as its cursor (`tasks_list` in `routes.rs`). A page is any prefix
of what is after the cursor, which stands for every limit.

`WorkQueueWorkers` adds runners (`drain` in `worker.rs`). Each request may be
carried out and its reply lost, in which case the runner exits as the code does;
it may die at any point with its pane; its heartbeat thread stops at the first
error while the child goes on; the server may crash and come back under it.
Worktrees and what the child prints are left out. The queue's crash inside a
sweep is left to `MCWorkQueue`; here the server crashes between operations or
inside a reaper sweep. `unwritten` names the acks that were told `Ok` although the row
was not written.

What is checked:

- `NumbersUnique`: no two rows share a list position or a fencing token, whatever
  was purged and however often the counters were read back.
- `DedupeHolds`: a key names at most one live task of a queue.
- `RetryBudget`: a task is claimed at most `maxAttempts` times and dead-lettered
  by exactly the last failure, along all of nack, reaper and recovery.
- `DepsHonoured`: a task is only ever claimed after every dependency was done,
  and a purged or failed dependency does not count.
- `LeaseSpec`: the queue implements `FencedLease` under `Phase` and `Epoch`: a
  grant's token is newer than any the task carried and shared with no other task,
  only held tasks close, closed ones stay closed.
- `CountedOnce`: a runner that was told its ack succeeded is the only one, and
  nothing takes it back, if the row could be written: an `unwritten` task stays
  claimed, is reaped and done again. `EventuallySettled`: once the server stays up, every task is
  settled.
- `CursorComplete`: the cursor never passes a task of its queue that was not
  listed. It holds while the process does not restart, and not otherwise.

Bounds. Three ids are enough for a duplicate, a dependency and a third task that
competes or is purged; `MaxNow = 2` lets a lease of one unit run out, a retry
wait and a second lease run out; `MaxLead` bounds repeated heartbeats. Two jobs
differ in key, priority, retry budget and timeout; ids are symmetric. With
runners: one task, two runners, two tries. That run has a clock that goes to 8 and
stops at 6, so the bound does not stand in for progress, and no symmetry. The
poller watches one of two queues with three ids, while the process stays up.

Fairness. `RunnersFairness` (in `MCControlServer`) says that the reaper ticks (a task of the control
server, `server.rs`) and that its sweep, tick after tick, does not fail to write for
ever, time passes, somebody starts the application again, a
runner that has exited is started again, and a runner's loop goes on: it claims
what it can, its child ends, it reports. Deaths and lost replies have no
fairness, and no bound on how often they happen but the retry budget.

## The live upgrade of the daemon

`DaemonTakeover` models `run`, `take_over`, `hand_over`, `serve` and `Lifecycle`
of `daemon.rs`, with the clients of `daemon_client.rs` that spawn daemons, tear a
stale one down, create and kill sessions. A session is its shell: it is lost when
no process, and no message to a process that still reads, holds its pty master.

State: `pc` is the main thread of each process in `run`; `flock` and `socket` are
the lock file's holder and the process whose bind made the file at the path;
`registry`, `drained` and `inherited` are the masters a process drives, has handed
off but not closed (they are leaked until the image goes), and has received;
`link[d]` is the connection on which `d` asked for the sessions, with the stage of
the incumbent's thread, what it has left to send, and the messages under way;
`teardown` is the lifecycle latch; `verdicts` what a client has seen and will act
on.

| Code | Actions |
|---|---|
| `run`: flock, probe, take over, wait for flock, reap, bind | `TryLock`, `Probe`, `Ask`, `Recv`, `RecvEof`, `RecvTimeout`, `AcquireFlock`, `LockTimeout`, `Reap`, `Bind`, `BindFails` |
| `hand_over`, one thread per `Takeover` connection | `HandOff`, `SendBatch`, `SendFails`, `Retire` |
| `Lifecycle` and the accept loop | `Shutdown`, `Unlink`, `ExecLinger`, `Exit`, `ServeReturns`, `IdleObserved`, `IdleExit` |
| clients | `Spawn`, `Create`, `Kill`, `CountEmpty`, `TearDownStale`, `KillDaemon`, `SweepSocket` |
| environment | `Crash`, and the members of `Events` |

What one step stands for: bind, adoption and the start of `serve`; winning the
latch and killing the sessions that are still registered; the return of `serve`
and the end of the process. Messages in flight are a set, since each batch is
adopted on its own. A client's create goes to the daemon at the path, or to one
it is already connected to.

`Events` says what the environment may do beyond that: let a time budget run out
on a peer that is still at work (`slow`), kill a process between any two steps
(`crash`), give a descriptor that cannot be adopted, fail the exec into the linger
stub, run `avada --kill-daemon`. The history `disturbed` names the processes such
a thing has met: it also records a second `Takeover` on one incumbent, a shutdown
or a create during a hand-over. `NothingLostUnlessDisturbed` then says that these
are *all* the ways a shell can die: if a step loses a live session, its process is
one that a named disturbance has met.

- `AdoptedAlone`: whoever holds the flock is the only one with the pty masters of
  the sessions it drives; two readers would split a shell's output.
- `ServingIsReachable`: while budgets are met, the path leads to any daemon that
  serves. Both the leaving and the starting daemon unlink by name; only the order
  flock, unlink, bind and unlink, exit keeps this.
- `TakeoverSettles`, `HandedOffIsServedAgain`: no thread that parks at the latch
  and no wait for the other side lasts; handed-off sessions are driven again.

Bounds. A message carries one descriptor (`MaxFds = 1`, the code's is larger), so
that two sessions need two messages and something can happen between them. Two
daemons, or three where the question is a race of successors; each is spawned at
most once. Sessions are symmetric. `Faults` allows every event with one
successor, `Rivals` two successors with crashes, unusable descriptors and failed
execs, `Live` no event, with three daemons.

Fairness. The main thread of a process, the thread of each hand-over and the
threads that leave go on (`FairSpec`); nothing is assumed of clients. Deadlock is
not checked: a model with finitely many daemons stops when they have all gone or
the last one serves.

Left out: a takeover from a daemon of the first protocol or one whose namespace is
dead (both skip the hand-over), claims and notices, other connections' traffic,
the encoding of the hand-off record.

## A terminal attached to a session

`SessionStream` is the path of one session's output to one connection, in flushed
chunks: chunk *n* is what `output_bytes` counts between two flushes, and a seed is
the repaint of chunks 1 to its cursor. The driver flushes and exits
(`Flush`, `ChildExits`, `Forget`; `Kill` by any client takes the session out of the
registry at once); the pump broadcasts (`Pump`, and `PumpOther` for other
sessions); the dispatching thread subscribes, takes the seed and queues the reply
in three steps (`Subscribe`, `TakeSeed`, `ReplyToAttach`); the forwarder queues an
event, drops it when the queue is full, or finds itself overwritten by the bus and
reseeds (`Forward`, `Lag`, `TakeResync`, `SendResync`). `queue` is the writer's
bounded channel together with what the socket holds.

`AttachStream` adds `attach.rs`: open, stash what comes before the seed, paint the
stash and then the live output past the splice point, clear for a new seed, ask for
a repaint, end at the exit.

Five mishaps are named in `spoiled`: an event that did not fit the queue (`full`),
an exit broadcast before the client attached (`late`), an exit the bus overwrote
(`overrun`), a seed asked for after the session left the registry (`gone`), and a
later seed queued behind newer output than it covers (`overtaken`). The properties
say that these are all:

- `ShownSeamless`: otherwise the terminal shows chunks 1, 2, ... with nothing
  missing, doubled or swapped, across the seam, lags and repaints.
- `EndsComplete`: otherwise a terminal that was told of the exit shows everything.
- `ExitIsTold`: after the child exits, the terminal is told, or a mishap is why not.

Bounds: a bus of one event and a queue of two, so that lags, a full queue and an
overwritten exit all happen within three chunks and one foreign event; one repaint.
Fairness: the pump, the dispatcher, the forwarder and the client's loop run; a
session need not output or exit, nobody need ask for a repaint.

Left out: several sessions on one connection (the foreign events stand for them),
detach and disconnect, resizes, the notices a terminal receives beside the events
(they only take room in the queue), the tty, and what is inside a chunk.

## The application's mirror of a session

`MirrorStream` adds to `SessionStream` the shadow that `daemon_client.rs` keeps of a
session: `text`, the chunks it holds, and `bytes`, what it believes the session has
put out. It is filled from four sides: the replies to its own requests (`List`,
`Create`, `KillOwn`), the seed of an attach and the live output (`ReadMessage`),
snapshots of the whole session table that the daemon pushes at an exit, at another
client's request and when its foreground watcher sees a change (`PumpAndTell`,
`KillAndTell`, `Watch`, `TakeSnapshot`/`SendSnapshot` for the thread of another
connection, `ForwardNotice`), and by `resync` after a lost connection (`Drop`,
`Redial`, `Resync`). `Folded` is the reader loop's match on a message, `Reconciled`
the merge of a snapshot, `Spliced` the splice of a seed.

The mishaps (`lapses`): `behind`, the shadow counted fewer bytes than the stream had
reached; `dismissed`, a snapshot or the client's kill took an entry away, so that
messages still on their way can put one back in its place without what it held;
`haunted`, a message that is older than the end of the session put an entry back that
the watcher never sampled; `orphaned`, the connection was lost under an unconfirmed
create. An exit takes the entry away as well, but behind all output. With them:

- `MirrorKeepsAll`: the mirror holds the output from the first chunk on with none
  missing: whatever chunk stands in it, all before that one stand ahead of it. Chunks may come twice: the client never compares a `Data`'s
  cursor with a seed's.
- `RestsComplete`: when nothing is under way for a running session, the client has
  an entry, which holds everything.
- `GhostsFade`: when nothing is under way, an ended session is not in the list.

Bounds: two chunks, a bus of one event and a queue of two, one of kill, foreign push
or lost connection. The constraint `NothingDropped` cuts off what follows an event
dropped for a full queue, which no property speaks of: all three exempt it.

## Who shows a session

`ClaimTable`: one session, two processes with windows, up to three connections. The
daemon's side is `ClaimRegistry` and what the threads of connections do with it:
`ReadRequest` (hello, list, claim, release), `LeaveConn` (the end of a connection:
its requests already written are read first, then its claims go), `EndSession`. A
thread takes a copy of the table under its lock and sends it in a step of its own
(`drafts`, `SendDraft`). The process's side is `leftpanel.rs` and
`daemon_client.rs`: `Publish` announces what the windows show and remembers that it
did, `AskToAdopt`, `HearAnswer`, `GiveUp` (the request's timeout), `ClosePane`,
`ReadNotice`, `LoseConn`, `Redial`, `Resync`, `Die`.

The lapses: an announcement that was `refused` and is never repeated;
`mistold`, after a reconnect the client claims again what its table says and not
what was published last; `abandoned`, an adoption granted after the client gave up;
`unpublished`, an adopted pane closed before the next publish; `misread`, the answer
to an announcement taken for that of an adoption (answers carry no number);
`outrun` and `dropped` copies of the table. `ShownOnce`, `ClaimIsOfItsWindow` and
`TablesAgree` each exempt those that can break them, and are stated of states in
which nothing is under way.

Bounds: two moves of users, processes and sockets; one copy of the table dropped. A
third process adds nothing: the table has one owner, and a rival is enough.

## Supervised panes

`PaneSupervision`: the pane in the read model with the reverse index `uid_to_pane`,
its sessions one after the other, the events of their ends. `HandleExit` is
`process_session_event` with `supervise_exit`; a scheduled restart is the task
`do_restart`, which checks (`CheckRestart`), creates (`CreateForRestart`), swaps
(`SwapForRestart`) and counts (`CountRestart`) in four steps, as it takes four
locks. `FindVanished` and `Demote` are the two locks of `reconcile_exits`.
`RestartByHand`, `SetSupervise`, `ShowHealth`, `Reindex` (the tree is published) and
`ClosePane` come at any time. A closed pane has left the read model: its session was
killed or is parked alive (`state.rs:2946`), a restart that looks for it gives up, and
one that had looked already creates a session that `respawn_pane` finds no pane for. A
parked pane that is opened again counts as another pane. `restartOn` is failure; the length of the backoff is left to the
scheduler.

- `CrashIsRetried`, `RetriesKept`: a crash is answered until the budget is spent, and
  the budget is never exceeded between two signs of health.
- `NoSessionOrphaned`: no scheduled restart leaves a shell that no pane shows, neither
  after a restart by hand nor after a close, except one that comes between its check
  and its swap.
- `ExitedIsOver`, `VanishedIsDemoted`: a pane shown as exited is over, and one whose
  session has vanished does not stay running while the index knows its session.

The slips: `unheard`, `mistaken` (the index is not changed by a swap), `unmanned`,
`failed` (a create that fails is not tried again), `crossed` (a restart by hand
between check and swap), `closed` (a close there), `uncounted` (an exit handled before the last restart is
counted).

Bounds: two retries, three sessions after the first, one command by hand.

## The mail of an agent

`PaneMail`: `Post` puts a message into the inbox, `Arm` enters it in the ledger in a
second step and may spawn the waiter, `WaiterPolls` is one round of the waiter's
loop (`LeaveClosed`, `GiveUpWaiting`, `TypeLine`). `NoMailPassedOver`: a message that
is still held and was entered is behind the cursor of a line that was typed, or in
the batch the next line names. `WaitersEnd`: no batch waits for ever. Mishaps:
`overtaken`, `unentered`, `mistyped`, `stranded`. Three messages, an inbox of two, one
restart: enough for the cap to drop a message, and for two posts to change order.

## The discovery file

`Discovery`: two instances, three servers, each on a port of its own. A server passes
the guard, binds, writes and serves (`PassGuard` or `Refuse`, `BindPort`, `WriteFile`);
an abort takes effect at the next `await`, of which there is none between bind and
write; a stop removes the file in two steps, and only if it is its own. An instance
can die anywhere. `ServersAreFound`: the file leads to the server that serves.
`NoDeadPort`: it leads to no server that was stopped. Blurs: `together` (the limit
`discovery_guard.rs:37` documents), `unnamed` (the name of a live owner cannot be
read), `late` (stopped between bind and write).

## The installed modules

`InstallStore`: `disk` says of each version what there is of its directory, from none
over an empty one and an artifact without record to whole; `pins` is the lockfile, `offered` the
seeder's ledger. A launch seeds what the build ships (`Launch`, `Seed`), removes
renamed modules (`BeginRetiring`, `Retire`) and saves the ledger; then requests
install and uninstall, each on a thread (`Ask`). An install is `Clear`, `Make`,
`Populate`, `WriteRecord`, `ReadPins`, `Pin`, then `Load` and `Activate`; an uninstall
`Remove`, `ReadPin`, `Unpin`. Any file operation can fail, and `Quit` can come between
any two steps, between the removal of a directory and the making of the new one too.
A failed install removes its directory and does not look whether that worked (`Undo`).
A ledger that cannot be read is taken for an empty one (`Launch`), and one whose write
is cut short cannot be parsed at the next launch (`SaveLedger`). `lost`, `forgotten`,
`mishaps` and `unpinned` are history.

- `PinsFollowDisk`: outside of a job, a pin names a version that is whole, and a
  module with a whole version has a pin.
- `SeedingFollowsUser`: after the seeding of a launch in which nothing failed every
  bundled version is whole, unless the user took it away, and then it stays away. A
  version that was `lost` (by a failed reinstall, a death between removal and making, a
  retirement) may stay away if the ledger has it, and one that was uninstalled may come
  back if the ledger was broken or unreadable since (`forgotten`).
- `RenamedKeepsOne`: a renamed module is removed only when its replacement is whole.

Bounds: two builds of the program, of which the later ships the module under a new
name, and a version between them that a request may install; two job threads, four
launches or requests, one fault.

## The host of a module

`ModuleHost`: one module, its slot, its processes one after the other, the thread
that waits for each, and the worker that takes jobs one at a time.

| Code | Actions |
|---|---|
| `Slot::start`, on either thread | `FailToVerify`, `Bump`, `ShowStarting`, `SpawnChild`, `SpawnFails`, `GreetFails`, `Greet`, `Serve` |
| `Slot::wait_loop` with `Supervisor::on_crash` | `ChildDies`, `NoticeExit`, `SendGone`, `JudgeCrash`, `WakeUp` |
| `run_worker`, `Slot::request` | `TakeJob` (`TakeStart`, `TakeRemove`, `TakeRefresh`), `Sweep`, `CallActivate`, `CallEnds` |
| `read_loop`, `rail_register` | `Register` (the module), `HearModule` |
| `Slot::shutdown`, `Host::remove`, `Host::respawn` | `MarkStop`, `ShowDisabled`, `EndChild`, `EndWait`, `AfterStop` |
| the window's thread | `Enable`, `Reconcile`, `MoveServer` |

Each step is what the code does under one hold of the slot's lock. `calls` are the
activations a process has still to act on, `mail` the registrations the thread that
reads from it has still to handle: it handles them whatever the slot's generation is by
then, also after the waiting thread has sent `Gone`. The worker goes on with an answer,
an error or its timeout, and activates nobody a second time; the module may register
before or after that, or never. The backoff, the
shutdown grace and the 500 ms for which a stop waits are left to the scheduler. How
many crashes are still in the window is any number up to those counted.

- `OneProcess`: never two processes of the module.
- `RestsAsWanted`: when nothing is left to do, the module runs if and only if it is
  enabled or has been given up on, under the slot the host knows, and its status
  says so.
- `InTouch`: then also the panel shows the entries of that process, and the process
  knows the server's address.

The strays: `replaced`, the worker made a new slot while the old slot's process or
thread lingered (a crashed slot is not live, `host.rs:561`); `unheeded`, a stop came
while a waiting thread was starting the module; `hasty`, the wish was held against a
status about to change; `hurried`, the 500 ms ran out; `stuck`, a crash's status
written over a later one, or left by a stop; `wiped`, a late `Gone` dropped a later
process's entries; `unshown`, a process restarted after a crash is activated by
nobody; `unheard`, the server moved during a restart's handshake; `barren`, a process
that was activated registered nothing, or its registration was refused; `belated`, the
panel got the entries of a process it had been told is gone, or over those of another.

Bounds: one restart in the window, two slots, two processes, two changes of mind. Two
processes are enough for a late registration or a late `Gone` to meet a later process;
what a third adds is left to the proofs.

## The runs

| Run | Question | States | Time |
|---|---|---|---|
| `queue` | every interleaving of the queue's operations, crashes and recoveries on three tasks | 636 k | ~65 s |
| `observer_cursor` | a polling client across restarts: *violated* | until found | - |
| `control_server` | two runners on a task; or a poller; or a supervised pane; or an agent's mail | 326 k | ~120 s |
| `takeover_faults` | one successor, every event | 142 k | 8 s |
| `takeover_rivals` | two successors, crashes | 1.9 M | ~80 s |
| `takeover_live` | three daemons, no event: progress | 74 k | 30 s |
| `takeover_twice` | two successors, no event: *a shell is lost* | until found | - |
| `attach` | a terminal from its opening to the exit | 825 k | ~80 s |
| `attach_repaint` | a repaint while output goes on: *violated* | until found | - |
| `mirror` | the application's mirror through seeds, pushes and a reconnect | 2.6 M | ~100 s |
| `services` | claims; or the discovery file; or the install store; or the module host | 1.7 M | ~110 s |
| `pane_stale` | two sessions of a pane that nobody re-indexes: *violated* | until found | - |

`control_server` and `services` each hold four systems that share no state. The kind
of work is chosen in the initial state and the other three rest, so that the states
add up and do not multiply, and each property is checked on the whole of its own
system.

Each property of a passing run has a mutant in `PROJECT.json`: a definition that
models code, replaced by its *Slip*, under which TLC finds the property violated
in the same run.

Deadlock is not checked in any run: bounded ids, daemons, output, servers and requests
come to an end, and a daemon without sessions exits in the code as well. That nobody
waits for ever is what the liveness properties say.

Fairness, beyond what the queue, the daemons and the terminal are given above: the
server's task that handles exits and its ticker run (`PaneFairness`), and the runtime
polls the waiter of a batch (`MailFairness`). Nothing is assumed of users, of programs
in panes, of clients or of the services.

## The proofs

Eight modules hold theorems. Each is proved for every value of the constants: any
number of tasks, daemons, windows, sessions, modules, requests, and any bounds. None
assumes fairness. `PROJECT.json` lists them; here is what they say and why they hold.

| Module | Theorems | Property of a run |
|---|---|---|
| `ControlServerProofs` | `NumbersStayUnique`, `DedupeAlwaysHolds`, `RetryBudgetKept`, `DepsAlwaysHonoured`, `LeaseRefined` | `NumbersUnique`, `DedupeHolds`, `RetryBudget`, `DepsHonoured`, `LeaseSpec` |
| | `AcksCountOnce`, `PollsMissNothing` | `CountedOnce`, `CursorComplete` |
| | `CrashesRetried`, `NeverOrphaned`, `RetriesBounded`, `ExitedNotLive` | `CrashIsRetried`, `NoSessionOrphaned`, `RetriesKept`, `ExitedIsOver` |
| | `NoMailLost`, `ControlTyped` | `NoMailPassedOver`, `ControlTypeOK` |
| `DaemonTakeoverProofs` | `AlwaysAdoptedAlone`, `LossesAccounted`, `AlwaysReachable` | `AdoptedAlone`, `NothingLostUnlessDisturbed`, `ServingIsReachable` |
| `AttachStreamProofs` | `AlwaysSeamless`, `EndsWhole` | `ShownSeamless`, `EndsComplete` |
| `MirrorStreamProofs` | `MirrorKept`, `RestComplete`, `GhostsGone` | `MirrorKeepsAll`, `RestsComplete`, `GhostsFade` |
| `ClaimTableProofs` | `NeverShownTwice`, `ClaimFollowsWindow`, `TablesFollow` | `ShownOnce`, `ClaimIsOfItsWindow`, `TablesAgree` |
| `ServicesProofs` | `ServersAlwaysFound`, `NeverADeadPort` | `ServersAreFound`, `NoDeadPort` |
| | `PinsHold`, `SeedingFollows`, `RenamedKept` | `PinsFollowDisk`, `SeedingFollowsUser`, `RenamedKeepsOne` |
| | `ServicesTyped` | `ServicesTypeOK` |
| `ModuleHostProofs` | `OnlyOneProcess`, `RestsWell`, `StaysInTouch` | `OneProcess`, `RestsAsWanted`, `InTouch` |

With these, every invariant and every action property that a passing run checks is
proved for all values of the constants, under the assumptions named below. So is the
type invariant of every module
(`TypeCorrect`, `RunnersKeepQueue`, `AttachTyped`, `MirrorTyped`, `ClaimTypes`,
`PaneTyped`, `MailTyped`, `StoreTypes`, `HostTypes`; that of `Discovery` is part of
`DiscoveryInvHolds`). `ControlTyped` and `ServicesTyped` carry the conjuncts over to
the compositions that TLC explores: each step of a composition is a step of the one
part that was chosen, within its own invariant, and a stutter of the others.

The eighth module, `SessionStreamProofs`, has no result of its own: what a message
appended or taken, a queue handed on and a seed do to the order of the output, for the
proofs of the terminal and of the application.

*What the theorems assume.* The `ASSUME`s that the modules state, which TLC evaluates
on every run: jobs and bundles are well formed, durations and bounds are natural
numbers, `2 ^ n` is one for n up to `MaxShift` (the back ends do not know powers),
processes and connections are numbered from 1, and the replacement of a renamed module
is among what the same build bundles. Three theorems say more:

- `AlwaysAdoptedAlone` assumes `BudgetsMet`: no read or lock budget runs out on a
  process that is still at work (`slow` is not among the events). It needs it: with
  three daemons and `slow` TLC finds a second daemon that serves without the flock
  after two expired budgets, and a third that asks it, stops waiting for it, takes the
  free flock and drives a session whose master the second has not closed.
- `AlwaysReachable` assumes `BudgetsMet`, and that nobody runs `--kill-daemon`: after a
  crash of the first daemon the successor can bind the path between the kill and the
  sweep with which the command line removes it (TLC finds this in eight steps).
- `PollsMissNothing` is of the steps with `up'`, those of a server that stays up.
  Across a restart the statement is false, as `observer_cursor` shows.

`LossesAccounted` and all the others allow every event of their module.

### The work queue

None of the properties is inductive alone. `IInv` is their conjunction with two parts
no run asks for:

- `CountersAhead`: the counters of an open queue are at least every stored row's
  number, and a row that is not stored has no token. Without it a claim could mint
  a token that another row still has. It says nothing while the queue is closed:
  `Open` establishes it again from the rows that are left.
- `DoneCompleted`: a row that is `done` is in the history. Without it a claim,
  which looks at rows, would say nothing of the history, which `DepsHonoured`
  needs because a purge deletes rows.

Nack, reap, recovery, extension and ack differ in which rows they touch, and
touch a row in the same few ways. `HandledKeeps` proves once that a step which
only finishes, releases or extends claimed rows keeps `IInv`, and the lemmas
`...Handles` show that each of these operations is such a step. `Enqueue`, `Claim`,
`Purge` and `Open` have proofs of their own. `LeaseRefined` shows under `IInv` that
each step is a `Grant`, a `Revoke`, a `Forget` or a stutter.

Every step of the runners is a step of the queue or leaves it alone, so that
`RunnersKeepQueue` carries `IInv` over to them. `CountedOnce` then needs that a task
that is done stays done under its token until it is purged, and that an ack is refused
under any other token. For the poller, `NumbersStand` says that while a process is up
a row keeps its number and a new one gets a higher one; whatever was skipped had been
in the page or come after it.

### The live upgrade

`Incoming(d)` is what `d` drives, has received, and will be sent while it reads.
`IInv` says that

- `OnlyServersDrive`, `PeersAreDaemons`: a process that does not serve drives
  nothing and has handed nothing off, one that serves has adopted all it received,
  and a connection has a daemon at its other end;
- `AskersWait`: one that asked reads on until the process it asked is gone, so that
  nobody hands sessions off to itself or to a process that went on without them;
- `HandedOffToReaders`: a master that `p` has handed off but not closed can be with
  another process only if that one asked `p` and still reads, or is gone;
- `IncomingDisjoint`, `UnbornNowhere`: a session is on its way to one process, and
  one that was not created is nowhere.

`AdoptedAlone` follows: a process that serves reads no more, so nobody has what it
drives. Most steps are `Calm`: they add nothing to any `Incoming` or `drained` and
move nobody into or, but by leaving, out of the reading state. `StepShape` shows
that every step is calm but `Ask`, the end of the reading, `HandOff` and `Create`;
`CalmKeeps` disposes of the calm ones, and four lemmas of the others.

`LossesAccounted` rests on another invariant, `AccountInv`, which holds whatever the
environment does. It says of each daemon that no disturbance has met that it has one
successor at most, that it drives nothing once it hands over, and that while it serves
everything it has handed off is on its way to a successor that still reads. A step that
lets go of the last master of a session can then only be one of a disturbed process.
`LinksOrdered` and `StartsInOrder` fix in which stages a connection can be.

`AlwaysReachable` rests on `ReachInv`: as long as the first daemon serves it holds the
flock and, until it is torn down, the path, and its one successor is not past the
flock; once the successor binds, only it can take its path away.

### The attached terminal

The output is numbered, and a seed covers its beginning. `IInv` of
`AttachStreamProofs` has three layers:

- `OrderInv`: what waits at the terminal, in the connection's queue, at the bus and
  before the pump is in rising order, and in that order of places;
- `TerminalInv`: the terminal shows a beginning of the output, and what is on its way
  is new to it or lies within the seed's splice point;
- `Seamless`: whatever waits finds the chunk before it on the terminal, waiting ahead
  of it, or within a seed ahead of it (`PendingFollows`, `QueueFollows`), and so will
  the next chunk to be printed (`RestFollows`), also when it is the lagging
  forwarder's new seed that covers the gap.

`TerminalInv` alone is not inductive: nothing would exclude a gap in the queue. The
last layer holds while nothing has been `spoiled`, and speaks of a terminal between
its attach and its end; a chunk that is dropped because the seed holds it, one that
overtakes the seed, a lag of the bus and a repaint each keep it for a different
reason. The lemmas about queues that these reasons share are in
`SessionStreamProofs`.

### The application's mirror

`MirrorInv` has the same layers below, and two more:

- `OrderInv` is that of the terminal.
- `PhaseInv` says in which phase of the connection and of a request what can be under
  way: a client attaches over a connection that is up and after the answer to what it
  asked there, and until then nothing of the session is sent to it. Without it a seed
  could meet a mirror that another connection began.
- `Seam`: whatever stands in the mirror finds what is before it there (`TextFollows`),
  and what waits in the queue, at the bus, before the pump or is still to be printed
  finds it in the mirror, ahead of itself, or in a seed that will come
  (`QueueFollows`, `RestFollows`). A mirror that has no beginning yet may wait for its
  seed (`Promised`, `SeedComes`), which then must cover the gap.
- `CountInv`: the count of bytes is ahead of each chunk of the text by as many chunks
  as stand after it. A seed is spliced by that count, and this is what makes the
  splice cut off no more than the seed covers; `SpliceKeeps` says so.

`MirrorKeepsAll` alone is not inductive, for the text says nothing of what a seed at
an earlier point would do to it, nor of what is on its way. `TextFollows` gives it to
an attached client; to one that is not, `primed` leaves only a create that is not
dispatched, whose mirror is empty. At rest nothing is under way, so that `SeedComes` and
`RestFollows` leave the whole output in the text: `RestsComplete`.

`GhostsFade` rests on `GhostInv`: while the entry of an ended session is there and the
watcher does not see the session, something on its way removes it (`Removal`: an exit
before the pump, whose snapshot follows, a notice, a snapshot in the queue, or the
`ListSessions` of a reconnect), and an unconfirmed create has its confirmation on its
way.

### Claims

A property about a system at rest needs an invariant of what is under way. `TableFor`:
the last copy of the table on its way to a process has the owner, or some thread is
about to send one. `PublishedFor`: what a process has published it owns, or its
announcement is still to be read with no release behind it. `UnpublishedFor`: one that
has published nothing owns nothing, or gives it up, or shows what it was granted, or
is about to hear of it. `AnswerFor`: a process waits for one adoption at a time. Each
holds while the lapses that break it have not happened, and at rest its alternatives
fall away. `ConnsApart` (a connection is one process's) makes owners comparable.

### Panes and mail

`PaneInv` has the four properties and what they lean on. `CheckedIsShown` and
`CreatedUnknown`: a restart past its check is of the session the pane shows, and what
it created nobody else knows, so that the swap orphans nothing. `CreatedCrashHeard`: the
crash of a session not shown yet is still to be handled, or was `unheard`. `CountsLag`:
what was spent exceeds what was counted by one at most, and only while one restart is
swapped and not recorded. `MailInv` adds to `NoMailPassedOver` that the inbox keeps
the newest `MaxPerPane`, that no message is entered twice, and that a ledger has one
waiter.

### Discovery, store and module host

`DiscoveryInv`: a server past the guard is alone there and the file is not another
instance's (`ClaimsAlone`), and who is to remove the file still owns it
(`RemovesItsOwn`): both hold because an instance has one server at a time.

`PinsInv` says of each pin that its version is there, being made, or about to be
unpinned, also of the stale copies of the lockfile that threads have read; `SeedInv`
that what the ledger has and is gone was refused or lost, that what was refused is gone
and in the ledger unless it was forgotten since, and that the seeder, alone
before the requests come, leaves each version of the build whole behind it. The two
action properties follow for every step.

`CleanInv` is the heart of `ModuleHostProofs`: at most one thread starts the module or
is to start it again (`OneActs`), in the slot that is known, for the slot's newest
generation, and each live process is that thread's or about to be stopped. `StatusInv`
ties the status to it, `WishInv` the worker's queue to what the store wants, and
`TouchInv` the panel's entries to the process whose end it will still be told, and what
has been activated to an entry in the panel, a registration under way, or a call.

### What the proofs found

- `RetriesKept` held on the checked instance and not in general. The mishap `uncounted`
  named only the exit of the session whose own restart was not counted yet; that of an
  earlier one, which the index still leads from, lets the count fall behind as well.
  The name now stands for any exit handled while a restart is not recorded.
- `ShownOnce` needs no exemption for an announcement that could not be sent, nor for an
  answer that was misread: after the reconnect the client claims again, and where that
  claim is not what it had published the step is `mistold` already. The lapse `unsent`
  is gone and the property stronger.
- `SeedingFollowsUser` and `RenamedKeepsOne` need that a build bundles what it renames
  to. The code's table does (`seed.rs`), and the assumption now says so.
- `MirrorKeepsAll` held on the checked instance and not in general. An entry that a
  killed session's snapshot had removed could be put back, as if begun anew, by a
  seed taken before the kill; an older snapshot of another connection then raised its
  count, and of two chunks still on their way the second was taken to follow: the
  mirror has 1, 2, 4. It takes four chunks and two events, more than the run has. The
  lapse `dismissed` named only removals of a session that is there; it now stands for
  every removal but that of an exit, which comes behind all output. With it the
  property needs no exemption for `haunted`, which it had.

### Only model-checked

- Liveness: `EventuallySettled`, `TakeoverSettles`, `HandedOffIsServedAgain`,
  `ExitIsTold`, `VanishedIsDemoted`, `WaitersEnd`. Fairness and `ENABLED` are beyond
  this prover.
- What the runs that expect a violation refute.

## Where the code and its text differ

Shown by runs:

1. `observer_cursor`. `docs/worker-pool.md:100` calls `seq` a global monotonic id
   that doubles as the list cursor. After a purge of the newest finished tasks and
   a restart, `work.rs:435` resumes below numbers already shown, and a client whose
   cursor is past them never sees the new tasks.
2. `takeover_twice`. `daemon.rs:190` says that the shells never notice. Every
   `Takeover` connection runs `hand_over` on a thread of its own; the second finds
   an empty registry, sends its one message and retires the process while the
   first is still sending.
3. `attach_repaint`. `attach.rs:479` calls a repaint a pure read, and `attach.rs:366`
   has replies drained ahead of the bus. Both share one queue; a chunk flushed
   after the seed's snapshot and queued before it is painted, cleared, and gone.
4. `pane_stale`. `server.rs:697` has the ticker check the cache against the backend
   so that no dead pane stays running. `respawn_pane` (`readmodel.rs:797`) swaps the
   session and leaves the index; until a tree is published, and in the headless
   server none is, neither the exit nor the ticker finds the pane of the new session.

Seen while modelling. The models contain these behaviours, the history variables name
them, and none has a run of its own.

Daemon and its clients:

- A hand-over whose send fails loses the sessions it had not sent: their masters
  close at the exec (`daemon.rs:1187`), though the comment at 1189 says the shells
  stay alive.
- A client's create served between the drain and the exec dies with the process
  (`daemon.rs:1268`).
- A successor whose wait for the flock runs out with sessions in hand goes on to
  remove the socket path (`daemon.rs:251`) under a comment (248) that says it
  holds the flock.
- The accept loop may return before the exec into the linger stub
  (`daemon.rs:961`), so that a retired daemon does not always linger as
  `docs/session-daemon-plan.md` describes.
- `tear_down_stale_daemon` connects afresh (`daemon_client.rs:1802`), so that its
  `Shutdown` may reach the successor; its session count is older than that (1771).
- The client splices a seed by its own count of bytes. When that count is behind the
  stream, the chunk that raced ahead of the seed is thrown away, which
  `daemon_client.rs:1263` means to prevent; when the chunk was in the seed it is
  appended twice.
- An exit's snapshot is taken before the session leaves the registry, and a late
  `Data` makes an entry: a dead session can come back into the client's list until
  the watcher's next push.
- `daemon.rs:1233` has the seed of the claims travel in the order of the changes.
  The copies are taken under the table's lock and sent without it, so that an older
  one can be sent last. `daemon.rs:1663` calls a dropped copy harmless as the next
  push carries the whole; there need not be a next.
- A refused announcement of a window is taken for made, and a claim asked
  for and given up is granted all the same.

Work queue, panes and mail:

- After a purge and a restart the fencing counter is lower than before
  (`work.rs:437`), which `docs/worker-pool.md:57` excludes. It does no harm:
  `NumbersUnique` and `LeaseSpec` hold all the same.
- A runner is told `Ok` for an ack whose UPDATE failed (`work.rs:581`, 586): the task
  stays claimed and is done a second time by another.
- The boot recovery takes the claims of runners that are still alive
  (`server.rs:351`); they are fenced out when they report.
- A dependent of a task that failed, was dead-lettered or purged stays queued for
  good (`work.rs:519`). `maxAttempts` is cast to 32 bits (`routes.rs:1653`).
- The comment on `do_restart` (`server.rs:1020`) has it abort if the pane was closed, and
  names only a restart by hand as what could orphan a session. A close after its look
  at the pane (1041) makes the swap (1087) a no-op whose result nobody reads, and the
  session just created runs on with no pane.
- A restart whose session cannot be created is not tried again (`server.rs:1103`),
  a pane the ticker demotes is not restarted, and the retries of a healthy pane are
  only forgiven while somebody follows `/events` (`server.rs:1178`).
- `control/supervisor.rs:199` promises a clean count to a policy that is switched on later;
  `set_policy` keeps `retries_used`.
- `nudge.rs:205` has the cursor of a line return exactly the batch. Two posts can be
  entered in the other order, and the cursor then lies behind the first.
- The line goes to the session that the pane had when the waiter was spawned, and the
  batch is off the ledger by then. A waiter that finds the pane closed leaves the
  ledger waiting, and the pane is never nudged again.

Discovery, store and module host:

- A server aborted between bind and write leaves a `control.json` at a dead port,
  which `server.rs:583` excludes. A refused server is not tried again.
- A failure or a death between the record and the lockfile leaves a version that
  verifies and has no pin; the seeder takes it for installed and never pins it, the
  opposite of `store.rs:153`.
- A failed reinstall takes away a version that was installed: its pin dangles, and
  the next seeding takes it for one the user removed, where `seed.rs:238` says a
  broken install is not one the user could have uninstalled.
- A death between `store.rs:149` and 152 leaves no directory under a pin and a ledger
  entry: the seeder takes it for an uninstall (`seed.rs:270`).
- The ledger is written in place (`seed.rs:341`). One that is cut short reads as empty, and
  every bundled module the user uninstalled comes back.
- `retire_renamed` counts the wreck of a replacement as the replacement, against
  `seed.rs:181`.
- A ledger that could not be saved brings a module back that the user uninstalled;
  `seed.rs:160` expects a redundant seed.
- `docs/marketplace.md:55` has the newest version active; `run_install` activates
  the one it installed.
- `module/supervisor.rs:19` says of a crashed module that a restart is scheduled. It stays
  crashed when it is stopped during the backoff, and when the crash was judged after
  a stop.
- `host.rs:803` says that the rail is not told of a respawn; the waiting thread sends
  `Gone` all the same. `host.rs:1404` has a stop wait for it; the slot is cleared
  first, so that `Gone` may come after the next process registered its entries.
- `module_runtime.rs:497` has a disabled module's child stopped. One that crashed and
  waits for its restart is not live and gets no `Remove`; it runs again.
- After a crash nobody activates the new process, and its entry in the panel is gone
  for good. Nor is an activation that failed or timed out tried again
  (`module_runtime.rs:1201`).
- A registration is handled by the read loop and does not look at the slot's generation
  (`host.rs:1218`): one that comes after the `Gone` of its process stays in the panel.

## Not modelled

The models stand for the parts in which processes, threads or failures meet. The rest
of the repository, by far the larger part of its lines, is the desktop application's
drawing and input, the terminal widget, parsers, encodings, the bundled modules, the
mobile companion and their tests: data and text with one thread each, where a unit
test says more than a state machine. Of the parts that have state of their own and
are left: dictation and speech, the state coalescer and the event ring of the control
server, the requests between host and a running module but activation and registration
(`rpc.rs`), the message broker
(in-process, with no cursor to lose), the Windows twin of the daemon, the
single-instance lock, and fetching and building in the marketplace. Input, resizing
and detaching are left out of the session modules, and the exit the daemon makes up
for a create that failed (`daemon.rs:1302`); grants, signatures and dependencies of the
install store; of the module host the shutdown at quit, the user's activation of an
entry (`Job::Activate`), and what the reconciliation does when the store or a workspace
cannot be read (`module_runtime.rs:988`): nothing starts, or the defaults hold.

## Plan

Order: what would hurt a user most and a test would reach least comes first.

1. Work queue, its observer and runners, its proofs. *Done.*
2. Live upgrade of the daemon, and that a session is driven once, with its proofs. *Done.*
3. Session stream, attached terminal and mirror, with their proofs. *Done.*
4. Claims, panes, mail, discovery, install store, module host, with their proofs.
   *Done.*
5. The event ring with its resume, the state coalescer, dictation.

Abstract specifications worth stating next: a session that is driven by at most
one process (for 2), a terminal that shows a prefix (for 3, one promise for both
clients), and one owner of a name (for the claims and the discovery file).
