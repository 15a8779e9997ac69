---------------------------- MODULE SessionStream ----------------------------
(***************************************************************************)
(* The output of one session on its way to one connection of the daemon:   *)
(* the driver task flushes it (core/src/session_manager.rs), the pump puts *)
(* it on the broadcast bus, and for each connection a forwarder task and   *)
(* the thread that dispatches requests put messages on the queue that the  *)
(* writer drains into the socket (core/src/session/daemon.rs).             *)
(*                                                                         *)
(* The output is counted in flushed chunks: chunk n is what output_bytes   *)
(* counts between its (n-1)th and nth flush.  A seed is the repaint of     *)
(* chunks 1 .. cursor.                                                     *)
(***************************************************************************)
EXTENDS Integers, Sequences

CONSTANTS
  BusCap,      \* events the bus retains for a slow receiver
  QueueCap,    \* CONN_QUEUE_CAP, with what the socket takes in
  MaxOut,      \* bound: chunks the session outputs
  MaxNoise     \* bound: events of other sessions

ASSUME CapsAssumption ==
  /\ BusCap \in Nat \ {0} /\ QueueCap \in Nat \ {0}
  /\ MaxOut \in Nat /\ MaxNoise \in Nat

VARIABLES
  life,        \* of the session: its shell, and its entry in the registry
  out,         \* output_bytes: chunks flushed so far
  emitted,     \* events between the driver and the pump
  unread,      \* broadcast events the connection's receiver is not past yet
  noise,       \* how many events of other sessions have been broadcast
  attached,    \* whether the connection's attach-set has the session
  forwarder,   \* what the forwarder task is at
  dispatcher,  \* what the connection's dispatching thread is at
  queue,       \* messages on their way to the client
  spoiled      \* history: what has gone wrong for this client

daemonVars == <<life, out, emitted, unread, noise>>
connVars   == <<attached, forwarder, dispatcher, queue, spoiled>>
streamVars == <<daemonVars, connVars>>

Item(kind, at) == [kind |-> kind, at |-> at]
Data(n)   == Item("data", n)
Exit      == Item("exit", 0)
Other     == Item("other", 0)
Replay(n) == Item("replay", n)
NoSeed    == Item("noSeed", 0)
Idle      == Item("idle", 0)

\* The output a seed at n repaints.
UpTo(n) == [i \in 1 .. n |-> i]

IsSeed(item) == item.kind \in {"replay", "noSeed"}

\* full       an event did not fit the queue and was dropped
\* late       the exit was broadcast before the client had attached
\* overrun    the bus overwrote the exit
\* gone       a seed was asked for after the session had left the registry
\* overtaken  a later seed came behind newer output than it covers
Mishaps == {"full", "late", "overrun", "gone", "overtaken"}

Note(mishaps) == spoiled' = spoiled \cup mishaps

StreamTypeOK ==
  /\ life \in {"unborn", "running", "exited", "forgotten", "killed", "silent"}
  /\ out \in 0 .. MaxOut
  /\ \A i \in 1 .. Len(emitted) : emitted[i] \in {Exit} \cup {Data(n) : n \in 1 .. out}
  /\ \A i \in 1 .. Len(unread) : unread[i] \in {Exit, Other} \cup {Data(n) : n \in 1 .. out}
  /\ noise \in 0 .. MaxNoise
  /\ attached \in BOOLEAN
  /\ forwarder \in {Idle, NoSeed, Item("resync", 0)} \cup {Replay(n) : n \in 0 .. out}
  /\ Len(queue) <= QueueCap
  /\ spoiled \subseteq Mishaps

StreamInit ==
  /\ life \in {"unborn", "running"} /\ out = 0 /\ emitted = <<>>
  /\ unread = <<>> /\ noise = 0
  /\ attached = FALSE /\ forwarder = Idle /\ dispatcher = Idle
  /\ queue = <<>>
  /\ spoiled = {}

-----------------------------------------------------------------------------
(* The driver task of the session (drive_session) and the pump.            *)

\* flush_into: replay, screen and cursor move together under the replay lock.
Flush ==
  /\ life \in {"running", "killed"}
  /\ out < MaxOut
  /\ out' = out + 1
  /\ emitted' = Append(emitted, Data(out + 1))
  /\ UNCHANGED <<life, unread, noise, connVars>>

\* on_exit: the remaining output has been flushed; a killed session is silent.
ChildExits ==
  /\ \/ life = "running" /\ life' = "exited" /\ emitted' = Append(emitted, Exit)
     \/ life = "killed" /\ life' = "silent" /\ UNCHANGED emitted
  /\ UNCHANGED <<out, unread, noise, connVars>>

\* The driver takes the session out of the registry when it is done.
Forget ==
  /\ life = "exited"
  /\ life' = "forgotten"
  /\ UNCHANGED <<out, emitted, unread, noise, connVars>>

\* Some client kills the session: it leaves the registry at once.
Kill ==
  /\ life = "running"
  /\ life' = "killed"
  /\ UNCHANGED <<out, emitted, unread, noise, connVars>>

Pump ==
  /\ emitted # <<>>
  /\ unread' = Append(unread, Head(emitted))
  /\ emitted' = Tail(emitted)
  /\ UNCHANGED <<life, out, noise, connVars>>

PumpOther ==
  /\ noise < MaxNoise
  /\ noise' = noise + 1
  /\ unread' = Append(unread, Other)
  /\ UNCHANGED <<life, out, emitted, connVars>>

-----------------------------------------------------------------------------
(* Seeds and the queue.                                                    *)

InRegistry == life \in {"running", "exited"}

\* seed_with_cursor, or the empty default of a session that is not there.
Seed == IF InRegistry THEN Replay(out) ELSE NoSeed

Fits == Len(queue) < QueueCap

\* A blocking send of a Replay.
Reply(seed) ==
  /\ Fits
  /\ queue' = Append(queue, seed)
  /\ UNCHANGED spoiled

-----------------------------------------------------------------------------
(* The dispatching thread: Attach.                                         *)

Subscribe ==
  /\ dispatcher.kind = "asked"
  /\ attached' = TRUE
  /\ dispatcher' = Item("subscribed", 0)
  /\ UNCHANGED <<daemonVars, forwarder, queue, spoiled>>

TakeSeed ==
  /\ dispatcher.kind = "subscribed"
  /\ dispatcher' = Seed
  /\ Note({m \in {"gone"} : ~InRegistry})
  /\ UNCHANGED <<daemonVars, attached, forwarder, queue>>

ReplyToAttach ==
  /\ IsSeed(dispatcher)
  /\ Reply(dispatcher)
  /\ dispatcher' = Idle
  /\ UNCHANGED <<daemonVars, attached, forwarder>>

-----------------------------------------------------------------------------
(* The forwarder task (forward_broadcasts).                                *)

Lagging == Len(unread) > BusCap

\* What the bus still retains of it.
Retained == SubSeq(unread, Len(unread) - BusCap + 1, Len(unread))

Overwrites(event) == \E i \in 1 .. Len(unread) - BusCap : unread[i] = event

\* One event of the bus: for another session, not attached, queued, or dropped
\* because the queue is full.
Forward ==
  /\ forwarder = Idle /\ unread # <<>> /\ ~Lagging
  /\ unread' = Tail(unread)
  /\ LET event  == Head(unread)
         wanted == attached /\ event # Other
     IN  /\ queue' = IF wanted /\ Fits THEN Append(queue, event) ELSE queue
         /\ Note({m \in {"full"} : wanted /\ ~Fits}
                 \cup {m \in {"late"} : ~attached /\ event = Exit})
  /\ UNCHANGED <<life, out, emitted, noise, attached, forwarder, dispatcher>>

\* Slip: a lag is passed over.
LagIgnored ==
  /\ forwarder = Idle /\ Lagging
  /\ unread' = Retained
  /\ Note({m \in {"overrun"} : Overwrites(Exit)})
  /\ UNCHANGED <<life, out, emitted, noise, attached, forwarder, dispatcher, queue>>

\* The bus has overwritten events: skip to the oldest it retains and reseed.
Lag ==
  /\ forwarder = Idle /\ Lagging
  /\ unread' = Retained
  /\ forwarder' = IF attached THEN Item("resync", 0) ELSE Idle
  /\ Note({m \in {"overrun"} : Overwrites(Exit)})
  /\ UNCHANGED <<life, out, emitted, noise, attached, dispatcher, queue>>

TakeResync ==
  /\ forwarder.kind = "resync"
  /\ forwarder' = Seed
  /\ Note({m \in {"gone"} : ~InRegistry})
  /\ UNCHANGED <<daemonVars, attached, dispatcher, queue>>

SendResync ==
  /\ IsSeed(forwarder)
  /\ Reply(forwarder)
  /\ forwarder' = Idle
  /\ UNCHANGED <<daemonVars, attached, dispatcher>>

-----------------------------------------------------------------------------

DriverStep == Flush \/ ChildExits \/ Forget
DispatchStep == Subscribe \/ TakeSeed \/ ReplyToAttach
ForwardStep == Forward \/ Lag \/ TakeResync \/ SendResync

StreamNext ==
  DriverStep \/ Kill \/ Pump \/ PumpOther \/ DispatchStep \/ ForwardStep

=============================================================================
