---------------------------- MODULE MirrorStream ----------------------------
(***************************************************************************)
(* The application's copy of one session                                   *)
(* (core/src/session/daemon_client.rs): a shadow with a mirror of the      *)
(* output and a count of it.  It is filled by the daemon's answers, by the *)
(* live stream, and by snapshots of the whole session table that the       *)
(* daemon pushes, and it outlives the connection.                          *)
(***************************************************************************)
EXTENDS SessionStream

CONSTANTS
  MaxEvents    \* bound: kills, pushes for other connections, lost connections

ASSUME MirrorAssumption == MaxEvents \in Nat

VARIABLES
  shadow,      \* the client's entry for the session
  link,        \* how far the client is with its connection
  notes,       \* notices the connection's receiver has not had yet
  draft,       \* a snapshot another connection's thread has taken, not yet sent
  sampled,     \* whether the daemon's foreground watcher last saw the session
  events,      \* how many of those there have been
  lapses       \* history: what has gone wrong for the mirror

mirrorVars == <<shadow, link, notes, draft, sampled, events, lapses>>
vars == <<streamVars, mirrorVars>>

\* session_metas, as far as it is about this session: its output_bytes.
Absent == -1
Snapshot == IF InRegistry THEN out ELSE Absent
Snapshots == {Absent} \cup 0 .. out

Changed(snapshot)  == Item("changed", snapshot)
Sessions(snapshot) == Item("sessions", snapshot)
NoDraft == Item("noDraft", 0)

\* primed is history: the mirror starts at the session's first chunk, by a seed
\* of this connection or because this connection created the session.
NoShadow == [there |-> FALSE, pending |-> FALSE, text |-> <<>>, bytes |-> 0,
             primed |-> FALSE]

\* behind     the shadow counted less output than the stream had reached
\* dismissed  the entry was removed by a snapshot, or by the client's own kill,
\*            with messages still on their way; the exit comes after all output
\* haunted    a message other than a snapshot without the session left or put an
\*            entry there when it had ended and was not in the watcher's sample
\* orphaned   the connection dropped with a Create that was not confirmed
Lapses == {"behind", "dismissed", "haunted", "orphaned"}

TypeOK ==
  /\ StreamTypeOK
  /\ dispatcher \in {Idle, NoSeed} \cup {Replay(n) : n \in 0 .. out}
        \cup {Item(k, 0) : k \in {"asked", "subscribed", "create", "list", "kill"}}
        \cup {Sessions(s) : s \in Snapshots}
  /\ \A i \in 1 .. Len(queue) :
       queue[i] \in {Exit, NoSeed} \cup {Data(n) : n \in 1 .. out}
                    \cup {Replay(n) : n \in 0 .. out}
                    \cup {Changed(s) : s \in Snapshots} \cup {Sessions(s) : s \in Snapshots}
  /\ shadow.there \in BOOLEAN /\ shadow.pending \in BOOLEAN /\ shadow.primed \in BOOLEAN
  /\ \A i \in 1 .. Len(shadow.text) : shadow.text[i] \in 1 .. out
  /\ shadow.bytes \in Nat
  /\ ~shadow.there => shadow = NoShadow
  /\ link \in {"seeding", "up", "down", "resync"}
  /\ \A i \in 1 .. Len(notes) : notes[i] \in {Changed(s) : s \in Snapshots}
  /\ draft \in {NoDraft} \cup {Changed(s) : s \in Snapshots}
  /\ sampled \in BOOLEAN
  /\ events \in 0 .. MaxEvents
  /\ lapses \subseteq Lapses

\* At launch the client asks for the sessions there are.
Init ==
  /\ StreamInit
  /\ shadow = NoShadow /\ link = "seeding"
  /\ notes = <<>> /\ draft = NoDraft /\ sampled = FALSE
  /\ events = 0 /\ lapses = {}

-----------------------------------------------------------------------------
(* The daemon: snapshots and where they are pushed.                        *)

OneMore == events < MaxEvents /\ events' = events + 1

\* The pump: at an exit it pushes a snapshot before the event.
PumpAndTell ==
  /\ Pump
  /\ notes' = IF Head(emitted) = Exit THEN Append(notes, Changed(Snapshot)) ELSE notes
  /\ UNCHANGED <<shadow, link, draft, sampled, events, lapses>>

\* The foreground watcher pushes when what it sees has changed.
Watch ==
  /\ sampled # InRegistry
  /\ sampled' = InRegistry
  /\ notes' = Append(notes, Changed(Snapshot))
  /\ UNCHANGED <<streamVars, shadow, link, draft, events, lapses>>

\* Another connection's thread takes a snapshot for something of its own
\* (a Hello, a create, a kill), and sends it in a second step.
TakeSnapshot ==
  /\ OneMore
  /\ draft = NoDraft
  /\ draft' = Changed(Snapshot)
  /\ UNCHANGED <<streamVars, shadow, link, notes, sampled, lapses>>

SendSnapshot ==
  /\ draft # NoDraft
  /\ notes' = Append(notes, draft)
  /\ draft' = NoDraft
  /\ UNCHANGED <<streamVars, shadow, link, sampled, events, lapses>>

KillAndTell ==
  /\ OneMore
  /\ Kill
  /\ notes' = Append(notes, Changed(Absent))
  /\ UNCHANGED <<shadow, link, draft, sampled, lapses>>

\* The forwarder looks at the bus first (a biased select) and drops a notice
\* that does not fit.
ForwardNotice ==
  /\ link # "down"
  /\ forwarder = Idle /\ unread = <<>> /\ notes # <<>>
  /\ notes' = Tail(notes)
  /\ queue' = IF Fits THEN Append(queue, Head(notes)) ELSE queue
  /\ Note({m \in {"full"} : ~Fits})
  /\ UNCHANGED <<daemonVars, attached, forwarder, dispatcher,
                 shadow, link, draft, sampled, events, lapses>>

-----------------------------------------------------------------------------
(* The daemon: what this client asks for.                                  *)

\* The creator is attached before the session is born.
DispatchCreate ==
  /\ dispatcher.kind = "create"
  /\ dispatcher' = Idle
  /\ attached' = TRUE
  /\ life' = "running"
  /\ notes' = Append(notes, Changed(0))
  /\ UNCHANGED <<out, emitted, unread, noise, forwarder, queue, spoiled,
                 shadow, link, draft, sampled, events, lapses>>

DispatchKill ==
  /\ dispatcher.kind = "kill"
  /\ dispatcher' = Idle
  /\ life' = IF life = "running" THEN "killed"
             ELSE IF life = "exited" THEN "forgotten" ELSE life
  /\ notes' = Append(notes, Changed(Absent))
  /\ UNCHANGED <<out, emitted, unread, noise, attached, forwarder, queue,
                 spoiled, shadow, link, draft, sampled, events, lapses>>

TakeList ==
  /\ dispatcher.kind = "list"
  /\ dispatcher' = Sessions(Snapshot)
  /\ UNCHANGED <<daemonVars, attached, forwarder, queue, spoiled, mirrorVars>>

ReplyToList ==
  /\ dispatcher.kind = "sessions"
  /\ Fits
  /\ queue' = Append(queue, dispatcher)
  /\ dispatcher' = Idle
  /\ UNCHANGED <<daemonVars, attached, forwarder, spoiled, mirrorVars>>

-----------------------------------------------------------------------------
(* The client's shadow.                                                    *)

Larger(m, n) == IF m > n THEN m ELSE n

\* entry().or_insert_with(Shadow::new)
Entry(sh) == IF sh.there THEN sh ELSE [NoShadow EXCEPT !.there = TRUE]

\* Slip: the seed replaces the mirror, live output included.
SeedOnly(sh, cursor) ==
  [Entry(sh) EXCEPT !.text = UpTo(cursor), !.bytes = Larger(@, cursor), !.primed = TRUE]

\* splice_replay: the seed, and after it as much of the mirror's end as the
\* shadow has counted beyond the seed's cursor.
Spliced(sh, cursor) ==
  LET length == Len(sh.text)
      ahead  == Larger(sh.bytes - cursor, 0)
      kept   == IF ahead < length THEN ahead ELSE length
  IN  [Entry(sh) EXCEPT !.text = UpTo(cursor) \o SubSeq(sh.text, length - kept + 1, length),
                        !.bytes = Larger(@, cursor),
                        !.primed = TRUE]

\* Slip: a shadow that the snapshot omits is kept.
KeepsOmitted(sh, snapshot) ==
  IF snapshot = Absent THEN sh
  ELSE [Entry(sh) EXCEPT !.pending = FALSE, !.bytes = Larger(@, snapshot)]

\* reconcile_snapshot
Reconciled(sh, snapshot) ==
  IF snapshot = Absent
  THEN IF sh.pending THEN sh ELSE NoShadow
  ELSE [Entry(sh) EXCEPT !.pending = FALSE, !.bytes = Larger(@, snapshot)]

\* The reader: apply_event_to_shadow, splice_replay and reconcile_snapshot.
Folded(sh, item) ==
  CASE item.kind = "data" ->
         [Entry(sh) EXCEPT !.text = Append(@, item.at), !.bytes = @ + 1]
    [] item.kind = "exit" -> NoShadow
    [] item.kind = "replay" -> Spliced(sh, item.at)
    [] item.kind = "changed" -> Reconciled(sh, item.at)
    [] OTHER -> sh

Remember(sh, new, item) ==
  lapses' = lapses
    \cup {m \in {"behind"} : item.kind = "data" /\ new.bytes < item.at}
    \cup {m \in {"dismissed"} : sh.there /\ ~new.there /\ item # Exit}
    \cup {m \in {"haunted"} : /\ new.there /\ item # Changed(Absent)
                              /\ life \notin {"unborn", "running"} /\ ~sampled}

TakeMessage ==
  /\ queue # <<>>
  /\ queue' = Tail(queue)
  /\ UNCHANGED <<daemonVars, attached, forwarder, spoiled>>

\* reader_loop
ReadMessage ==
  /\ TakeMessage
  /\ Head(queue).kind # "sessions"
  /\ shadow' = Folded(shadow, Head(queue))
  /\ Remember(shadow, shadow', Head(queue))
  /\ UNCHANGED <<dispatcher, link, notes, draft, sampled, events>>

AttachIfListed(item) ==
  /\ dispatcher = Idle
  /\ dispatcher' = IF item.at = Absent THEN Idle ELSE Item("asked", 0)

\* seed_from_daemon: the answer at launch.
ReadSessionsAtLaunch ==
  /\ link = "seeding" /\ TakeMessage
  /\ Head(queue).kind = "sessions"
  /\ shadow' = IF Head(queue).at = Absent THEN shadow
               ELSE [Entry(shadow) EXCEPT !.bytes = Head(queue).at]
  /\ Remember(shadow, shadow', Head(queue))
  /\ AttachIfListed(Head(queue))
  /\ link' = "up"
  /\ UNCHANGED <<notes, draft, sampled, events>>

\* resync: the answer after a reconnect.
Resync ==
  /\ link = "resync" /\ TakeMessage
  /\ Head(queue).kind = "sessions"
  /\ shadow' = Reconciled(shadow, Head(queue).at)
  /\ Remember(shadow, shadow', Head(queue))
  /\ AttachIfListed(Head(queue))
  /\ link' = "up"
  /\ UNCHANGED <<notes, draft, sampled, events>>

-----------------------------------------------------------------------------
(* The client's requests and its connection.                               *)

Send(request) ==
  /\ dispatcher = Idle
  /\ dispatcher' = Item(request, 0)
  /\ UNCHANGED <<daemonVars, attached, forwarder, queue, spoiled>>

List ==
  /\ link = "seeding" /\ queue = <<>>
  /\ Send("list")
  /\ UNCHANGED mirrorVars

Create ==
  /\ link = "up" /\ life = "unborn" /\ ~shadow.there
  /\ Send("create")
  /\ shadow' = [NoShadow EXCEPT !.there = TRUE, !.pending = TRUE, !.primed = TRUE]
  /\ UNCHANGED <<link, notes, draft, sampled, events, lapses>>

KillOwn ==
  /\ OneMore
  /\ link = "up" /\ shadow.there
  /\ Send("kill")
  /\ shadow' = NoShadow
  /\ lapses' = lapses \cup {"dismissed"}
  /\ UNCHANGED <<link, notes, draft, sampled>>

\* The socket drops, with everything on it.
Drop ==
  /\ OneMore
  /\ link # "down"
  /\ link' = "down"
  /\ shadow' = [shadow EXCEPT !.primed = FALSE]
  /\ attached' = FALSE /\ forwarder' = Idle /\ dispatcher' = Idle
  /\ queue' = <<>> /\ unread' = <<>> /\ notes' = <<>>
  /\ lapses' = lapses \cup {m \in {"orphaned"} : shadow.pending}
  /\ UNCHANGED <<life, out, emitted, noise, spoiled, draft, sampled>>

\* reconnect, adopt: the new connection hears what is broadcast from now on, the
\* daemon's answer to Hello pushes a snapshot, and a ListSessions is on its way.
Redial ==
  /\ link = "down"
  /\ link' = "resync"
  /\ dispatcher' = Item("list", 0)
  /\ unread' = <<>>
  /\ notes' = <<Changed(Snapshot)>>
  /\ UNCHANGED <<life, out, emitted, noise, attached, forwarder, queue,
                 spoiled, shadow, draft, sampled, events, lapses>>

-----------------------------------------------------------------------------

DaemonStep ==
  \/ PumpAndTell \/ Watch \/ SendSnapshot \/ ForwardNotice
  \/ DispatchCreate \/ DispatchKill \/ TakeList \/ ReplyToList
  \/ (DispatchStep \/ ForwardStep) /\ UNCHANGED mirrorVars

ClientStep == List \/ ReadMessage \/ ReadSessionsAtLaunch \/ Resync \/ Redial

Next ==
  \/ DaemonStep \/ ClientStep
  \/ DriverStep /\ UNCHANGED mirrorVars
  \/ TakeSnapshot \/ KillAndTell
  \/ Create \/ KillOwn \/ Drop

Spec == Init /\ [][Next]_vars

-----------------------------------------------------------------------------
\* Whatever chunk stands in the text, all before it stand in it earlier.
Gapless(text) ==
  \A i \in 1 .. Len(text) : \A n \in 1 .. text[i] - 1 : \E j \in 1 .. i - 1 : text[j] = n

\* What the mirror holds is the session's output from the first chunk on, in
\* order and with no chunk missing, whatever seeds, lags and reconnects went
\* into it; chunks may come twice.  Not so only if an event was dropped (full),
\* the session was gone when asked (gone), the count was behind the stream, or
\* the entry had been dismissed.
MirrorKeepsAll ==
  shadow.primed /\ spoiled \cap {"full", "gone"} = {} /\ lapses \cap {"behind", "dismissed"} = {}
    => Gapless(shadow.text)

AtRest ==
  /\ link = "up" /\ dispatcher = Idle /\ forwarder = Idle
  /\ emitted = <<>> /\ unread = <<>> /\ notes = <<>> /\ draft = NoDraft /\ queue = <<>>

\* When nothing is under way for a session that runs, the client has an entry
\* for it and its mirror holds everything the session has output.
RestsComplete ==
  AtRest /\ attached /\ life = "running" /\ spoiled \cap {"full", "gone"} = {}
         /\ lapses \cap {"behind", "dismissed"} = {}
    => shadow.there /\ {shadow.text[i] : i \in 1 .. Len(shadow.text)} = 1 .. out

\* A session that has ended does not stay in the client's list.  Its exit or a
\* kill may leave the entry behind, a late message or an old snapshot may bring
\* it back; the watcher's push removes it all the same, unless the watcher had
\* no sample of the session then, the push was dropped, or the connection was
\* lost before the client's own create was confirmed.
GhostsFade ==
  AtRest /\ life \in {"forgotten", "killed", "silent"} /\ sampled = InRegistry
         /\ lapses \cap {"haunted", "orphaned"} = {} /\ "full" \notin spoiled
    => ~shadow.there
=============================================================================
