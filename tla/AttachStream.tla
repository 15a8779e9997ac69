----------------------------- MODULE AttachStream -----------------------------
(***************************************************************************)
(* avada attach (core/src/session/attach.rs): a terminal with no copy of   *)
(* its own that opens on a session's seed and splices the live stream onto *)
(* it by the cursor.                                                       *)
(***************************************************************************)
EXTENDS SessionStream

CONSTANT MaxRepaints   \* bound: repaints the terminal asks for

ASSUME RepaintsAssumption == MaxRepaints \in Nat

VARIABLES
  pc,          \* how far open and pump_output are
  pending,     \* events that came before the seed
  shown,       \* the chunks on the terminal since it was last cleared
  seedCursor,  \* the splice point
  repaints     \* how many repaints have been asked for

termVars == <<pc, pending, shown, seedCursor, repaints>>
vars == <<streamVars, termVars>>

TypeOK ==
  /\ StreamTypeOK
  /\ dispatcher \in {Idle, NoSeed, Item("asked", 0), Item("subscribed", 0)}
                    \cup {Replay(n) : n \in 0 .. out}
  /\ \A i \in 1 .. Len(queue) :
       queue[i] \in {Exit, NoSeed} \cup {Data(n) : n \in 1 .. out}
                                  \cup {Replay(n) : n \in 0 .. out}
  /\ pc \in {"start", "asking", "open", "ended", "failed"}
  /\ \A i \in 1 .. Len(pending) : pending[i] \in {Exit} \cup {Data(n) : n \in 1 .. out}
  /\ \A i \in 1 .. Len(shown) : shown[i] \in 1 .. out
  /\ seedCursor \in 0 .. out
  /\ repaints \in 0 .. MaxRepaints

Init ==
  /\ StreamInit /\ life = "running"
  /\ pc = "start" /\ pending = <<>> /\ shown = <<>>
  /\ seedCursor = 0 /\ repaints = 0

-----------------------------------------------------------------------------

SendAttach ==
  /\ dispatcher = Idle
  /\ dispatcher' = Item("asked", 0)
  /\ UNCHANGED <<daemonVars, attached, forwarder, queue, spoiled>>

Open ==
  /\ pc = "start"
  /\ SendAttach
  /\ pc' = "asking"
  /\ UNCHANGED <<pending, shown, seedCursor, repaints>>

\* SIGWINCH under ResizePolicy::Observe: attach again, as a pure read.
RequestRepaint ==
  /\ pc = "open" /\ repaints < MaxRepaints
  /\ SendAttach
  /\ repaints' = repaints + 1
  /\ UNCHANGED <<pc, pending, shown, seedCursor>>

\* The rest of the client reads the next message.
Read ==
  /\ queue # <<>>
  /\ queue' = Tail(queue)
  /\ UNCHANGED <<daemonVars, attached, forwarder, dispatcher>>

\* Before the seed, events wait.
Stash ==
  /\ pc = "asking"
  /\ Read
  /\ ~IsSeed(Head(queue))
  /\ pending' = Append(pending, Head(queue))
  /\ UNCHANGED <<spoiled, pc, shown, seedCursor, repaints>>

ReadSeed ==
  /\ pc = "asking"
  /\ Read
  /\ IsSeed(Head(queue))
  /\ pc' = "open"
  /\ shown' = UpTo(Head(queue).at)
  /\ seedCursor' = Head(queue).at
  /\ UNCHANGED <<spoiled, pending, repaints>>

\* REQUEST_TIMEOUT passes without a seed.
OpenTimesOut ==
  /\ pc = "asking"
  /\ pc' = "failed"
  /\ UNCHANGED <<streamVars, pending, shown, seedCursor, repaints>>

\* Slip: output that ends at the splice point is painted again.
PaintedAtSplice(item) ==
  CASE IsSeed(item) -> UpTo(item.at)
    [] item.kind = "data" /\ item.at >= seedCursor -> Append(shown, item.at)
    [] OTHER -> shown

\* A seed clears the terminal; of the live output only what is past the splice
\* point is painted.
Painted(item) ==
  CASE IsSeed(item) -> UpTo(item.at)
    [] item.kind = "data" /\ item.at > seedCursor -> Append(shown, item.at)
    [] OTHER -> shown

\* Slip: the exit is dropped by the splice point, as output is.
EndsPastSplice(item) == item.kind = "exit" /\ item.at > seedCursor

Ends(item) == item.kind = "exit"

\* The terminal shows output past n.
Newer(n) == shown # <<>> /\ shown[Len(shown)] > n

\* write_event, and the repaint of pump_output.
Paint(item) ==
  /\ pc' = IF Ends(item) THEN "ended" ELSE pc
  /\ shown' = Painted(item)
  /\ seedCursor' = IF IsSeed(item) /\ item.at > seedCursor
                   THEN item.at ELSE seedCursor

PumpPending ==
  /\ pc = "open" /\ pending # <<>>
  /\ Paint(Head(pending))
  /\ pending' = Tail(pending)
  /\ UNCHANGED <<streamVars, repaints>>

PumpOutput ==
  /\ pc = "open" /\ pending = <<>>
  /\ Read
  /\ Paint(Head(queue))
  /\ Note({m \in {"overtaken"} : IsSeed(Head(queue)) /\ Newer(Head(queue).at)})
  /\ UNCHANGED <<pending, repaints>>

ClientStep == Open \/ Stash \/ ReadSeed \/ PumpPending \/ PumpOutput

Next ==
  \/ StreamNext /\ UNCHANGED termVars
  \/ ClientStep \/ RequestRepaint \/ OpenTimesOut

Spec == Init /\ [][Next]_vars

\* Tasks and threads of the daemon and the client's loop run; the session
\* need not output or exit, and nobody need ask for a repaint.
FairSpec ==
  /\ Spec
  /\ WF_vars(Pump /\ UNCHANGED termVars)
  /\ WF_vars(DispatchStep /\ UNCHANGED termVars)
  /\ WF_vars(ForwardStep /\ UNCHANGED termVars)
  /\ WF_vars(ClientStep)

-----------------------------------------------------------------------------
\* The terminal shows the output of the session from its first chunk on, with
\* no chunk missing, doubled or out of order, across the seam between seed and
\* stream, a lagging bus and repaints; unless one of the named mishaps (a full
\* queue, a session that has left the registry, an overtaken repaint) met it.
ShownSeamless == spoiled = {} => shown = UpTo(Len(shown))

\* When the terminal is told of the exit, everything the session ever output
\* is on it.
EndsComplete == spoiled = {} /\ pc = "ended" => Len(shown) = out

\* A terminal follows its session to the end: after the child exits, the
\* terminal is told, or a named mishap is the reason why not.
ExitIsTold ==
  (life \in {"exited", "forgotten"}) ~> (pc \in {"ended", "failed"} \/ spoiled # {})

\* A repaint "is a pure read" (attach.rs, request_repaint): while the client
\* keeps up and the session lives, it costs no output.
RepaintKeepsOutput ==
  spoiled \cap {"full", "gone"} = {} => shown = UpTo(Len(shown))
=============================================================================
