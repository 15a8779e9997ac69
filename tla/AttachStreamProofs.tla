-------------------------- MODULE AttachStreamProofs --------------------------
(***************************************************************************)
(* Proofs about the attach client, for any capacity of the bus and of the  *)
(* queue and any amount of output: what the terminal shows is the output   *)
(* from its first chunk on, without a seam.                                *)
(***************************************************************************)
EXTENDS AttachStream, SessionStreamProofs

-----------------------------------------------------------------------------
(* The invariant.                                                          *)

TypeInv ==
  /\ life \in {"running", "exited", "forgotten", "killed", "silent"}
  /\ out \in 0 .. MaxOut /\ noise \in 0 .. MaxNoise
  /\ emitted \in Seq(Msgs({"data", "exit"}, out))
  /\ unread \in Seq(Msgs({"data", "exit", "other"}, out))
  /\ queue \in Seq(Msgs({"data", "exit", "replay", "noSeed"}, out)) /\ Len(queue) <= QueueCap
  /\ pending \in Seq(Msgs({"data", "exit"}, out))
  /\ forwarder \in Msgs({"idle", "resync", "replay", "noSeed"}, out)
  /\ dispatcher \in Msgs({"idle", "asked", "subscribed", "replay", "noSeed"}, out)
  /\ attached \in BOOLEAN /\ spoiled \in SUBSET Mishaps
  /\ pc \in {"start", "asking", "open", "ended", "failed"}
  /\ shown \in Seq(1 .. out) /\ seedCursor \in 0 .. out /\ repaints \in 0 .. MaxRepaints

\* What waits at the terminal, and all that waits.
Pending == Ranks(pending, out)
OnItsWay == Pending \cup Queued \cup Unread \cup Coming

\* Output is on its way in order.
OrderInv ==
  /\ Rising(pending, out) /\ Rising(queue, out) /\ Rising(unread, out) /\ Rising(emitted, out)
  /\ AllBefore(Pending, Queued) /\ AllBefore(Pending, Unread) /\ AllBefore(Pending, Coming)
  /\ AllBefore(Queued, Unread) /\ AllBefore(Queued, Coming)
  /\ AllBefore(Unread, Coming)

\* Nothing is sent before the client has attached, nothing shown before it has a seed, and
\* no exit is on its way of a session that has not ended.
PhaseInv ==
  /\ pc = "start" => ~attached /\ dispatcher = Idle
  /\ ~attached => /\ pc \in {"start", "asking", "failed"}
                  /\ queue = <<>> /\ pending = <<>> /\ forwarder = Idle
                  /\ dispatcher.kind \in {"idle", "asked"}
  /\ pc \in {"start", "asking", "failed"} => shown = <<>> /\ seedCursor = 0
  /\ out + 1 \in OnItsWay \/ pc = "ended" => life \in {"exited", "forgotten"}

\* The first k chunks will be on the terminal before it takes anything that waits: they are
\* shown, or within each seed that may come first.
Reached(k) ==
  IF pc = "open" THEN k <= Len(shown)
  ELSE /\ forwarder.kind = "replay" => k <= forwarder.at
       /\ dispatcher.kind = "replay" => k <= dispatcher.at
       /\ \A i \in 1 .. Len(queue) : queue[i].kind = "replay" => k <= queue[i].at

\* Whatever waits finds the output before it on the terminal, by what waits ahead of it.
PendingFollows == \A x \in Pending : Reached(x - 1) \/ x - 1 \in Pending

QueueFollows ==
  \A i \in 1 .. Len(queue) : Ranked(queue[i]) =>
    LET k == Rank(queue[i], out) - 1
    IN  Reached(k) \/ k \in Pending \cup Queued \/ SeedBefore(k, i)

Covered(k) ==
  Reached(k) \/ k \in OnItsWay \/ SeedBefore(k, Len(queue) + 1) \/ ByForwarder(k)

RestFollows == \A x \in Unread \cup Coming \cup {out + 1} : Covered(x - 1)

Seamless == PendingFollows /\ QueueFollows /\ RestFollows

NoneGone ==
  /\ forwarder.kind # "noSeed" /\ dispatcher.kind # "noSeed"
  /\ \A i \in 1 .. Len(queue) : queue[i].kind # "noSeed"

\* The terminal shows a beginning of the output, and what waits is new to it or is within
\* the splice point.
TerminalInv ==
  /\ pc \in {"open", "ended"} =>
       shown = UpTo(Len(shown)) /\ Len(shown) <= out /\ seedCursor <= Len(shown)
  /\ pc = "open" => \A x \in OnItsWay : x > Len(shown) \/ x <= seedCursor
  /\ pc = "ended" => Len(shown) = out

IInv ==
  /\ TypeInv /\ OrderInv /\ PhaseInv
  /\ spoiled = {} =>
       NoneGone /\ TerminalInv /\ (attached /\ pc \in {"asking", "open"} => Seamless)

-----------------------------------------------------------------------------
(* Types.                                                                  *)

\* The messages of the stream are at a chunk, or at none.
LEMMA StreamMsgs ==
  ASSUME NEW o \in Nat, NEW m \in Msgs({"data", "exit", "replay", "noSeed"}, o)
  PROVE  m.kind \in {"data", "exit", "replay", "noSeed"} /\ m.at \in 0 .. o /\ (m.kind = "data" => m.at \in 1 .. o)
<1>1. m.kind \in {"data", "exit", "replay", "noSeed"}
  BY MsgKinds
<1>2. m.kind \notin {"changed", "sessions"}
  BY <1>1
<1> QED BY <1>1, <1>2, MsgKinds

\* The seed of a session: all it has output, or none when the registry lost it.
LEMMA SeedIs ==
  ASSUME TypeInv
  PROVE  /\ Seed \in Msgs({"replay", "noSeed"}, out)
         /\ Seed = IF InRegistry THEN Replay(out) ELSE NoSeed
<1>1. out \in 0 .. out /\ out \in Nat
  BY DEF TypeInv
<1> QED BY <1>1, MsgIs DEF Seed, NoSeed

\* The steps of the driver and the pump.
LEMMA DriverType ==
  ASSUME TypeInv, DriverStep \/ Kill \/ Pump \/ PumpOther, UNCHANGED termVars
  PROVE  TypeInv'
<1> USE DEF TypeInv, termVars, connVars
<1>0. out \in Nat /\ MaxOut \in Nat
  BY CapsAssumption
<1>1. CASE Flush
  <2>1. out' = out + 1 /\ out' \in 0 .. MaxOut /\ out' \in Nat /\ out <= out'
    BY <1>0, <1>1 DEF Flush
  <2>2. \A kinds : Msgs(kinds, out) \subseteq Msgs(kinds, out') /\ Seq(Msgs(kinds, out)) \subseteq Seq(Msgs(kinds, out'))
    BY <1>0, <2>1, MsgsGrow
  <2>3. Data(out + 1) \in Msgs({"data", "exit"}, out')
    BY <2>1, MsgIs
  <2>4. emitted' \in Seq(Msgs({"data", "exit"}, out'))
    <3>1. emitted \in Seq(Msgs({"data", "exit"}, out'))
      BY <2>2
    <3>2. emitted' = Append(emitted, Data(out + 1))
      BY <1>1 DEF Flush
    <3> QED BY <3>1, <3>2, <2>3, AppendShape
  <2>5. shown \in Seq(1 .. out') /\ seedCursor \in 0 .. out'
    <3>1. 1 .. out \subseteq 1 .. out'
      BY <2>1
    <3> QED BY <2>1, <3>1, SeqGrow
  <2>6. UNCHANGED <<life, unread, noise, attached, forwarder, dispatcher, queue, spoiled,
                    pc, pending, shown, seedCursor, repaints>>
    BY <1>1 DEF Flush
  <2> QED BY <2>1, <2>2, <2>4, <2>5, <2>6
<1>2. CASE ChildExits
  <2>1. Exit \in Msgs({"data", "exit"}, out)
    BY <1>0, MsgIs, KindsApart
  <2>2. Append(emitted, Exit) \in Seq(Msgs({"data", "exit"}, out))
    BY <2>1, AppendShape
  <2> QED BY <1>2, <2>2 DEF ChildExits
<1>3. CASE Forget \/ Kill
  BY <1>3 DEF Forget, Kill
<1>4. CASE Pump
  <2>1. Head(emitted) \in Msgs({"data", "exit"}, out) /\ Tail(emitted) \in Seq(Msgs({"data", "exit"}, out))
    BY <1>4, TailShape DEF Pump
  <2>2. Head(emitted) \in Msgs({"data", "exit", "other"}, out)
    BY <1>0, <2>1, MsgKinds
  <2>3. Append(unread, Head(emitted)) \in Seq(Msgs({"data", "exit", "other"}, out))
    BY <2>2, AppendShape
  <2> QED BY <1>4, <2>1, <2>3 DEF Pump
<1>5. CASE PumpOther
  <2>1. Other \in Msgs({"data", "exit", "other"}, out)
    BY <1>0, MsgIs, KindsApart
  <2>2. Append(unread, Other) \in Seq(Msgs({"data", "exit", "other"}, out))
    BY <2>1, AppendShape
  <2>3. noise' \in 0 .. MaxNoise
    BY <1>5, CapsAssumption DEF PumpOther
  <2> QED BY <1>5, <2>2, <2>3 DEF PumpOther
<1> QED
  BY <1>1, <1>2, <1>3, <1>4, <1>5 DEF DriverStep

\* The steps of the dispatching thread and of the forwarder.
LEMMA ConnType ==
  ASSUME TypeInv, DispatchStep \/ ForwardStep, UNCHANGED termVars
  PROVE  TypeInv'
<1> USE DEF TypeInv, termVars, daemonVars
<1>0. out \in Nat /\ QueueCap \in Nat /\ BusCap \in Nat \ {0} /\ Len(queue) \in Nat
  BY CapsAssumption
<1>1. \A seed \in Msgs({"replay", "noSeed"}, out) : Fits =>
        /\ Append(queue, seed) \in Seq(Msgs({"data", "exit", "replay", "noSeed"}, out))
        /\ Len(Append(queue, seed)) <= QueueCap
  <2>1. \A seed \in Msgs({"replay", "noSeed"}, out) : seed \in Msgs({"data", "exit", "replay", "noSeed"}, out)
    BY <1>0, MsgKinds
  <2> QED BY <1>0, <2>1, AppendShape DEF Fits
<1>2. \A m \in Mishaps, b \in BOOLEAN : Note({x \in {m} : b}) => spoiled' \in SUBSET Mishaps
  BY DEF Note
<1>3. CASE Subscribe
  BY <1>0, <1>3, MsgIs DEF Subscribe
<1>4. CASE TakeSeed
  <2>1. Seed \in Msgs({"idle", "asked", "subscribed", "replay", "noSeed"}, out)
    BY <1>0, SeedIs, MsgKinds
  <2>2. spoiled' \in SUBSET Mishaps
    BY <1>4 DEF TakeSeed, Note, Mishaps
  <2> QED BY <1>4, <2>1, <2>2 DEF TakeSeed
<1>5. CASE ReplyToAttach
  <2>1. dispatcher \in Msgs({"replay", "noSeed"}, out)
    BY <1>0, <1>5, MsgKinds DEF ReplyToAttach, IsSeed
  <2>2. Idle \in Msgs({"idle", "asked", "subscribed", "replay", "noSeed"}, out)
    BY <1>0, MsgIs, KindsApart
  <2> QED BY <1>1, <1>5, <2>1, <2>2 DEF ReplyToAttach, Reply
<1>6. CASE Forward
  <2>1. Tail(unread) \in Seq(Msgs({"data", "exit", "other"}, out)) /\ Head(unread) \in Msgs({"data", "exit", "other"}, out)
    BY <1>6, TailShape DEF Forward
  <2>2. Head(unread) # Other => Head(unread) \in Msgs({"data", "exit", "replay", "noSeed"}, out)
    <3> DEFINE m == Head(unread)
    <3>1. m \in Msgs({"data", "exit", "other"}, out)
      BY <2>1
    <3> HIDE DEF m
    <3>2. m # Other => m.kind \in {"data", "exit", "replay", "noSeed"}
      <4>1. m.kind \in {"data", "exit", "other"}
        BY <1>0, <3>1, MsgKinds
      <4>2. m.kind = "other" => m = Item("other", 0)
        <5>1. m.kind = "other" => m.kind \notin {"data", "replay", "changed", "sessions"}
          OBVIOUS
        <5>2. m.kind \notin {"data", "replay", "changed", "sessions"} => m = Item(m.kind, 0)
          BY <1>0, <3>1, MsgKinds
        <5> QED BY <5>1, <5>2
      <4> QED BY <4>1, <4>2, KindsApart
    <3>3. m # Other => m \in Msgs({"data", "exit", "replay", "noSeed"}, out)
      BY <1>0, <3>1, <3>2, MsgKinds
    <3> QED BY <3>3 DEF m
  <2>3. queue' \in Seq(Msgs({"data", "exit", "replay", "noSeed"}, out)) /\ Len(queue') <= QueueCap
    BY <1>0, <1>6, <2>2, AppendShape DEF Forward, Fits
  <2>4. spoiled' \in SUBSET Mishaps
    BY <1>6 DEF Forward, Note, Mishaps
  <2> QED BY <1>6, <2>1, <2>3, <2>4 DEF Forward
<1>7. CASE Lag
  <2>1. Retained \in Seq(Msgs({"data", "exit", "other"}, out))
    <3>1. Len(unread) \in Nat /\ BusCap <= Len(unread) /\ Len(unread) - BusCap + 1 \in 1 .. Len(unread)
      BY <1>0, <1>7 DEF Lag, Lagging
    <3>2. \A i \in Len(unread) - BusCap + 1 .. Len(unread) : unread[i] \in Msgs({"data", "exit", "other"}, out)
      BY <3>1
    <3> QED BY <3>1, <3>2, SubSeqProperties DEF Retained
  <2>2. forwarder' \in Msgs({"idle", "resync", "replay", "noSeed"}, out)
    BY <1>0, <1>7, MsgIs, KindsApart DEF Lag
  <2>3. spoiled' \in SUBSET Mishaps
    BY <1>7 DEF Lag, Note, Mishaps
  <2> QED BY <1>7, <2>1, <2>2, <2>3 DEF Lag
<1>8. CASE TakeResync
  <2>1. Seed \in Msgs({"idle", "resync", "replay", "noSeed"}, out)
    BY <1>0, SeedIs, MsgKinds
  <2>2. spoiled' \in SUBSET Mishaps
    BY <1>8 DEF TakeResync, Note, Mishaps
  <2> QED BY <1>8, <2>1, <2>2 DEF TakeResync
<1>9. CASE SendResync
  <2>1. forwarder \in Msgs({"replay", "noSeed"}, out)
    BY <1>0, <1>9, MsgKinds DEF SendResync, IsSeed
  <2>2. Idle \in Msgs({"idle", "resync", "replay", "noSeed"}, out)
    BY <1>0, MsgIs, KindsApart
  <2> QED BY <1>1, <1>9, <2>1, <2>2 DEF SendResync, Reply
<1> QED
  BY <1>3, <1>4, <1>5, <1>6, <1>7, <1>8, <1>9 DEF DispatchStep, ForwardStep

\* What the terminal shows after a message.
LEMMA PaintType ==
  ASSUME TypeInv, NEW m \in Msgs({"data", "exit", "replay", "noSeed"}, out), Paint(m)
  PROVE  /\ pc' \in {pc, "ended"} /\ shown' \in Seq(1 .. out) /\ seedCursor' \in 0 .. out
<1>1. /\ m.at \in 0 .. out /\ (m.kind = "data" => m.at \in 1 .. out)
      /\ out \in Nat /\ shown \in Seq(1 .. out) /\ seedCursor \in 0 .. out
  BY StreamMsgs DEF TypeInv
<1>2. UpTo(m.at) \in Seq(1 .. out)
  <2> DEFINE n == m.at
  <2>1. n \in Nat /\ 1 .. n \subseteq 1 .. out
    BY <1>1
  <2> HIDE DEF n
  <2>2. UpTo(n) \in Seq(1 .. n) /\ Seq(1 .. n) \subseteq Seq(1 .. out)
    BY <2>1, UpToIs, SeqGrow
  <2>3. UpTo(n) \in Seq(1 .. out)
    BY <2>2
  <2> QED BY <2>3 DEF n
<1>3. shown' \in Seq(1 .. out)
  <2>1. m.kind = "data" => Append(shown, m.at) \in Seq(1 .. out)
    BY <1>1, AppendShape
  <2> QED BY <1>1, <1>2, <2>1 DEF Paint, Painted
<1> QED BY <1>1, <1>3 DEF Paint

\* The steps of the client.
LEMMA ClientType ==
  ASSUME TypeInv, ClientStep \/ RequestRepaint \/ OpenTimesOut
  PROVE  TypeInv'
<1> USE DEF TypeInv, daemonVars, connVars, streamVars
<1>0. out \in Nat /\ QueueCap \in Nat /\ Len(queue) \in Nat
  BY CapsAssumption
<1>1. CASE Open \/ RequestRepaint
  <2>1. Item("asked", 0) \in Msgs({"idle", "asked", "subscribed", "replay", "noSeed"}, out)
    BY <1>0, MsgIs
  <2>2. repaints' \in 0 .. MaxRepaints
    BY <1>1, RepaintsAssumption DEF Open, RequestRepaint
  <2> QED BY <1>1, <2>1, <2>2 DEF Open, RequestRepaint, SendAttach
<1>2. ASSUME Read
      PROVE  /\ queue' \in Seq(Msgs({"data", "exit", "replay", "noSeed"}, out)) /\ Len(queue') <= QueueCap
             /\ Head(queue) \in Msgs({"data", "exit", "replay", "noSeed"}, out)
             /\ UNCHANGED <<life, out, emitted, unread, noise, attached, forwarder, dispatcher>>
  BY <1>0, <1>2, TailShape DEF Read
<1>3. CASE Stash
  <2>1. Head(queue) \in Msgs({"data", "exit"}, out)
    BY <1>0, <1>2, <1>3, MsgKinds DEF Stash, IsSeed
  <2>2. pending' \in Seq(Msgs({"data", "exit"}, out))
    BY <1>3, <2>1, AppendShape DEF Stash
  <2> QED BY <1>2, <1>3, <2>2 DEF Stash
<1>4. CASE ReadSeed
  <2>1. Head(queue).at \in 0 .. out
    BY <1>0, <1>2, <1>4, StreamMsgs DEF ReadSeed
  <2>2. UpTo(Head(queue).at) \in Seq(1 .. out)
    <3> DEFINE n == Head(queue).at
    <3>1. n \in Nat /\ 1 .. n \subseteq 1 .. out
      BY <1>0, <2>1
    <3> HIDE DEF n
    <3>2. UpTo(n) \in Seq(1 .. n) /\ Seq(1 .. n) \subseteq Seq(1 .. out)
      BY <3>1, UpToIs, SeqGrow
    <3>3. UpTo(n) \in Seq(1 .. out)
      BY <3>2
    <3> QED BY <3>3 DEF n
  <2> QED BY <1>2, <1>4, <2>1, <2>2 DEF ReadSeed
<1>5. CASE OpenTimesOut
  BY <1>5 DEF OpenTimesOut
<1>6. CASE PumpPending
  <2>1. Head(pending) \in Msgs({"data", "exit"}, out) /\ Tail(pending) \in Seq(Msgs({"data", "exit"}, out))
    BY <1>6, TailShape DEF PumpPending
  <2>2. Head(pending) \in Msgs({"data", "exit", "replay", "noSeed"}, out)
    BY <1>0, <2>1, MsgKinds
  <2> QED BY <1>6, <2>1, <2>2, PaintType DEF PumpPending
<1>7. CASE PumpOutput
  <2>1. spoiled' \in SUBSET Mishaps
    BY <1>7 DEF PumpOutput, Note, Mishaps
  <2>2. pc' \in {pc, "ended"} /\ shown' \in Seq(1 .. out) /\ seedCursor' \in 0 .. out
    BY <1>2, <1>7, PaintType DEF PumpOutput
  <2> QED BY <1>2, <1>7, <2>1, <2>2 DEF PumpOutput
<1> QED
  BY <1>1, <1>3, <1>4, <1>5, <1>6, <1>7 DEF ClientStep

\* Every step keeps the types.
LEMMA TypeKeeps == TypeInv /\ [Next]_vars => TypeInv'
<1>1. TypeInv /\ UNCHANGED vars => TypeInv'
  BY DEF TypeInv, vars, streamVars, termVars, daemonVars, connVars
<1> QED
  BY <1>1, DriverType, ConnType, ClientType DEF Next, StreamNext

-----------------------------------------------------------------------------
(* What moves of what is on its way.                                       *)

\* Bounds and types of what waits.
LEMMA Bounds ==
  ASSUME TypeInv
  PROVE  /\ out \in Nat /\ OnItsWay \subseteq 1 .. out + 1
         /\ Pending \subseteq 1 .. out + 1 /\ Queued \subseteq 1 .. out + 1
         /\ Unread \subseteq 1 .. out + 1 /\ Coming \subseteq 1 .. out + 1
         /\ \A i \in 1 .. Len(queue) : Ranked(queue[i]) => Rank(queue[i], out) \in Queued
         /\ \A i \in 1 .. Len(queue) : queue[i].at \in 0 .. out
         /\ Len(queue) \in Nat /\ Len(shown) \in Nat
<1>1. out \in Nat
  BY CapsAssumption DEF TypeInv
<1>2. Pending \subseteq 1 .. out + 1 /\ Queued \subseteq 1 .. out + 1
  BY <1>1, RanksBound DEF TypeInv, Pending, Queued
<1>3. Unread \subseteq 1 .. out + 1 /\ Coming \subseteq 1 .. out + 1
  BY <1>1, RanksBound DEF TypeInv, Unread, Coming
<1>4. \A i \in 1 .. Len(queue) : queue[i].at \in 0 .. out
  <2>1. \A i \in 1 .. Len(queue) : queue[i] \in Msgs({"data", "exit", "replay", "noSeed"}, out)
    BY DEF TypeInv
  <2> QED BY <1>1, <2>1, MsgKinds
<1>5. \A i \in 1 .. Len(queue) : Ranked(queue[i]) => Rank(queue[i], out) \in Queued
  BY DEF Queued, Ranks
<1>6. Len(queue) \in Nat /\ Len(shown) \in Nat
  BY DEF TypeInv
<1> QED BY <1>1, <1>2, <1>3, <1>4, <1>5, <1>6 DEF OnItsWay

\* The front stays as it is, and nothing else gets worse.
LEMMA FrontKeeps ==
  ASSUME IInv, Seamless, out' \in Nat, UNCHANGED <<pending, queue>>, Pending' = Pending, Queued' = Queued,
         \A i \in 1 .. Len(queue) : Ranked(queue[i]) => Rank(queue[i], out') = Rank(queue[i], out),
         \A k \in 0 .. out : Reached(k) => Reached(k)'
  PROVE  PendingFollows' /\ QueueFollows'
<1>1. out \in Nat /\ Pending \subseteq 1 .. out + 1 /\ Queued \subseteq 1 .. out + 1
      /\ \A i \in 1 .. Len(queue) : Ranked(queue[i]) => Rank(queue[i], out) \in Queued
  BY Bounds DEF IInv
<1>2. PendingFollows'
  <2> SUFFICES ASSUME NEW x \in Pending PROVE Reached(x - 1)' \/ x - 1 \in Pending
    BY DEF PendingFollows
  <2>1. x - 1 \in 0 .. out
    BY <1>1
  <2> QED BY <2>1 DEF Seamless, PendingFollows
<1>3. QueueFollows'
  <2> SUFFICES ASSUME NEW i \in 1 .. Len(queue), Ranked(queue[i])
               PROVE  LET k == Rank(queue[i], out) - 1
                      IN  Reached(k)' \/ k \in Pending \cup Queued \/ SeedBefore(k, i)'
    BY DEF QueueFollows
  <2> DEFINE k == Rank(queue[i], out) - 1
  <2>0. Rank(queue[i], out) \in 1 .. out + 1
    BY <1>1
  <2>1. k \in 0 .. out
    BY <1>1, <2>0
  <2>2. Reached(k) \/ k \in Pending \cup Queued \/ SeedBefore(k, i)
    BY DEF Seamless, QueueFollows
  <2>3. SeedBefore(k, i) => SeedBefore(k, i)'
    BY DEF SeedBefore
  <2> QED BY <2>1, <2>2, <2>3
<1> QED BY <1>2, <1>3

\* Only the threads of the daemon move, or the client gives up or begins to ask.
LEMMA StillKeeps ==
  ASSUME IInv, TypeInv', PhaseInv',
         UNCHANGED <<out, emitted, unread, queue, pending, shown, seedCursor, attached>>,
         spoiled \subseteq spoiled',
         pc' = pc \/ (pc' \notin {"open", "ended"} /\ (attached => pc' # "asking")),
         spoiled' = {} => forwarder'.kind # "noSeed" /\ dispatcher'.kind # "noSeed",
         forwarder' = forwarder \/ forwarder'.kind # "replay" \/ forwarder'.at = out,
         dispatcher' = dispatcher \/ dispatcher'.kind # "replay" \/ dispatcher'.at = out,
         forwarder' = forwarder \/ (forwarder'.kind = "replay" /\ forwarder'.at = out) \/ spoiled' # {}
  PROVE  IInv'
<1>0. out \in Nat
  BY Bounds DEF IInv
<1>1. Pending' = Pending /\ Queued' = Queued /\ Unread' = Unread /\ Coming' = Coming /\ OnItsWay' = OnItsWay
  BY DEF Pending, Queued, Unread, Coming, OnItsWay
<1>2. OrderInv'
  BY <1>1 DEF IInv, OrderInv
<1> SUFFICES ASSUME spoiled' = {}
             PROVE  NoneGone' /\ TerminalInv' /\ (attached' /\ pc' \in {"asking", "open"} => Seamless')
  BY <1>2 DEF IInv
<1>3. NoneGone /\ TerminalInv /\ (attached /\ pc \in {"asking", "open"} => Seamless)
  BY DEF IInv
<1>4. NoneGone'
  BY <1>3 DEF NoneGone
<1>5. TerminalInv'
  BY <1>1, <1>3 DEF TerminalInv
<1>6. ASSUME attached', pc' \in {"asking", "open"} PROVE Seamless'
  <2>1. Seamless /\ pc' = pc
    BY <1>3, <1>6
  <2>2. \A k \in 0 .. out : Reached(k) => Reached(k)'
    BY <1>0, <2>1 DEF Reached
  <2>3. PendingFollows' /\ QueueFollows'
    BY <1>0, <1>1, <2>1, <2>2, FrontKeeps
  <2>4. ASSUME NEW x \in Unread \cup Coming \cup {out + 1} PROVE Covered(x - 1)'
    <3>1. x - 1 \in 0 .. out
      BY Bounds, <1>0 DEF IInv
    <3>2. SeedBefore(x - 1, Len(queue) + 1) => SeedBefore(x - 1, Len(queue) + 1)'
      BY DEF SeedBefore
    <3>3. ByForwarder(x - 1) => ByForwarder(x - 1)'
      BY <3>1 DEF ByForwarder
    <3>4. Covered(x - 1)
      BY <2>1 DEF Seamless, RestFollows
    <3> QED BY <1>1, <2>2, <3>1, <3>2, <3>3, <3>4 DEF Covered
  <2> QED BY <1>1, <2>3, <2>4 DEF Seamless, RestFollows
<1> QED BY <1>4, <1>5, <1>6

-----------------------------------------------------------------------------
(* The steps.                                                              *)

\* A seed is taken, or the session ends or is forgotten.
LEMMA QuietKeeps ==
  ASSUME IInv, TypeInv', Forget \/ Kill \/ TakeSeed \/ TakeResync, UNCHANGED termVars
  PROVE  IInv'
<1>0. UNCHANGED <<pc, pending, shown, seedCursor, out, emitted, unread, queue, attached>>
      /\ spoiled \subseteq spoiled' /\ OnItsWay' = OnItsWay
  <2>1. UNCHANGED <<pc, pending, shown, seedCursor, out, emitted, unread, queue, attached>>
        /\ spoiled \subseteq spoiled'
    BY DEF termVars, Forget, Kill, TakeSeed, TakeResync, daemonVars, connVars, Note
  <2> QED BY <2>1 DEF OnItsWay, Pending, Queued, Unread, Coming
<1>t. PhaseInv /\ TypeInv
  BY DEF IInv
<1>1. CASE Forget \/ Kill
  <2>1. UNCHANGED <<forwarder, dispatcher>> /\ spoiled' = spoiled
    BY <1>1 DEF Forget, Kill, connVars
  <2>2. PhaseInv'
    BY <1>0, <1>1, <1>t, <2>1 DEF PhaseInv, Forget, Kill
  <2>3. spoiled' = {} => forwarder'.kind # "noSeed" /\ dispatcher'.kind # "noSeed"
    BY <2>1 DEF IInv, NoneGone
  <2> QED BY <1>0, <2>1, <2>2, <2>3, StillKeeps
<1>2. CASE TakeSeed
  <2>1. dispatcher' = Seed /\ dispatcher.kind = "subscribed" /\ UNCHANGED <<forwarder, life>>
        /\ (spoiled' = {} => InRegistry)
    BY <1>2 DEF TakeSeed, Note, daemonVars
  <2>2. PhaseInv'
    BY <1>0, <1>t, <2>1, KindsApart DEF PhaseInv
  <2>3. spoiled' = {} => forwarder'.kind # "noSeed" /\ dispatcher'.kind # "noSeed"
    <3>1. InRegistry => Seed.kind = "replay"
      BY <1>t, SeedIs, KindsApart
    <3> QED BY <1>0, <2>1, <3>1 DEF IInv, NoneGone
  <2>4. dispatcher'.kind = "replay" => dispatcher'.at = out
    BY <1>t, <2>1, SeedIs, KindsApart
  <2> QED BY <1>0, <2>1, <2>2, <2>3, <2>4, StillKeeps
<1>3. CASE TakeResync
  <2>1. forwarder' = Seed /\ forwarder.kind = "resync" /\ UNCHANGED <<dispatcher, life>>
        /\ (spoiled' = {} => InRegistry)
    BY <1>3 DEF TakeResync, Note, daemonVars
  <2>2. PhaseInv'
    BY <1>0, <1>t, <2>1, KindsApart DEF PhaseInv
  <2>3. InRegistry => forwarder'.kind = "replay"
    BY <1>t, <2>1, SeedIs, KindsApart
  <2>4. spoiled' = {} => forwarder'.kind # "noSeed" /\ dispatcher'.kind # "noSeed"
    BY <1>0, <2>1, <2>3 DEF IInv, NoneGone
  <2>5. forwarder'.kind = "replay" => forwarder'.at = out
    BY <1>t, <2>1, SeedIs, KindsApart
  <2> QED BY <1>0, <2>1, <2>2, <2>3, <2>4, <2>5, StillKeeps
<1> QED BY <1>1, <1>2, <1>3

\* The client asks, or gives up.
LEMMA AskKeeps ==
  ASSUME IInv, TypeInv', Open \/ RequestRepaint \/ OpenTimesOut \/ UNCHANGED vars
  PROVE  IInv'
<1>0. UNCHANGED <<life, pending, shown, seedCursor, out, emitted, unread, queue, attached, forwarder, spoiled>>
      /\ OnItsWay' = OnItsWay
  <2>1. UNCHANGED <<life, pending, shown, seedCursor, out, emitted, unread, queue, attached, forwarder, spoiled>>
    BY DEF Open, RequestRepaint, OpenTimesOut, SendAttach, vars, streamVars, termVars, daemonVars, connVars
  <2> QED BY <2>1 DEF OnItsWay, Pending, Queued, Unread, Coming
<1>t. PhaseInv /\ TypeInv /\ (spoiled = {} => NoneGone)
  BY DEF IInv
<1>1. CASE Open \/ RequestRepaint
  <2>1. dispatcher' = Item("asked", 0) /\ pc' = (IF pc = "start" THEN "asking" ELSE pc) /\ (pc = "open" => pc' = "open")
        /\ pc \in {"start", "open"}
    BY <1>1 DEF Open, RequestRepaint, SendAttach
  <2>2. PhaseInv'
    BY <1>0, <1>t, <2>1, KindsApart DEF PhaseInv
  <2>3. dispatcher'.kind = "asked"
    BY <2>1, KindsApart
  <2>4. pc = "start" => ~attached
    BY <1>t DEF PhaseInv
  <2> QED BY <1>0, <1>t, <2>1, <2>2, <2>3, <2>4, StillKeeps DEF NoneGone
<1>2. CASE OpenTimesOut
  <2>1. UNCHANGED dispatcher /\ pc' = "failed" /\ pc = "asking"
    BY <1>2 DEF OpenTimesOut, streamVars, connVars
  <2>2. PhaseInv'
    BY <1>0, <1>t, <2>1 DEF PhaseInv
  <2> QED BY <1>0, <1>t, <2>1, <2>2, StillKeeps DEF NoneGone
<1>3. CASE UNCHANGED vars
  <2>1. UNCHANGED <<dispatcher, pc>>
    BY <1>3 DEF vars, streamVars, termVars, connVars
  <2>2. PhaseInv'
    BY <1>0, <1>t, <2>1 DEF PhaseInv
  <2> QED BY <1>0, <1>t, <2>1, <2>2, StillKeeps DEF NoneGone
<1> QED BY <1>1, <1>2, <1>3

\* The session outputs a chunk, or its exit: what was covered covers what is next.
LEMMA OutputKeeps ==
  ASSUME IInv, TypeInv', Flush \/ ChildExits, UNCHANGED termVars
  PROVE  IInv'
<1>0. UNCHANGED <<pc, pending, shown, seedCursor, unread, queue, attached, forwarder, dispatcher, spoiled>>
  BY DEF termVars, Flush, ChildExits, connVars
<1>t. PhaseInv /\ TypeInv /\ OrderInv /\ out \in Nat /\ out' \in Nat
  BY Bounds, CapsAssumption DEF IInv, TypeInv
<1>b. /\ OnItsWay \subseteq 1 .. out + 1 /\ Pending \subseteq 1 .. out + 1 /\ Queued \subseteq 1 .. out + 1
      /\ Unread \subseteq 1 .. out + 1 /\ Coming \subseteq 1 .. out + 1
  BY <1>t, Bounds
<1>1. CASE emitted' = emitted /\ out' = out
  <2>1. OnItsWay' = OnItsWay
    BY <1>0, <1>1 DEF OnItsWay, Pending, Queued, Unread, Coming
  <2>2. life = "killed" /\ life' = "silent"
    BY <1>1, <1>t DEF Flush, ChildExits
  <2>3. PhaseInv'
    BY <1>0, <1>t, <1>1, <2>1, <2>2 DEF PhaseInv
  <2> QED BY <1>0, <1>1, <2>3, StillKeeps DEF IInv, NoneGone
<1>2. CASE ~(emitted' = emitted /\ out' = out)
  <2> DEFINE m == emitted'[Len(emitted')]
  <2>1. /\ life \in {"running", "killed"}
        /\ \/ out' = out + 1 /\ emitted' = Append(emitted, Data(out + 1)) /\ life' = life
           \/ out' = out /\ emitted' = Append(emitted, Exit) /\ life' = "exited"
    BY <1>2 DEF Flush, ChildExits
  <2>2. out + 1 \notin OnItsWay
    BY <1>t, <2>1 DEF PhaseInv
  <2>3. Pending' = Pending /\ Queued' = Queued /\ Unread' = Unread
        /\ Ranks(emitted, out') = Coming /\ Rising(emitted, out')
        /\ Rising(pending, out') /\ Rising(queue, out') /\ Rising(unread, out')
    <3>1. out + 1 \notin Ranks(pending, out) /\ out + 1 \notin Ranks(queue, out)
          /\ out + 1 \notin Ranks(unread, out) /\ out + 1 \notin Ranks(emitted, out)
      BY <2>2 DEF OnItsWay, Pending, Queued, Unread, Coming
    <3>2. Ranks(pending, out') = Ranks(pending, out) /\ Rising(pending, out')
      BY <1>t, <3>1, RanksGrow DEF TypeInv, OrderInv
    <3>3. Ranks(queue, out') = Ranks(queue, out) /\ Rising(queue, out')
      <4> DEFINE kinds == {"data", "exit", "replay", "noSeed"}
      <4>1. queue \in Seq(Msgs(kinds, out)) /\ Rising(queue, out)
        BY <1>t DEF TypeInv, OrderInv
      <4> HIDE DEF kinds
      <4> QED BY <1>t, <3>1, <4>1, RanksGrow
    <3>4. Ranks(unread, out') = Ranks(unread, out) /\ Rising(unread, out')
      BY SMTT(30), <1>t, <3>1, RanksGrow DEF TypeInv, OrderInv
    <3>5. Ranks(emitted, out') = Ranks(emitted, out) /\ Rising(emitted, out')
      BY <1>t, <3>1, RanksGrow DEF TypeInv, OrderInv
    <3> QED BY <1>0, <3>2, <3>3, <3>4, <3>5 DEF Pending, Queued, Unread, Coming
  <2>4. PICK e \in Msgs({"data", "exit"}, out') :
          emitted' = Append(emitted, e) /\ RankOf(e, out') = {out + 1}
          /\ (out' = out + 1 \/ (out' = out /\ life' = "exited"))
    <3>1. CASE out' = out + 1 /\ emitted' = Append(emitted, Data(out + 1)) /\ life' = life
      <4>1. Data(out + 1) \in Msgs({"data", "exit"}, out') /\ Data(out + 1).kind = "data" /\ Data(out + 1).at = out + 1
        BY <1>t, <3>1, MsgIs, KindsApart
      <4>2. RankOf(Data(out + 1), out') = {out + 1}
        BY <4>1 DEF RankOf, Rank, Ranked
      <4> QED BY <3>1, <4>1, <4>2
    <3>2. CASE out' = out /\ emitted' = Append(emitted, Exit) /\ life' = "exited"
      <4>1. Exit \in Msgs({"data", "exit"}, out') /\ Exit.kind = "exit"
        BY <1>t, <3>2, MsgIs, KindsApart
      <4>2. RankOf(Exit, out') = {out + 1}
        BY <3>2, <4>1 DEF RankOf, Rank, Ranked
      <4> QED BY <3>2, <4>1, <4>2
    <3> QED BY <2>1, <3>1, <3>2
  <2>5. emitted \in Seq(Msgs({"data", "exit"}, out'))
    <3>1. out <= out'
      BY <1>t, <2>4
    <3> QED BY <1>t, <3>1, MsgsGrow DEF TypeInv
  <2>6. Coming' = Coming \cup {out + 1} /\ OnItsWay' = OnItsWay \cup {out + 1}
    <3>1. Coming' = Coming \cup {out + 1}
      BY <2>3, <2>4, <2>5, RanksAppend DEF Coming
    <3> QED BY <2>3, <3>1 DEF OnItsWay
  <2>7. \A x \in OnItsWay : x < out + 1
    BY <1>t, <1>b, <2>2
  <2>8. Rising(emitted, out)'
    <3>1. AllBefore(Coming, {out + 1})
      BY <2>7 DEF AllBefore, OnItsWay
    <3>2. AllBefore(Ranks(emitted, out'), RankOf(e, out'))
      BY <2>3, <2>4, <3>1
    <3> QED BY <2>3, <2>4, <2>5, <3>2, RisingAppend
  <2>9. OrderInv'
    BY <1>0, <1>t, <2>3, <2>6, <2>7, <2>8 DEF OrderInv, AllBefore, OnItsWay
  <2>10. PhaseInv'
    <3>1. out' + 1 \in OnItsWay' => life' = "exited"
      <4>1. CASE out' = out + 1
        <5>1. out' + 1 = out + 2 /\ out + 2 \notin OnItsWay /\ out + 2 # out + 1
          BY <1>t, <1>b, <4>1
        <5> QED BY <2>6, <5>1
      <4> QED BY <2>4, <4>1
    <3>2. pc # "ended"
      BY <1>t, <2>1 DEF PhaseInv
    <3> QED BY <1>0, <1>t, <3>1, <3>2 DEF PhaseInv
  <2> SUFFICES ASSUME spoiled = {}
               PROVE  NoneGone' /\ TerminalInv' /\ (attached' /\ pc' \in {"asking", "open"} => Seamless')
    BY <1>0, <2>9, <2>10 DEF IInv
  <2>11. NoneGone /\ TerminalInv /\ (attached /\ pc \in {"asking", "open"} => Seamless) /\ pc # "ended"
    BY <1>t, <2>1 DEF IInv, PhaseInv
  <2>12. NoneGone'
    BY <1>0, <2>11 DEF NoneGone
  <2>13. TerminalInv'
    <3>1. Len(shown) \in Nat
      BY <1>t, Bounds
    <3> QED BY <1>0, <1>t, <2>4, <2>6, <2>11, <3>1 DEF TerminalInv
  <2>14. ASSUME attached, pc \in {"asking", "open"} PROVE Seamless'
    <3>1. Seamless
      BY <2>11, <2>14
    <3>2. \A k : Reached(k) => Reached(k)'
      BY <1>0 DEF Reached
    <3>3. \A i \in 1 .. Len(queue) : Ranked(queue[i]) => Rank(queue[i], out') = Rank(queue[i], out)
      <4>1. \A i \in 1 .. Len(queue) : Ranked(queue[i]) => Rank(queue[i], out) \in Queued
        BY <1>t, Bounds
      <4>2. \A i \in 1 .. Len(queue) : queue[i].kind # "exit"
        BY <2>2, <4>1 DEF Ranked, Rank, OnItsWay
      <4> QED BY <4>2 DEF Rank
    <3>4. PendingFollows' /\ QueueFollows'
      BY <1>0, <1>t, <2>3, <3>1, <3>2, <3>3, FrontKeeps
    <3>5. \A k : Covered(k) => Covered(k)'
      BY <1>0, <2>6, <3>2 DEF Covered, SeedBefore, ByForwarder
    <3>6. RestFollows'
      <4> SUFFICES ASSUME NEW x \in Unread \cup Coming' \cup {out' + 1} PROVE Covered(x - 1)'
        BY <2>3 DEF RestFollows
      <4>1. CASE x \in Unread \cup Coming \cup {out + 1}
        BY <3>1, <3>5, <4>1 DEF Seamless, RestFollows
      <4>2. CASE out' = out + 1 /\ x = out' + 1
        <5>1. x - 1 \in OnItsWay'
          BY <1>t, <2>6, <4>2
        <5> QED BY <5>1 DEF Covered
      <4> QED BY <2>4, <2>6, <4>1, <4>2
    <3> QED BY <3>4, <3>6 DEF Seamless
  <2> QED BY <1>0, <2>12, <2>13, <2>14
<1> QED BY <1>1, <1>2

\* The pump puts an event on the bus.
LEMMA PumpKeeps ==
  ASSUME IInv, TypeInv', Pump \/ PumpOther, UNCHANGED termVars
  PROVE  IInv'
<1>0. UNCHANGED <<life, out, pc, pending, shown, seedCursor, repaints, attached, forwarder, dispatcher, queue, spoiled>>
  BY DEF termVars, Pump, PumpOther, connVars
<1>t. PhaseInv /\ TypeInv /\ OrderInv /\ out \in Nat
  BY Bounds DEF IInv
<1>1. PICK r : /\ Coming = r \cup Coming' /\ Unread' = Unread \cup r /\ AllBefore(r, Coming')
               /\ Rising(emitted, out)' /\ Rising(unread, out)'
  <2>1. CASE Pump
    <3>1. emitted # <<>> /\ unread' = Append(unread, Head(emitted)) /\ emitted' = Tail(emitted)
      BY <2>1 DEF Pump
    <3>2. Head(emitted) \in Msgs({"data", "exit", "other"}, out)
      <4>1. Head(emitted) \in Msgs({"data", "exit"}, out)
        BY <1>t, <3>1, TailShape DEF TypeInv
      <4> QED BY <1>t, <4>1, MsgKinds
    <3>3. /\ Rising(emitted, out) /\ Rising(unread, out) /\ AllBefore(Ranks(unread, out), Ranks(emitted, out))
          /\ emitted \in Seq(Msgs({"data", "exit"}, out)) /\ unread \in Seq(Msgs({"data", "exit", "other"}, out))
      BY <1>t DEF OrderInv, Unread, Coming, TypeInv
    <3>4. LET r == RankOf(Head(emitted), out)
          IN  /\ Rising(Tail(emitted), out) /\ Rising(Append(unread, Head(emitted)), out)
              /\ Ranks(emitted, out) = r \cup Ranks(Tail(emitted), out)
              /\ Ranks(Append(unread, Head(emitted)), out) = Ranks(unread, out) \cup r
              /\ AllBefore(r, Ranks(Tail(emitted), out))
      BY <3>1, <3>2, <3>3, MoveShape
    <3> WITNESS RankOf(Head(emitted), out)
    <3> QED BY <1>0, <3>1, <3>4 DEF Coming, Unread
  <2>2. CASE PumpOther
    <3>1. unread' = Append(unread, Other) /\ emitted' = emitted
      BY <2>2 DEF PumpOther
    <3>2. Other \in Msgs({"data", "exit", "other"}, out) /\ RankOf(Other, out) = {}
      BY <1>t, MsgIs, KindsApart DEF RankOf, Ranked
    <3>3. unread \in Seq(Msgs({"data", "exit", "other"}, out)) /\ Rising(unread, out)
      BY <1>t DEF TypeInv, OrderInv
    <3>4. Ranks(unread', out) = Ranks(unread, out)
      <4>1. Ranks(Append(unread, Other), out) = Ranks(unread, out) \cup RankOf(Other, out)
        <5> DEFINE M == Msgs({"data", "exit", "other"}, out)
        <5>1. unread \in Seq(M) /\ Other \in M
          BY <3>2, <3>3
        <5> HIDE DEF M
        <5> QED BY <5>1, RanksAppend
      <4> QED BY <3>1, <3>2, <4>1
    <3>5. Rising(unread', out)
      BY <3>1, <3>2, <3>3, RisingAppend DEF AllBefore
    <3> WITNESS {}
    <3> QED BY <1>0, <1>t, <3>1, <3>4, <3>5 DEF Coming, Unread, AllBefore, OrderInv
  <2> QED BY <2>1, <2>2
<1>2. Pending' = Pending /\ Queued' = Queued /\ OnItsWay' = OnItsWay
  <2>1. Pending' = Pending /\ Queued' = Queued
    BY <1>0 DEF Pending, Queued
  <2> QED BY <1>1, <2>1 DEF OnItsWay
<1>3. OrderInv'
  BY <1>0, <1>1, <1>2, <1>t DEF OrderInv, AllBefore
<1>4. PhaseInv'
  BY <1>0, <1>2, <1>t DEF PhaseInv
<1> SUFFICES ASSUME spoiled = {}
             PROVE  NoneGone' /\ TerminalInv' /\ (attached' /\ pc' \in {"asking", "open"} => Seamless')
  BY <1>0, <1>3, <1>4 DEF IInv
<1>5. NoneGone' /\ TerminalInv'
  BY <1>0, <1>2 DEF IInv, NoneGone, TerminalInv
<1>6. ASSUME attached, pc \in {"asking", "open"} PROVE Seamless'
  <2>1. Seamless
    BY <1>6 DEF IInv
  <2>2. PendingFollows' /\ QueueFollows'
    BY <1>0, <1>2, <1>t, <2>1, FrontKeeps DEF Reached
  <2>3. \A k : Covered(k) => Covered(k)'
    BY <1>0, <1>2 DEF Covered, Reached, SeedBefore, ByForwarder
  <2>4. Unread' \cup Coming' = Unread \cup Coming
    BY <1>1
  <2>5. RestFollows'
    BY <1>0, <2>1, <2>3, <2>4 DEF Seamless, RestFollows
  <2> QED BY <2>2, <2>5 DEF Seamless
<1> QED BY <1>0, <1>5, <1>6

\* The dispatching thread subscribes: from here on nothing is passed over.
LEMMA SubscribeKeeps ==
  ASSUME IInv, TypeInv', Subscribe, UNCHANGED termVars
  PROVE  IInv'
<1>0. /\ UNCHANGED <<life, out, emitted, unread, pc, pending, shown, seedCursor, forwarder, queue, spoiled>>
      /\ dispatcher' = Item("subscribed", 0) /\ dispatcher'.kind = "subscribed" /\ attached' = TRUE
      /\ dispatcher.kind = "asked"
  BY KindsApart DEF termVars, Subscribe, daemonVars
<1>t. PhaseInv /\ TypeInv /\ OrderInv /\ out \in Nat
  BY Bounds DEF IInv
<1>1. Pending' = Pending /\ Queued' = Queued /\ Unread' = Unread /\ Coming' = Coming /\ OnItsWay' = OnItsWay
  BY <1>0 DEF Pending, Queued, Unread, Coming, OnItsWay
<1>2. OrderInv' /\ pc # "start"
  BY <1>0, <1>1, <1>t, KindsApart DEF OrderInv, PhaseInv
<1>3. PhaseInv'
  BY <1>0, <1>1, <1>2, <1>t DEF PhaseInv
<1> SUFFICES ASSUME spoiled = {}
             PROVE  NoneGone' /\ TerminalInv' /\ (attached' /\ pc' \in {"asking", "open"} => Seamless')
  BY <1>0, <1>2, <1>3 DEF IInv
<1>4. NoneGone' /\ TerminalInv'
  BY <1>0, <1>1 DEF IInv, NoneGone, TerminalInv
<1>5. ASSUME pc \in {"asking", "open"} PROVE Seamless'
  <2>1. CASE attached
    <3>1. Seamless
      BY <1>5, <2>1 DEF IInv
    <3>2. \A k : Reached(k) => Reached(k)'
      BY <1>0 DEF Reached
    <3>3. \A k : Covered(k) => Covered(k)'
      BY <1>0, <1>1, <3>2 DEF Covered, SeedBefore, ByForwarder
    <3>4. PendingFollows' /\ QueueFollows'
      BY <1>0, <1>1, <1>t, <3>1, <3>2, FrontKeeps
    <3>5. RestFollows'
      BY <1>0, <1>1, <3>1, <3>3 DEF Seamless, RestFollows
    <3> QED BY <3>4, <3>5 DEF Seamless
  <2>2. CASE ~attached
    <3>1. pc = "asking" /\ queue = <<>> /\ forwarder.kind = "idle"
      BY <1>5, <1>t, <2>2, KindsApart DEF PhaseInv
    <3>2. \A k : Reached(k)'
      BY <1>0, <3>1 DEF Reached
    <3> QED BY <3>2 DEF Seamless, PendingFollows, QueueFollows, RestFollows, Covered
  <2> QED BY <2>1, <2>2
<1> QED BY <1>0, <1>4, <1>5

\* A seed goes into the queue: what it covers is now covered from there.
LEMMA SeedKeeps ==
  ASSUME IInv, TypeInv', ReplyToAttach \/ SendResync, UNCHANGED termVars
  PROVE  IInv'
<1>t. PhaseInv /\ TypeInv /\ OrderInv /\ out \in Nat /\ Len(queue) \in Nat
  BY Bounds DEF IInv
<1>0. PICK seed \in {dispatcher, forwarder} :
        /\ UNCHANGED <<life, out, emitted, unread, pc, pending, shown, seedCursor, attached, spoiled>>
        /\ IsSeed(seed) /\ queue' = Append(queue, seed)
        /\ \/ seed = dispatcher /\ dispatcher' = Idle /\ forwarder' = forwarder
           \/ seed = forwarder /\ forwarder' = Idle /\ dispatcher' = dispatcher
  BY DEF termVars, ReplyToAttach, SendResync, Reply, daemonVars
<1>s. seed \in Msgs({"data", "exit", "replay", "noSeed"}, out) /\ seed.kind \in {"replay", "noSeed"}
      /\ RankOf(seed, out) = {} /\ Idle.kind = "idle"
  <2>1. seed.kind \in {"replay", "noSeed"}
    BY <1>0 DEF IsSeed
  <2>2. seed \in Msgs({"data", "exit", "replay", "noSeed"}, out)
    BY <1>0, <1>t, <2>1, MsgKinds DEF TypeInv
  <2> QED BY <2>1, <2>2, KindsApart DEF RankOf, Ranked
<1>a. attached /\ pc # "start"
  BY <1>0, <1>s, <1>t DEF PhaseInv
<1>q. /\ queue \in Seq(Msgs({"data", "exit", "replay", "noSeed"}, out)) /\ Rising(queue, out)
      /\ Len(queue') = Len(queue) + 1 /\ queue'[Len(queue) + 1] = seed
      /\ \A i \in 1 .. Len(queue) : queue'[i] = queue[i]
      /\ \A i \in 1 .. Len(queue) + 1 : i \in 1 .. Len(queue) \/ i = Len(queue) + 1
      /\ 1 .. Len(queue) \subseteq 1 .. Len(queue) + 1 /\ Len(queue) + 1 \in 1 .. Len(queue) + 1
  <2>1. queue \in Seq(Msgs({"data", "exit", "replay", "noSeed"}, out)) /\ Rising(queue, out)
    BY <1>t DEF TypeInv, OrderInv
  <2> QED BY <1>0, <1>s, <1>t, <2>1, AppendShape
<1>1. Pending' = Pending /\ Queued' = Queued /\ Unread' = Unread /\ Coming' = Coming /\ OnItsWay' = OnItsWay
  <2>1. Ranks(Append(queue, seed), out) = Ranks(queue, out) \cup RankOf(seed, out)
    <3> DEFINE M == Msgs({"data", "exit", "replay", "noSeed"}, out)
    <3>1. queue \in Seq(M) /\ seed \in M
      BY <1>q, <1>s
    <3> HIDE DEF M
    <3> QED BY <3>1, RanksAppend
  <2>2. Queued' = Queued
    BY <1>0, <1>s, <2>1 DEF Queued
  <2> QED BY <1>0, <2>2 DEF Pending, Unread, Coming, OnItsWay
<1>2. OrderInv'
  <2>1. Rising(Append(queue, seed), out)
    BY <1>q, <1>s, RisingAppend DEF AllBefore
  <2> QED BY <1>0, <1>1, <1>t, <2>1 DEF OrderInv
<1>3. PhaseInv'
  BY <1>0, <1>1, <1>a, <1>t DEF PhaseInv
<1> SUFFICES ASSUME spoiled = {}
             PROVE  NoneGone' /\ TerminalInv' /\ (attached' /\ pc' \in {"asking", "open"} => Seamless')
  BY <1>0, <1>2, <1>3 DEF IInv
<1>i. NoneGone /\ seed.kind = "replay"
  BY <1>0, <1>s DEF IInv, NoneGone
<1>4. NoneGone' /\ TerminalInv'
  <2>1. NoneGone'
    BY <1>0, <1>i, <1>q, <1>s DEF NoneGone
  <2> QED BY <1>0, <1>1, <2>1 DEF IInv, TerminalInv
<1>5. ASSUME pc \in {"asking", "open"} PROVE Seamless'
  <2>1. Seamless
    BY <1>5, <1>a DEF IInv
  <2>2. \A k : Reached(k) => Reached(k)'
    <3> SUFFICES ASSUME NEW k, Reached(k), pc # "open"
                 PROVE  Reached(k)'
      BY <1>0 DEF Reached
    <3>1. /\ forwarder.kind = "replay" => k <= forwarder.at
          /\ dispatcher.kind = "replay" => k <= dispatcher.at
          /\ \A i \in 1 .. Len(queue) : queue[i].kind = "replay" => k <= queue[i].at
      BY DEF Reached
    <3>2. forwarder'.kind = "replay" => k <= forwarder'.at
      BY <1>0, <1>s, <3>1
    <3>3. dispatcher'.kind = "replay" => k <= dispatcher'.at
      BY <1>0, <1>s, <3>1
    <3>4. \A i \in 1 .. Len(queue') : queue'[i].kind = "replay" => k <= queue'[i].at
      BY <1>0, <1>i, <1>q, <3>1
    <3> QED BY <1>0, <3>2, <3>3, <3>4 DEF Reached
  <2>3. \A k, i : i \in 1 .. Len(queue) + 1 /\ SeedBefore(k, i) => SeedBefore(k, i)'
    BY <1>q, <1>t DEF SeedBefore
  <2>4. \A k : SeedBefore(k, Len(queue) + 1) => SeedBefore(k, Len(queue) + 1)'
    <3> SUFFICES ASSUME NEW k, NEW j \in 1 .. Len(queue), queue[j].kind = "replay" /\ k <= queue[j].at
                 PROVE  SeedBefore(k, Len(queue) + 1)'
      BY DEF SeedBefore
    <3>1. j < Len(queue') + 1 /\ j \in 1 .. Len(queue')
      BY <1>q, <1>t
    <3> QED BY <1>q, <3>1 DEF SeedBefore
  <2>5. \A k : ByForwarder(k) => ByForwarder(k)' \/ SeedBefore(k, Len(queue) + 1)'
    <3> SUFFICES ASSUME NEW k, seed = forwarder, k <= seed.at
                 PROVE  SeedBefore(k, Len(queue) + 1)'
      BY <1>0, <1>i DEF ByForwarder
    <3>1. Len(queue) + 1 < Len(queue') + 1 /\ Len(queue) + 1 \in 1 .. Len(queue')
      BY <1>q, <1>t
    <3> QED BY <1>i, <1>q, <3>1 DEF SeedBefore
  <2>6. PendingFollows'
    BY <1>1, <2>1, <2>2 DEF Seamless, PendingFollows
  <2>7. QueueFollows'
    <3> SUFFICES ASSUME NEW i \in 1 .. Len(queue'), NEW k, Ranked(queue'[i]), k = Rank(queue'[i], out) - 1
                 PROVE  Reached(k)' \/ k \in Pending \cup Queued \/ SeedBefore(k, i)'
      BY <1>0, <1>1 DEF QueueFollows
    <3>1. i \in 1 .. Len(queue) /\ i \in 1 .. Len(queue) + 1 /\ queue'[i] = queue[i]
      BY <1>i, <1>q DEF Ranked
    <3>2. Reached(k) \/ k \in Pending \cup Queued \/ SeedBefore(k, i)
      BY <2>1, <3>1 DEF Seamless, QueueFollows
    <3> QED BY <2>2, <2>3, <3>1, <3>2
  <2>8. RestFollows'
    <3>2. \A k : Covered(k) => Covered(k)'
      BY <1>1, <2>2, <2>4, <2>5 DEF Covered
    <3> QED BY <1>0, <1>1, <2>1, <3>2 DEF Seamless, RestFollows
  <2> QED BY <2>6, <2>7, <2>8 DEF Seamless
<1> QED BY <1>0, <1>4, <1>5

\* Events pass the receiver by: they are not wanted, or a seed will make up for them.
LEMMA PassedKeeps ==
  ASSUME IInv, TypeInv', UNCHANGED termVars,
         UNCHANGED <<life, out, emitted, attached, dispatcher, queue>>, spoiled \subseteq spoiled',
         Rising(unread, out)', Unread' \subseteq Unread,
         forwarder' = forwarder \/ (forwarder' = Item("resync", 0) /\ attached),
         attached => Unread' = Unread \/ forwarder'.kind = "resync" \/ spoiled' # {},
         forwarder = Idle
  PROVE  IInv'
<1>t. PhaseInv /\ TypeInv /\ OrderInv /\ out \in Nat /\ UNCHANGED <<pc, pending, shown, seedCursor>>
  BY Bounds DEF IInv, termVars
<1>f. forwarder.kind = "idle" /\ forwarder'.kind \in {"idle", "resync"}
  BY KindsApart
<1>1. Pending' = Pending /\ Queued' = Queued /\ Coming' = Coming /\ OnItsWay' \subseteq OnItsWay
  <2>1. Pending' = Pending /\ Queued' = Queued /\ Coming' = Coming
    BY <1>t DEF Pending, Queued, Coming
  <2> QED BY <2>1 DEF OnItsWay
<1>2. OrderInv'
  BY <1>1, <1>t DEF OrderInv, AllBefore
<1>3. PhaseInv'
  BY <1>1, <1>t DEF PhaseInv
<1> SUFFICES ASSUME spoiled' = {}
             PROVE  NoneGone' /\ TerminalInv' /\ (attached' /\ pc' \in {"asking", "open"} => Seamless')
  BY <1>2, <1>3 DEF IInv
<1>4. spoiled = {} /\ NoneGone' /\ TerminalInv'
  BY <1>1, <1>f, <1>t DEF IInv, NoneGone, TerminalInv
<1>5. ASSUME attached, pc \in {"asking", "open"} PROVE Seamless'
  <2>1. Seamless
    BY <1>4, <1>5 DEF IInv
  <2>2. \A k : Reached(k) => Reached(k)'
    BY <1>f, <1>t DEF Reached
  <2>3. PendingFollows' /\ QueueFollows'
    BY <1>1, <1>t, <2>1, <2>2, FrontKeeps
  <2>4. RestFollows'
    <3>1. CASE forwarder'.kind = "resync"
      BY <3>1 DEF RestFollows, Covered, ByForwarder
    <3>2. CASE forwarder'.kind # "resync"
      <4>1. Unread' = Unread /\ forwarder' = forwarder /\ OnItsWay' = OnItsWay
        <5>1. Unread' = Unread /\ forwarder' = forwarder
          BY <1>4, <1>5, <3>2, KindsApart
        <5> QED BY <1>1, <5>1 DEF OnItsWay
      <4>2. \A k : Covered(k) => Covered(k)'
        BY <2>2, <4>1 DEF Covered, SeedBefore, ByForwarder
      <4> QED BY <1>1, <2>1, <4>1, <4>2 DEF Seamless, RestFollows
    <3> QED BY <3>1, <3>2
  <2> QED BY <2>3, <2>4 DEF Seamless
<1> QED BY <1>4, <1>5, <1>t

\* The forwarder puts an event into the queue: what is before it was already there, or behind
\* a seed that is.
LEMMA QueuedKeeps ==
  ASSUME IInv, TypeInv', UNCHANGED termVars,
         UNCHANGED <<life, out, emitted, attached, dispatcher, forwarder, spoiled>>,
         unread # <<>>, attached, forwarder = Idle, Head(unread) # Other,
         unread' = Tail(unread), queue' = Append(queue, Head(unread))
  PROVE  IInv'
<1> DEFINE m == Head(unread)
           r == RankOf(m, out)
<1>t. PhaseInv /\ TypeInv /\ OrderInv /\ out \in Nat /\ UNCHANGED <<pc, pending, shown, seedCursor>>
      /\ Len(queue) \in Nat /\ Queued \subseteq 1 .. out + 1 /\ OnItsWay \subseteq 1 .. out + 1
  BY Bounds DEF IInv, termVars
<1>m. m \in Msgs({"data", "exit", "replay", "noSeed"}, out) /\ m.kind \in {"data", "exit"} /\ r = {Rank(m, out)}
      /\ forwarder.kind = "idle"
  <2>1. m \in Msgs({"data", "exit", "other"}, out)
    BY <1>t, TailShape DEF TypeInv
  <2> HIDE DEF m
  <2>2. m \in Msgs({"data", "exit", "replay", "noSeed"}, out) /\ m.kind \in {"data", "exit"}
    <3>1. m.kind \in {"data", "exit"}
      BY <1>t, <2>1, MsgKinds, KindsApart DEF m
    <3> QED BY <1>t, <2>1, <3>1, MsgKinds
  <2> QED BY <2>2, KindsApart DEF RankOf, Ranked
<1>q. /\ queue \in Seq(Msgs({"data", "exit", "replay", "noSeed"}, out))
      /\ Len(queue') = Len(queue) + 1 /\ queue'[Len(queue) + 1] = m
      /\ \A i \in 1 .. Len(queue) : queue'[i] = queue[i]
      /\ \A i \in 1 .. Len(queue) + 1 : i \in 1 .. Len(queue) \/ i = Len(queue) + 1
      /\ 1 .. Len(queue) \subseteq 1 .. Len(queue) + 1
  <2>1. queue \in Seq(Msgs({"data", "exit", "replay", "noSeed"}, out))
    BY <1>t DEF TypeInv
  <2> QED BY <1>m, <1>t, <2>1, AppendShape
<1>1. /\ Unread = r \cup Unread' /\ Queued' = Queued \cup r /\ AllBefore(r, Unread')
      /\ Rising(unread, out)' /\ Rising(queue, out)'
  <2>1. /\ Rising(unread, out) /\ Rising(queue, out) /\ AllBefore(Ranks(queue, out), Ranks(unread, out))
        /\ unread \in Seq(Msgs({"data", "exit", "other"}, out))
    BY <1>t DEF OrderInv, Unread, Queued, TypeInv
  <2>2. LET p == RankOf(Head(unread), out)
        IN  /\ Rising(Tail(unread), out) /\ Rising(Append(queue, Head(unread)), out)
            /\ Ranks(unread, out) = p \cup Ranks(Tail(unread), out)
            /\ Ranks(Append(queue, Head(unread)), out) = Ranks(queue, out) \cup p
            /\ AllBefore(p, Ranks(Tail(unread), out))
    BY <1>m, <1>q, <2>1, MoveShape
  <2> QED BY <2>2 DEF Queued, Unread
<1>2. Pending' = Pending /\ Coming' = Coming /\ OnItsWay' = OnItsWay
  <2>1. Pending' = Pending /\ Coming' = Coming
    BY <1>t DEF Pending, Coming
  <2> QED BY <1>1, <2>1 DEF OnItsWay
<1> HIDE DEF m, r
<1>3. OrderInv'
  BY <1>1, <1>2, <1>t DEF OrderInv, AllBefore
<1>4. PhaseInv'
  BY <1>2, <1>t DEF PhaseInv
<1> SUFFICES ASSUME spoiled = {}
             PROVE  NoneGone' /\ TerminalInv' /\ (attached' /\ pc' \in {"asking", "open"} => Seamless')
  BY <1>3, <1>4 DEF IInv
<1>5. NoneGone' /\ TerminalInv'
  <2>1. NoneGone'
    BY <1>m, <1>q DEF IInv, NoneGone
  <2> QED BY <1>2, <1>t, <2>1 DEF IInv, TerminalInv
<1>6. ASSUME pc \in {"asking", "open"} PROVE Seamless'
  <2>1. Seamless
    BY <1>6 DEF IInv
  <2>2. \A k : Reached(k) => Reached(k)'
    BY <1>m, <1>q, <1>t DEF Reached
  <2>3. \A k, i : i \in 1 .. Len(queue) + 1 /\ SeedBefore(k, i) => SeedBefore(k, i)'
    BY <1>q, <1>t DEF SeedBefore
  <2>4. \A k : SeedBefore(k, Len(queue) + 1) => SeedBefore(k, Len(queue) + 1)'
    <3> SUFFICES ASSUME NEW k, NEW j \in 1 .. Len(queue), queue[j].kind = "replay" /\ k <= queue[j].at
                 PROVE  SeedBefore(k, Len(queue) + 1)'
      BY DEF SeedBefore
    <3>1. j < Len(queue') + 1 /\ j \in 1 .. Len(queue')
      BY <1>q, <1>t
    <3> QED BY <1>q, <3>1 DEF SeedBefore
  <2>5. PendingFollows'
    BY <1>2, <2>1, <2>2 DEF Seamless, PendingFollows
  <2>6. QueueFollows'
    <3> SUFFICES ASSUME NEW i \in 1 .. Len(queue'), NEW k, Ranked(queue'[i]), k = Rank(queue'[i], out) - 1
                 PROVE  Reached(k)' \/ k \in Pending \cup Queued' \/ SeedBefore(k, i)'
      BY <1>2, <1>t DEF QueueFollows
    <3>0. i \in 1 .. Len(queue) + 1
      BY <1>q
    <3>1. CASE i \in 1 .. Len(queue)
      <4>1. Reached(k) \/ k \in Pending \cup Queued \/ SeedBefore(k, i)
        BY <1>q, <2>1, <3>1 DEF Seamless, QueueFollows
      <4> QED BY <1>1, <2>2, <2>3, <3>0, <4>1
    <3>2. CASE i = Len(queue) + 1
      <4>1. k = Rank(m, out) - 1 /\ Rank(m, out) \in Unread
        BY <1>1, <1>m, <1>q, <3>2
      <4>2. Covered(k)
        BY <2>1, <4>1 DEF Seamless, RestFollows
      <4>3. k \notin Unread \cup Coming
        <5>1. Rank(m, out) \in 1 .. out + 1
          BY <1>t, <4>1 DEF OnItsWay
        <5>2. ~(Rank(m, out) < k) /\ k # Rank(m, out)
          BY <1>t, <4>1, <5>1
        <5>3. k \notin Unread
          BY <1>1, <1>m, <5>2 DEF AllBefore
        <5>4. k \notin Coming
          BY <1>t, <4>1, <5>2 DEF AllBefore, OrderInv
        <5> QED BY <5>3, <5>4
      <4>4. Reached(k) \/ k \in Pending \cup Queued \/ SeedBefore(k, Len(queue) + 1)
        BY <1>m, <4>2, <4>3 DEF Covered, OnItsWay, ByForwarder
      <4> QED BY <1>1, <2>2, <2>3, <3>0, <3>2, <4>4
    <3> QED BY <1>q, <3>0, <3>1, <3>2
  <2>7. RestFollows'
    <3>1. \A k : Covered(k) => Covered(k)'
      BY <1>2, <2>2, <2>4 DEF Covered, ByForwarder
    <3> QED BY <1>1, <1>2, <2>1, <3>1 DEF Seamless, RestFollows
  <2> QED BY <2>5, <2>6, <2>7 DEF Seamless
<1> QED BY <1>5, <1>6, <1>t

\* The forwarder takes events off the bus.
LEMMA ForwardKeeps ==
  ASSUME IInv, TypeInv', Forward \/ Lag, UNCHANGED termVars
  PROVE  IInv'
<1>t. PhaseInv /\ TypeInv /\ OrderInv /\ out \in Nat
  BY Bounds DEF IInv
<1>u. unread \in Seq(Msgs({"data", "exit", "other"}, out)) /\ Rising(unread, out)
  BY <1>t DEF TypeInv, OrderInv
<1>1. CASE Forward
  <2> DEFINE m == Head(unread)
             wanted == attached /\ m # Other
  <2>1. /\ forwarder = Idle /\ unread # <<>> /\ unread' = Tail(unread)
        /\ UNCHANGED <<life, out, emitted, attached, forwarder, dispatcher>>
        /\ queue' = (IF wanted /\ Fits THEN Append(queue, m) ELSE queue)
        /\ spoiled \subseteq spoiled' /\ (wanted /\ ~Fits => spoiled' # {})
        /\ (attached /\ (wanted => Fits) => spoiled' = spoiled)
    BY <1>1 DEF Forward, Note
  <2>2. Unread = RankOf(m, out) \cup Unread' /\ Rising(unread, out)'
    <3>1. Ranks(unread, out) = RankOf(m, out) \cup Ranks(Tail(unread), out)
      BY <1>u, <2>1, RanksTail
    <3>2. Rising(Tail(unread), out)
      BY <1>u, <2>1, RisingTail
    <3> QED BY <2>1, <3>1, <3>2 DEF Unread
  <2>3. CASE wanted /\ Fits
    BY <2>1, <2>3, QueuedKeeps
  <2>4. CASE ~(wanted /\ Fits)
    <3>1. m = Other => Unread' = Unread
      BY <2>2, KindsApart DEF RankOf, Ranked
    <3> QED BY <2>1, <2>2, <2>4, <3>1, PassedKeeps
  <2> QED BY <2>3, <2>4
<1>2. CASE Lag
  <2>1. /\ forwarder = Idle /\ unread' = Retained /\ spoiled \subseteq spoiled'
        /\ UNCHANGED <<life, out, emitted, attached, dispatcher, queue>>
        /\ forwarder' = IF attached THEN Item("resync", 0) ELSE Idle
    BY <1>2 DEF Lag, Note
  <2>2. BusCap \in Nat /\ BusCap <= Len(unread)
    BY <1>2, <1>u, CapsAssumption DEF Lag, Lagging
  <2>3. Rising(Retained, out) /\ Ranks(Retained, out) \subseteq Ranks(unread, out)
    BY <1>u, <2>2, EndShape DEF Retained
  <2>4. Rising(unread, out)' /\ Unread' \subseteq Unread
    BY <2>1, <2>3 DEF Unread
  <2>5. attached => forwarder'.kind = "resync"
    BY <2>1, KindsApart
  <2> QED BY <2>1, <2>4, <2>5, PassedKeeps
<1> QED BY <1>1, <1>2

\* The client reads the head of the queue.
LEMMA ReadShape ==
  ASSUME IInv, Read, NEW m, m = Head(queue)
  PROVE  /\ m \in Msgs({"data", "exit", "replay", "noSeed"}, out) /\ m = queue[1] /\ 1 \in 1 .. Len(queue)
         /\ Queued = RankOf(m, out) \cup Queued' /\ Rising(queue, out)' /\ AllBefore(RankOf(m, out), Queued')
         /\ \A i \in 1 .. Len(queue') : i + 1 \in 1 .. Len(queue) /\ queue'[i] = queue[i + 1]
         /\ \A k, i : i \in 1 .. Len(queue') + 1 /\ SeedBefore(k, i + 1) =>
                        (m.kind = "replay" /\ k <= m.at) \/ SeedBefore(k, i)'
         /\ \A k : SeedBefore(k, Len(queue) + 1) =>
                     (m.kind = "replay" /\ k <= m.at) \/ SeedBefore(k, Len(queue) + 1)'
<1>0. queue # <<>> /\ queue' = Tail(queue) /\ out' = out
  BY DEF Read, daemonVars
<1>1. queue \in Seq(Msgs({"data", "exit", "replay", "noSeed"}, out)) /\ Rising(queue, out)
  BY DEF IInv, TypeInv, OrderInv
<1>2. /\ Len(queue') = Len(queue) - 1 /\ Len(queue) \in Nat \ {0} /\ m = queue[1]
      /\ \A i \in 1 .. Len(queue) - 1 : queue'[i] = queue[i + 1]
      /\ m \in Msgs({"data", "exit", "replay", "noSeed"}, out)
  BY <1>0, <1>1, TailShape
<1>3. Queued = RankOf(m, out) \cup Queued'
  BY <1>0, <1>1, RanksTail DEF Queued
<1>4. Rising(queue, out)' /\ AllBefore(RankOf(m, out), Queued')
  BY <1>0, <1>1, RisingTail DEF Queued
<1>5. 1 \in 1 .. Len(queue) /\ \A i \in 1 .. Len(queue') : i + 1 \in 1 .. Len(queue) /\ queue'[i] = queue[i + 1]
  BY <1>2
<1>6. \A j \in 1 .. Len(queue) : j = 1 \/ (j - 1 \in 1 .. Len(queue') /\ queue'[j - 1] = queue[j])
  BY <1>2
<1>7. ASSUME NEW k, NEW i \in 1 .. Len(queue') + 1, SeedBefore(k, i + 1), ~(m.kind = "replay" /\ k <= m.at)
      PROVE  SeedBefore(k, i)'
  <2>1. PICK j \in 1 .. Len(queue) : j < i + 1 /\ queue[j].kind = "replay" /\ k <= queue[j].at
    BY <1>7 DEF SeedBefore
  <2>2. j - 1 \in 1 .. Len(queue') /\ queue'[j - 1] = queue[j] /\ j - 1 < i
    BY <1>2, <1>6, <1>7, <2>1
  <2> QED BY <2>1, <2>2 DEF SeedBefore
<1>8. ASSUME NEW k, SeedBefore(k, Len(queue) + 1), ~(m.kind = "replay" /\ k <= m.at)
      PROVE  SeedBefore(k, Len(queue) + 1)'
  <2>1. PICK j \in 1 .. Len(queue) : j < Len(queue) + 1 /\ queue[j].kind = "replay" /\ k <= queue[j].at
    BY <1>8 DEF SeedBefore
  <2>2. j - 1 \in 1 .. Len(queue') /\ queue'[j - 1] = queue[j] /\ j - 1 < Len(queue') + 1
    BY <1>2, <1>6, <1>8, <2>1
  <2> QED BY <2>1, <2>2 DEF SeedBefore
<1> QED BY <1>2, <1>3, <1>4, <1>5, <1>7, <1>8

\* What is taken off the queue is on the terminal, or waits there.
LEMMA TakenKeeps ==
  ASSUME IInv, Seamless, Read, NEW m, m = Head(queue), PendingFollows', Pending \subseteq Pending',
         \A k \in 0 .. out : Reached(k) \/ (m.kind = "replay" /\ k <= m.at) => Reached(k)',
         \A k \in RankOf(m, out) : k \in Pending' \/ Reached(k)'
  PROVE  Seamless'
<1>b. out \in Nat /\ Queued \subseteq 1 .. out + 1 /\ Unread \subseteq 1 .. out + 1 /\ Coming \subseteq 1 .. out + 1
      /\ Len(queue') \in Nat
      /\ \A i \in 1 .. Len(queue) : Ranked(queue[i]) => Rank(queue[i], out) \in Queued
  <2>1. queue \in Seq(Msgs({"data", "exit", "replay", "noSeed"}, out)) /\ queue # <<>> /\ queue' = Tail(queue)
    BY DEF IInv, TypeInv, Read
  <2>2. Len(queue') \in Nat
    BY <2>1
  <2> QED BY <2>2, Bounds DEF IInv
<1>0. UNCHANGED <<out, emitted, unread, forwarder>>
  BY DEF Read, daemonVars
<1>1. Unread' = Unread /\ Coming' = Coming
  BY <1>0 DEF Unread, Coming
<1>2. \A k : k \in Pending \cup Queued => k \in Pending' \cup Queued' \/ Reached(k)'
  BY ReadShape
<1>3. \A k : k \in OnItsWay => k \in OnItsWay' \/ Reached(k)'
  BY <1>1, <1>2 DEF OnItsWay
<1>4. QueueFollows'
  <2> SUFFICES ASSUME NEW i \in 1 .. Len(queue'), NEW k, Ranked(queue'[i]), k = Rank(queue'[i], out) - 1
               PROVE  Reached(k)' \/ k \in Pending' \cup Queued' \/ SeedBefore(k, i)'
    BY <1>0 DEF QueueFollows
  <2>1. i + 1 \in 1 .. Len(queue) /\ queue'[i] = queue[i + 1] /\ i \in 1 .. Len(queue') + 1
    BY <1>b, ReadShape
  <2>2. Rank(queue'[i], out) \in 1 .. out + 1
    BY <1>b, <2>1
  <2>3. k \in 0 .. out
    BY <1>b, <2>2
  <2>4. Reached(k) \/ k \in Pending \cup Queued \/ SeedBefore(k, i + 1)
    BY <2>1 DEF Seamless, QueueFollows
  <2>5. SeedBefore(k, i + 1) => (m.kind = "replay" /\ k <= m.at) \/ SeedBefore(k, i)'
    BY <2>1, ReadShape
  <2> QED BY <1>2, <2>3, <2>4, <2>5
<1>5. RestFollows'
  <2> SUFFICES ASSUME NEW x \in Unread \cup Coming \cup {out + 1} PROVE Covered(x - 1)'
    BY <1>0, <1>1 DEF RestFollows
  <2>1. x - 1 \in 0 .. out
    BY <1>b
  <2>2. Covered(x - 1)
    BY DEF Seamless, RestFollows
  <2>3. ByForwarder(x - 1) => ByForwarder(x - 1)'
    BY <1>0 DEF ByForwarder
  <2>4. SeedBefore(x - 1, Len(queue) + 1) =>
          (m.kind = "replay" /\ x - 1 <= m.at) \/ SeedBefore(x - 1, Len(queue) + 1)'
    BY ReadShape
  <2> QED BY <1>3, <2>1, <2>2, <2>3, <2>4 DEF Covered
<1> QED BY <1>4, <1>5 DEF Seamless

\* An event that comes before the seed waits.
LEMMA StashKeeps ==
  ASSUME IInv, TypeInv', Stash
  PROVE  IInv'
<1>t. PhaseInv /\ TypeInv /\ OrderInv /\ out \in Nat /\ Len(queue) \in Nat
  BY Bounds DEF IInv
<1>0. PICK m : m = Head(queue)
  OBVIOUS
<1>1. /\ Read /\ pc = "asking" /\ pending' = Append(pending, m) /\ m.kind \notin {"replay", "noSeed"}
      /\ UNCHANGED <<life, out, emitted, unread, attached, forwarder, dispatcher, pc, shown, seedCursor, spoiled>>
      /\ queue # <<>> /\ queue' = Tail(queue)
  BY <1>0 DEF Stash, Read, IsSeed, daemonVars
<1>2. /\ m \in Msgs({"data", "exit", "replay", "noSeed"}, out) /\ m = queue[1] /\ 1 \in 1 .. Len(queue)
      /\ Queued = RankOf(m, out) \cup Queued' /\ Rising(queue, out)' /\ AllBefore(RankOf(m, out), Queued')
      /\ \A i \in 1 .. Len(queue') : i + 1 \in 1 .. Len(queue) /\ queue'[i] = queue[i + 1]
  BY <1>0, <1>1, ReadShape
<1>3. m \in Msgs({"data", "exit"}, out) /\ RankOf(m, out) = {Rank(m, out)} /\ Ranked(m)
  <2>1. m.kind \in {"data", "exit"}
    BY <1>1, <1>2, <1>t, StreamMsgs DEF IsSeed
  <2> QED BY <1>2, <1>t, <2>1, MsgKinds DEF RankOf, Ranked
<1>4. Pending' = Pending \cup RankOf(m, out) /\ Rising(pending, out)'
  <2>1. pending \in Seq(Msgs({"data", "exit"}, out)) /\ Rising(pending, out)
        /\ AllBefore(Ranks(pending, out), RankOf(m, out))
    BY <1>2, <1>t DEF TypeInv, OrderInv, AllBefore, Pending
  <2>2. Ranks(Append(pending, m), out) = Ranks(pending, out) \cup RankOf(m, out)
    BY <1>3, <2>1, RanksAppend
  <2>3. Rising(Append(pending, m), out)
    BY <1>3, <2>1, RisingAppend
  <2> QED BY <1>1, <2>2, <2>3 DEF Pending
<1>5. Unread' = Unread /\ Coming' = Coming /\ OnItsWay' = OnItsWay
  <2>1. Unread' = Unread /\ Coming' = Coming
    BY <1>1 DEF Unread, Coming
  <2> QED BY <1>2, <1>4, <2>1 DEF OnItsWay
<1>6. OrderInv'
  BY <1>1, <1>2, <1>4, <1>5, <1>t DEF OrderInv, AllBefore
<1>7. attached /\ PhaseInv'
  BY <1>1, <1>5, <1>t DEF PhaseInv
<1> SUFFICES ASSUME spoiled = {}
             PROVE  NoneGone' /\ TerminalInv' /\ (attached' /\ pc' \in {"asking", "open"} => Seamless')
  BY <1>1, <1>6, <1>7 DEF IInv
<1>8. NoneGone' /\ TerminalInv'
  BY <1>1, <1>2 DEF IInv, NoneGone, TerminalInv
<1>9. Seamless'
  <2>1. Seamless
    BY <1>1, <1>7 DEF IInv
  <2>2. \A k : Reached(k) => Reached(k)'
    BY <1>1, <1>2 DEF Reached
  <2>3. PendingFollows'
    <3> SUFFICES ASSUME NEW x \in Pending' PROVE Reached(x - 1)' \/ x - 1 \in Pending'
      BY DEF PendingFollows
    <3>1. CASE x \in Pending
      BY <1>4, <2>1, <2>2, <3>1 DEF Seamless, PendingFollows
    <3>2. CASE x = Rank(m, out)
      <4>1. Reached(x - 1) \/ x - 1 \in Pending \cup Queued \/ SeedBefore(x - 1, 1)
        BY <1>2, <1>3, <2>1, <3>2 DEF Seamless, QueueFollows
      <4>2. ~SeedBefore(x - 1, 1)
        BY DEF SeedBefore
      <4>3. x - 1 \notin Queued
        <5>1. x \in Queued /\ Queued \subseteq 1 .. out + 1
          BY <1>2, <1>3, <1>t, <3>2, Bounds
        <5>2. ~(x < x - 1) /\ x # x - 1
          BY <1>t, <5>1
        <5> QED BY <1>2, <1>3, <3>2, <5>2 DEF AllBefore
      <4> QED BY <1>4, <2>2, <4>1, <4>2, <4>3
    <3> QED BY <1>3, <1>4, <3>1, <3>2
  <2> QED BY <1>0, <1>1, <1>4, <2>1, <2>2, <2>3, TakenKeeps
<1> QED BY <1>8, <1>9

\* The seed comes: the terminal shows what it covers.
LEMMA ReadSeedKeeps ==
  ASSUME IInv, TypeInv', ReadSeed
  PROVE  IInv'
<1>t. PhaseInv /\ TypeInv /\ OrderInv /\ out \in Nat /\ Len(queue) \in Nat
  BY Bounds DEF IInv
<1>0. PICK m : m = Head(queue)
  OBVIOUS
<1>1. /\ Read /\ pc = "asking" /\ pc' = "open" /\ m.kind \in {"replay", "noSeed"}
      /\ shown' = UpTo(m.at) /\ seedCursor' = m.at
      /\ UNCHANGED <<life, out, emitted, unread, attached, forwarder, dispatcher, pending, spoiled>>
      /\ queue # <<>> /\ queue' = Tail(queue)
  BY <1>0 DEF ReadSeed, Read, IsSeed, daemonVars
<1>2. /\ m \in Msgs({"data", "exit", "replay", "noSeed"}, out) /\ m = queue[1] /\ 1 \in 1 .. Len(queue)
      /\ Queued = RankOf(m, out) \cup Queued' /\ Rising(queue, out)'
      /\ \A i \in 1 .. Len(queue') : i + 1 \in 1 .. Len(queue) /\ queue'[i] = queue[i + 1]
  BY <1>0, <1>1, ReadShape
<1>3. RankOf(m, out) = {} /\ m.at \in 0 .. out /\ m.at \in Nat /\ Len(UpTo(m.at)) = m.at
  <2>1. m.at \in 0 .. out /\ m.at \in Nat
    BY <1>2, <1>t, StreamMsgs
  <2> QED BY <1>1, <2>1, UpToIs DEF RankOf, Ranked
<1>4. Pending' = Pending /\ Queued' = Queued /\ Unread' = Unread /\ Coming' = Coming /\ OnItsWay' = OnItsWay
  <2>1. Pending' = Pending /\ Queued' = Queued /\ Unread' = Unread /\ Coming' = Coming
    BY <1>1, <1>2, <1>3 DEF Pending, Unread, Coming
  <2> QED BY <2>1 DEF OnItsWay
<1>5. OrderInv'
  BY <1>1, <1>2, <1>4, <1>t DEF OrderInv
<1>6. attached /\ PhaseInv'
  BY <1>1, <1>4, <1>t DEF PhaseInv
<1> SUFFICES ASSUME spoiled = {}
             PROVE  NoneGone' /\ TerminalInv' /\ (attached' /\ pc' \in {"asking", "open"} => Seamless')
  BY <1>1, <1>5, <1>6 DEF IInv
<1>n. NoneGone /\ m.kind = "replay"
  BY <1>1, <1>2 DEF IInv, NoneGone
<1>7. NoneGone'
  BY <1>1, <1>2, <1>n DEF NoneGone
<1>8. TerminalInv'
  <2>1. OnItsWay \subseteq 1 .. out + 1
    BY <1>t, Bounds
  <2> QED BY <1>1, <1>3, <1>4, <1>t, <2>1 DEF TerminalInv
<1>9. Seamless'
  <2>1. Seamless
    BY <1>1, <1>6 DEF IInv
  <2>2. \A k \in 0 .. out : Reached(k) \/ (m.kind = "replay" /\ k <= m.at) => Reached(k)'
    <3>1. \A k : Reached(k) => k <= m.at
      BY <1>1, <1>2, <1>n DEF Reached
    <3> QED BY <1>1, <1>3, <3>1 DEF Reached
  <2>3. PendingFollows'
    <3>1. \A x \in Pending : x - 1 \in 0 .. out
      BY <1>t, Bounds
    <3> QED BY <1>4, <2>1, <2>2, <3>1 DEF Seamless, PendingFollows
  <2> QED BY <1>0, <1>1, <1>3, <1>4, <2>1, <2>2, <2>3, TakenKeeps
<1> QED BY <1>7, <1>8, <1>9

\* Painting output that is next, or that is within the splice point.
LEMMA PaintShape ==
  ASSUME TypeInv, TerminalInv, pc = "open", NEW m \in Msgs({"data", "exit"}, out), Paint(m),
         Rank(m, out) \in OnItsWay, Rank(m, out) <= Len(shown) + 1
  PROVE  /\ shown' = UpTo(Len(shown')) /\ Len(shown') \in Nat /\ Len(shown') <= out
         /\ Len(shown) <= Len(shown') /\ Len(shown') \in {Len(shown), Rank(m, out)}
         /\ seedCursor' = seedCursor /\ seedCursor <= Len(shown)
         /\ pc' = IF m.kind = "exit" THEN "ended" ELSE "open"
         /\ m.kind = "exit" => Len(shown') = out /\ Rank(m, out) = out + 1
         /\ m.kind # "exit" => Rank(m, out) <= Len(shown')
<1>0. /\ out \in Nat /\ Len(shown) \in Nat /\ shown = UpTo(Len(shown)) /\ Len(shown) <= out
      /\ seedCursor <= Len(shown) /\ seedCursor \in Nat
      /\ Rank(m, out) > Len(shown) \/ Rank(m, out) <= seedCursor
  BY Bounds DEF TerminalInv, TypeInv
<1>1. m.kind \in {"data", "exit"} /\ (m.kind = "data" => m.at \in 1 .. out)
  BY <1>0, MsgKinds
<1>2. pc' = (IF m.kind = "exit" THEN "ended" ELSE "open") /\ seedCursor' = seedCursor
      /\ shown' = IF m.kind = "data" /\ m.at > seedCursor THEN Append(shown, m.at) ELSE shown
  BY <1>1 DEF Paint, Painted, Ends, IsSeed
<1>3. CASE m.kind = "exit"
  <2>1. Rank(m, out) = out + 1
    BY <1>3 DEF Rank
  <2> QED BY <1>0, <1>2, <1>3, <2>1
<1>4. CASE m.kind = "data"
  <2>1. Rank(m, out) = m.at
    BY <1>4 DEF Rank
  <2>2. CASE m.at > seedCursor
    <3>1. m.at = Len(shown) + 1
      BY <1>0, <1>1, <1>4, <2>1, <2>2
    <3>2. Append(UpTo(Len(shown)), Len(shown) + 1) = UpTo(Len(shown) + 1)
      BY <1>0, UpToIs
    <3>3. shown' = UpTo(m.at) /\ m.at \in Nat
      BY <1>0, <1>2, <1>4, <2>2, <3>1, <3>2
    <3>4. Len(shown') = m.at
      BY <3>3, UpToIs
    <3>5. shown' = UpTo(Len(shown'))
      BY <3>3, <3>4
    <3>6. Len(shown') \in Nat /\ Len(shown') <= out /\ Len(shown) <= Len(shown') /\ Len(shown') = Rank(m, out)
      BY <1>0, <1>1, <1>4, <2>1, <3>1, <3>4
    <3> QED BY <1>0, <1>2, <1>4, <3>5, <3>6
  <2>3. CASE m.at <= seedCursor
    BY <1>0, <1>1, <1>2, <1>4, <2>1, <2>3
  <2> QED BY <1>0, <1>1, <1>4, <2>2, <2>3
<1> QED BY <1>1, <1>3, <1>4

\* The client paints what has waited.
LEMMA PumpPendingKeeps ==
  ASSUME IInv, TypeInv', PumpPending
  PROVE  IInv'
<1>t. PhaseInv /\ TypeInv /\ OrderInv /\ out \in Nat /\ Pending \subseteq 1 .. out + 1
  BY Bounds DEF IInv
<1>0. PICK m : m = Head(pending)
  OBVIOUS
<1>1. /\ pc = "open" /\ pending # <<>> /\ pending' = Tail(pending) /\ Paint(m)
      /\ UNCHANGED <<life, out, emitted, unread, attached, forwarder, dispatcher, queue, spoiled>>
  BY <1>0 DEF PumpPending, streamVars, daemonVars, connVars
<1>2. /\ m \in Msgs({"data", "exit"}, out)
      /\ Pending = RankOf(m, out) \cup Pending' /\ Rising(pending, out)' /\ AllBefore(RankOf(m, out), Pending')
  <2>1. pending \in Seq(Msgs({"data", "exit"}, out)) /\ Rising(pending, out)
    BY <1>t DEF TypeInv, OrderInv
  <2>2. m \in Msgs({"data", "exit"}, out)
    BY <1>0, <1>1, <2>1, TailShape
  <2>3. Ranks(pending, out) = RankOf(m, out) \cup Ranks(Tail(pending), out)
    BY <1>0, <1>1, <2>1, RanksTail
  <2>4. Rising(Tail(pending), out) /\ AllBefore(RankOf(m, out), Ranks(Tail(pending), out))
    BY <1>0, <1>1, <2>1, RisingTail
  <2> QED BY <1>1, <2>2, <2>3, <2>4 DEF Pending
<1>3. RankOf(m, out) = {Rank(m, out)} /\ Rank(m, out) \in Pending /\ Rank(m, out) \in 1 .. out + 1
  <2>1. Ranked(m)
    BY <1>2, <1>t, MsgKinds DEF Ranked
  <2> QED BY <1>2, <1>t, <2>1 DEF RankOf
<1>4. Queued' = Queued /\ Unread' = Unread /\ Coming' = Coming /\ OnItsWay' \subseteq OnItsWay
      /\ OnItsWay \subseteq OnItsWay' \cup {Rank(m, out)} /\ Rank(m, out) \in OnItsWay
  <2>1. Queued' = Queued /\ Unread' = Unread /\ Coming' = Coming
    BY <1>1 DEF Queued, Unread, Coming
  <2> QED BY <1>2, <1>3, <2>1 DEF OnItsWay
<1>5. OrderInv'
  BY <1>1, <1>2, <1>4, <1>t DEF OrderInv, AllBefore
<1>6. attached /\ PhaseInv'
  <2>1. pc' \in {"open", "ended"} /\ (pc' = "ended" => m.kind = "exit")
    BY <1>1 DEF Paint, Ends
  <2>2. pc' = "ended" => out + 1 \in OnItsWay
    BY <1>4, <2>1 DEF Rank
  <2> QED BY <1>1, <1>4, <1>t, <2>1, <2>2 DEF PhaseInv
<1> SUFFICES ASSUME spoiled = {}
             PROVE  NoneGone' /\ TerminalInv' /\ (attached' /\ pc' \in {"asking", "open"} => Seamless')
  BY <1>1, <1>5, <1>6 DEF IInv
<1>7. NoneGone /\ TerminalInv /\ Seamless
  BY <1>1, <1>6 DEF IInv
<1>8. Rank(m, out) <= Len(shown) + 1
  <2>1. Reached(Rank(m, out) - 1) \/ Rank(m, out) - 1 \in Pending
    BY <1>3, <1>7 DEF Seamless, PendingFollows
  <2>2. Rank(m, out) - 1 \notin Pending
    <3>1. ~(Rank(m, out) < Rank(m, out) - 1) /\ Rank(m, out) # Rank(m, out) - 1
      BY <1>3
    <3> QED BY <1>2, <1>3, <3>1 DEF AllBefore
  <2>3. Rank(m, out) - 1 <= Len(shown)
    BY <1>1, <2>1, <2>2 DEF Reached
  <2> QED BY <1>3, <1>t, <2>3, Bounds
<1>9. /\ shown' = UpTo(Len(shown')) /\ Len(shown') \in Nat /\ Len(shown') <= out
      /\ Len(shown) <= Len(shown') /\ Len(shown') \in {Len(shown), Rank(m, out)}
      /\ seedCursor' = seedCursor /\ seedCursor <= Len(shown)
      /\ pc' = (IF m.kind = "exit" THEN "ended" ELSE "open")
      /\ m.kind = "exit" => Len(shown') = out /\ Rank(m, out) = out + 1
      /\ m.kind # "exit" => Rank(m, out) <= Len(shown')
  BY <1>1, <1>2, <1>4, <1>7, <1>8, <1>t, PaintShape
<1>10. NoneGone'
  BY <1>1, <1>7 DEF NoneGone
<1>11. \A x \in OnItsWay' : x > Rank(m, out) /\ x \in OnItsWay /\ x \in 1 .. out + 1
  <2>1. \A x \in OnItsWay' : x > Rank(m, out)
    <3>1. \A x \in Pending' : Rank(m, out) < x
      BY <1>2, <1>3 DEF AllBefore
    <3>2. \A x \in Queued \cup Unread \cup Coming : Rank(m, out) < x
      BY <1>3, <1>t DEF OrderInv, AllBefore
    <3>3. \A x \in OnItsWay' : x \in 1 .. out + 1
      BY <1>4, <1>t, Bounds
    <3> QED BY <1>3, <1>4, <3>1, <3>2, <3>3 DEF OnItsWay
  <2> QED BY <1>4, <1>t, <2>1, Bounds
<1>12. TerminalInv'
  <2>1. \A x \in OnItsWay' : x > Len(shown') \/ x <= seedCursor'
    <3>1. \A x \in OnItsWay' : x > Len(shown) \/ x <= seedCursor
      BY <1>1, <1>7, <1>11 DEF TerminalInv
    <3> QED BY <1>9, <1>11, <3>1
  <2>2. seedCursor' <= Len(shown')
    <3>1. seedCursor \in Nat /\ Len(shown) \in Nat
      BY <1>t, Bounds DEF TypeInv
    <3> QED BY <1>9, <3>1
  <2> QED BY <1>1, <1>9, <2>1, <2>2 DEF TerminalInv
<1>13. ASSUME pc' = "open" PROVE Seamless'
  <2>0. m.kind # "exit" /\ Rank(m, out) <= Len(shown')
    BY <1>9, <1>13
  <2>1. \A k \in 0 .. out : Reached(k) => Reached(k)'
    <3>1. Len(shown) \in Nat
      BY <1>t, Bounds
    <3> QED BY <1>1, <1>9, <1>13, <3>1 DEF Reached
  <2> PICK n : n = Rank(m, out)
    OBVIOUS
  <2>2. Reached(n)'
    BY <1>13, <2>0 DEF Reached
  <2>3. \A k : k \in Pending \cup Queued => k \in Pending' \cup Queued' \/ Reached(k)'
    BY <1>2, <1>3, <1>4, <2>2
  <2>4. PendingFollows'
    <3> SUFFICES ASSUME NEW x \in Pending' PROVE Reached(x - 1)' \/ x - 1 \in Pending'
      BY DEF PendingFollows
    <3>1. x \in Pending /\ x - 1 \in 0 .. out
      BY <1>2, <1>t
    <3>2. Reached(x - 1) \/ x - 1 \in Pending
      BY <1>7, <3>1 DEF Seamless, PendingFollows
    <3> QED BY <1>2, <1>3, <2>1, <2>2, <3>1, <3>2
  <2>5. QueueFollows'
    <3> SUFFICES ASSUME NEW i \in 1 .. Len(queue), NEW k, Ranked(queue[i]), k = Rank(queue[i], out) - 1
                 PROVE  Reached(k)' \/ k \in Pending' \cup Queued' \/ SeedBefore(k, i)'
      BY <1>1 DEF QueueFollows
    <3>1. Rank(queue[i], out) \in 1 .. out + 1
      BY <1>t, Bounds
    <3>2. k \in 0 .. out
      BY <1>t, <3>1
    <3>3. Reached(k) \/ k \in Pending \cup Queued \/ SeedBefore(k, i)
      BY <1>7 DEF Seamless, QueueFollows
    <3>4. SeedBefore(k, i) => SeedBefore(k, i)'
      BY <1>1 DEF SeedBefore
    <3> QED BY <2>1, <2>3, <3>2, <3>3, <3>4
  <2>6. RestFollows'
    <3> SUFFICES ASSUME NEW x \in Unread \cup Coming \cup {out + 1} PROVE Covered(x - 1)'
      BY <1>1, <1>4 DEF RestFollows
    <3>1. x - 1 \in 0 .. out
      BY <1>t, Bounds
    <3>2. Covered(x - 1)
      BY <1>7 DEF Seamless, RestFollows
    <3>3. x - 1 \in OnItsWay => x - 1 \in OnItsWay' \/ Reached(x - 1)'
      BY <1>4, <2>2
    <3> QED BY <1>1, <2>1, <3>1, <3>2, <3>3 DEF Covered, SeedBefore, ByForwarder
  <2> QED BY <2>4, <2>5, <2>6 DEF Seamless
<1> QED BY <1>9, <1>10, <1>12, <1>13

\* The client paints what it reads.
LEMMA PumpOutputKeeps ==
  ASSUME IInv, TypeInv', PumpOutput
  PROVE  IInv'
<1>t. PhaseInv /\ TypeInv /\ OrderInv /\ out \in Nat /\ Queued \subseteq 1 .. out + 1 /\ Len(shown) \in Nat
  BY Bounds DEF IInv
<1>0. PICK m : m = Head(queue)
  OBVIOUS
<1>1. /\ Read /\ pc = "open" /\ pending = <<>> /\ Paint(m)
      /\ UNCHANGED <<life, out, emitted, unread, attached, forwarder, dispatcher, pending>>
      /\ spoiled \subseteq spoiled' /\ (IsSeed(m) /\ Newer(m.at) => spoiled' # {})
  BY <1>0 DEF PumpOutput, Read, daemonVars, Note
<1>2. /\ m \in Msgs({"data", "exit", "replay", "noSeed"}, out) /\ m = queue[1] /\ 1 \in 1 .. Len(queue)
      /\ Queued = RankOf(m, out) \cup Queued' /\ Rising(queue, out)' /\ AllBefore(RankOf(m, out), Queued')
      /\ \A i \in 1 .. Len(queue') : i + 1 \in 1 .. Len(queue) /\ queue'[i] = queue[i + 1]
  BY <1>0, <1>1, ReadShape
<1>3. Pending = {} /\ Pending' = {} /\ Unread' = Unread /\ Coming' = Coming /\ OnItsWay' \subseteq OnItsWay
  <2>1. Pending = {} /\ Pending' = {}
    BY <1>1 DEF Pending, Ranks
  <2>2. Unread' = Unread /\ Coming' = Coming
    BY <1>1 DEF Unread, Coming
  <2> QED BY <1>2, <2>1, <2>2 DEF OnItsWay
<1>4. OrderInv'
  BY <1>1, <1>2, <1>3, <1>t DEF OrderInv, AllBefore
<1>5. attached /\ PhaseInv'
  <2>1. pc' \in {"open", "ended"} /\ (pc' = "ended" => m.kind = "exit")
    BY <1>1 DEF Paint, Ends
  <2>2. pc' = "ended" => out + 1 \in OnItsWay
    BY <1>2, <2>1 DEF Rank, RankOf, Ranked, OnItsWay
  <2> QED BY <1>1, <1>3, <1>t, <2>1, <2>2 DEF PhaseInv
<1> SUFFICES ASSUME spoiled' = {}
             PROVE  NoneGone' /\ TerminalInv' /\ (attached' /\ pc' \in {"asking", "open"} => Seamless')
  BY <1>4, <1>5 DEF IInv
<1>6. NoneGone /\ TerminalInv /\ Seamless
  BY <1>1, <1>5 DEF IInv
<1>7. NoneGone'
  BY <1>1, <1>2, <1>6 DEF NoneGone
<1>8. CASE m.kind \in {"data", "exit"}
  <2>1. m \in Msgs({"data", "exit"}, out) /\ RankOf(m, out) = {Rank(m, out)} /\ Ranked(m)
    BY <1>2, <1>8, <1>t, MsgKinds DEF RankOf, Ranked
  <2>2. Rank(m, out) \in Queued /\ Rank(m, out) \in OnItsWay /\ Rank(m, out) \in 1 .. out + 1
    BY <1>2, <1>t, <2>1 DEF OnItsWay
  <2>3. Rank(m, out) <= Len(shown) + 1
    <3> DEFINE k == Rank(m, out) - 1
    <3>1. Reached(k) \/ k \in Pending \cup Queued \/ SeedBefore(k, 1)
      BY <1>2, <1>6, <2>1 DEF Seamless, QueueFollows
    <3>2. ~SeedBefore(k, 1)
      BY DEF SeedBefore
    <3>3. k \notin Queued
      <4>1. ~(Rank(m, out) < k) /\ Rank(m, out) # k
        BY <2>2
      <4> QED BY <1>2, <2>1, <4>1 DEF AllBefore
    <3>4. Reached(k)
      BY <1>3, <3>1, <3>2, <3>3
    <3>5. k <= Len(shown)
      BY <1>1, <3>4 DEF Reached
    <3> QED BY <1>t, <2>2, <3>5
  <2>4. /\ shown' = UpTo(Len(shown')) /\ Len(shown') \in Nat /\ Len(shown') <= out
        /\ Len(shown) <= Len(shown') /\ Len(shown') \in {Len(shown), Rank(m, out)}
        /\ seedCursor' = seedCursor /\ seedCursor <= Len(shown)
        /\ pc' = (IF m.kind = "exit" THEN "ended" ELSE "open")
        /\ m.kind = "exit" => Len(shown') = out /\ Rank(m, out) = out + 1
        /\ m.kind # "exit" => Rank(m, out) <= Len(shown')
    BY <1>1, <1>6, <1>t, <2>1, <2>2, <2>3, PaintShape
  <2>5. \A x \in OnItsWay' : x > Rank(m, out) /\ x \in OnItsWay /\ x \in 1 .. out + 1
    <3>1. \A x \in OnItsWay' : x \in OnItsWay /\ x \in 1 .. out + 1
      BY <1>3, <1>t, Bounds
    <3>2. \A x \in Queued' : Rank(m, out) < x
      BY <1>2, <2>1 DEF AllBefore
    <3>3. \A x \in Unread \cup Coming : Rank(m, out) < x
      BY <1>t, <2>2 DEF OrderInv, AllBefore
    <3> QED BY <1>3, <2>2, <3>1, <3>2, <3>3 DEF OnItsWay
  <2>6. TerminalInv'
    <3>1. \A x \in OnItsWay' : x > Len(shown') \/ x <= seedCursor'
      <4>1. \A x \in OnItsWay' : x > Len(shown) \/ x <= seedCursor
        BY <1>1, <1>6, <2>5 DEF TerminalInv
      <4> QED BY <2>4, <2>5, <4>1
    <3>2. seedCursor' <= Len(shown')
      BY <1>t, <2>4 DEF TypeInv
    <3> QED BY <1>1, <2>4, <3>1, <3>2 DEF TerminalInv
  <2>7. ASSUME pc' = "open" PROVE Seamless'
    <3>1. m.kind # "exit" /\ Rank(m, out) <= Len(shown')
      BY <2>4, <2>7
    <3>2. \A k \in 0 .. out : Reached(k) \/ (m.kind = "replay" /\ k <= m.at) => Reached(k)'
      BY <1>1, <1>8, <1>t, <2>4, <2>7 DEF Reached
    <3>3. \A k \in RankOf(m, out) : Reached(k)'
      BY <2>1, <2>7, <3>1 DEF Reached
    <3>4. PendingFollows'
      BY <1>3 DEF PendingFollows
    <3> QED BY <1>0, <1>1, <1>3, <1>6, <3>2, <3>3, <3>4, TakenKeeps
  <2> QED BY <1>7, <2>4, <2>6, <2>7
<1>9. CASE m.kind = "replay"
  <2>1. m.at \in 0 .. out /\ m.at \in Nat /\ RankOf(m, out) = {} /\ IsSeed(m)
    BY <1>2, <1>9, <1>t, MsgKinds DEF RankOf, Ranked, IsSeed
  <2>2. Len(shown) <= m.at /\ seedCursor <= Len(shown) /\ seedCursor \in Nat
    <3>0. ~Newer(m.at)
      BY <1>1, <2>1
    <3>1. shown = UpTo(Len(shown))
      BY <1>1, <1>6 DEF TerminalInv
    <3>4. seedCursor <= Len(shown) /\ seedCursor \in Nat
      BY <1>1, <1>6, <1>t DEF TerminalInv, TypeInv
    <3>2. CASE shown = <<>>
      <4>1. Len(shown) = 0
        BY <3>2
      <4> QED BY <2>1, <3>4, <4>1
    <3>3. CASE shown # <<>>
      <4>1. Len(shown) # 0 /\ Len(shown) \in 1 .. Len(shown)
        BY <1>t, <3>3 DEF TypeInv
      <4>2. UpTo(Len(shown))[Len(shown)] = Len(shown)
        BY <1>t, <4>1, UpToIs
      <4>3. shown[Len(shown)] = Len(shown)
        BY <3>1, <4>2
      <4>4. ~(shown[Len(shown)] > m.at)
        BY <3>0, <3>3 DEF Newer
      <4> QED BY <1>t, <2>1, <3>4, <4>3, <4>4
    <3> QED BY <3>2, <3>3
  <2>3. pc' = "open" /\ shown' = UpTo(m.at) /\ Len(shown') = m.at /\ seedCursor' = m.at
    <3>1. pc' = "open" /\ shown' = UpTo(m.at)
      BY <1>1, <1>9, <2>1 DEF Paint, Painted, Ends
    <3>2. seedCursor' = m.at
      BY <1>1, <1>t, <2>1, <2>2 DEF Paint
    <3> QED BY <2>1, <3>1, <3>2, UpToIs
  <2>4. TerminalInv'
    <3>1. \A x \in OnItsWay' : x \in 1 .. out + 1
      BY <1>3, <1>t, Bounds
    <3> QED BY <1>1, <1>t, <2>1, <2>3, <3>1 DEF TerminalInv
  <2>5. Seamless'
    <3>1. \A k \in 0 .. out : Reached(k) \/ (m.kind = "replay" /\ k <= m.at) => Reached(k)'
      BY <1>1, <1>t, <2>1, <2>2, <2>3 DEF Reached
    <3>2. PendingFollows'
      BY <1>3 DEF PendingFollows
    <3> QED BY <1>0, <1>1, <1>3, <1>6, <2>1, <3>1, <3>2, TakenKeeps
  <2> QED BY <1>7, <2>4, <2>5
<1>10. m.kind # "noSeed"
  BY <1>2, <1>6 DEF NoneGone
<1> QED BY <1>2, <1>8, <1>9, <1>10, <1>t, MsgKinds

-----------------------------------------------------------------------------
(* The theorems.                                                           *)

\* The invariant holds at the start.
LEMMA InitKeeps == Init => IInv
<1> SUFFICES ASSUME Init PROVE IInv
  OBVIOUS
<1>1. /\ out = 0 /\ emitted = <<>> /\ unread = <<>> /\ queue = <<>> /\ pending = <<>> /\ shown = <<>>
      /\ noise = 0 /\ attached = FALSE /\ forwarder = Idle /\ dispatcher = Idle /\ spoiled = {}
      /\ life = "running" /\ pc = "start" /\ seedCursor = 0 /\ repaints = 0
  BY DEF Init, StreamInit
<1>2. TypeInv
  <2>1. Idle \in Msgs({"idle", "resync", "replay", "noSeed"}, out)
        /\ Idle \in Msgs({"idle", "asked", "subscribed", "replay", "noSeed"}, out)
    BY <1>1, MsgIs, KindsApart
  <2>2. \A S : <<>> \in Seq(S) /\ Len(<<>>) = 0
    OBVIOUS
  <2>3. /\ emitted \in Seq(Msgs({"data", "exit"}, out)) /\ unread \in Seq(Msgs({"data", "exit", "other"}, out))
        /\ queue \in Seq(Msgs({"data", "exit", "replay", "noSeed"}, out)) /\ Len(queue) <= QueueCap
        /\ pending \in Seq(Msgs({"data", "exit"}, out)) /\ shown \in Seq(1 .. out)
    BY <1>1, <2>2, CapsAssumption
  <2>4. out \in 0 .. MaxOut /\ noise \in 0 .. MaxNoise /\ seedCursor \in 0 .. out /\ repaints \in 0 .. MaxRepaints
    BY <1>1, CapsAssumption, RepaintsAssumption
  <2> QED BY <1>1, <2>1, <2>3, <2>4 DEF TypeInv
<1>3. \A o : Ranks(<<>>, o) = {} /\ Rising(<<>>, o)
  BY DEF Ranks, Rising
<1>4. OnItsWay = {} /\ Pending = {} /\ Queued = {} /\ Unread = {} /\ Coming = {}
  BY <1>1, <1>3 DEF OnItsWay, Pending, Queued, Unread, Coming
<1>5. OrderInv
  BY <1>1, <1>3, <1>4 DEF OrderInv, AllBefore
<1>6. PhaseInv
  BY <1>1, <1>4, KindsApart DEF PhaseInv
<1>7. NoneGone /\ TerminalInv
  BY <1>1, KindsApart DEF NoneGone, TerminalInv
<1> QED BY <1>1, <1>2, <1>5, <1>6, <1>7 DEF IInv

\* Every step keeps the invariant.
LEMMA NextKeeps == IInv /\ [Next]_vars => IInv'
<1> SUFFICES ASSUME IInv, [Next]_vars PROVE IInv'
  OBVIOUS
<1>0. TypeInv'
  BY TypeKeeps DEF IInv
<1>1. CASE (Flush \/ ChildExits) /\ UNCHANGED termVars
  BY <1>0, <1>1, OutputKeeps
<1>2. CASE (Forget \/ Kill \/ TakeSeed \/ TakeResync) /\ UNCHANGED termVars
  BY <1>0, <1>2, QuietKeeps
<1>3. CASE (Pump \/ PumpOther) /\ UNCHANGED termVars
  BY <1>0, <1>3, PumpKeeps
<1>4. CASE Subscribe /\ UNCHANGED termVars
  BY <1>0, <1>4, SubscribeKeeps
<1>5. CASE (ReplyToAttach \/ SendResync) /\ UNCHANGED termVars
  BY <1>0, <1>5, SeedKeeps
<1>6. CASE (Forward \/ Lag) /\ UNCHANGED termVars
  BY <1>0, <1>6, ForwardKeeps
<1>7. CASE Open \/ RequestRepaint \/ OpenTimesOut \/ UNCHANGED vars
  BY <1>0, <1>7, AskKeeps
<1>8. CASE Stash
  BY <1>0, <1>8, StashKeeps
<1>9. CASE ReadSeed
  BY <1>0, <1>9, ReadSeedKeeps
<1>10. CASE PumpPending
  BY <1>0, <1>10, PumpPendingKeeps
<1>11. CASE PumpOutput
  BY <1>0, <1>11, PumpOutputKeeps
<1> QED
  BY <1>1, <1>2, <1>3, <1>4, <1>5, <1>6, <1>7, <1>8, <1>9, <1>10, <1>11
  DEF Next, StreamNext, DriverStep, DispatchStep, ForwardStep, ClientStep

\* The inductive invariant.
LEMMA IInvHolds == Spec => []IInv
  BY InitKeeps, NextKeeps, PTL DEF Spec

\* The terminal shows the session's output from its first chunk on, with no chunk missing,
\* doubled or out of order, unless a named mishap met it.
THEOREM AlwaysSeamless == Spec => []ShownSeamless
<1>1. IInv => ShownSeamless
  <2> SUFFICES ASSUME IInv, spoiled = {} PROVE shown = UpTo(Len(shown))
    BY DEF ShownSeamless
  <2>1. CASE pc \in {"open", "ended"}
    BY <2>1 DEF IInv, TerminalInv
  <2>2. CASE pc \notin {"open", "ended"}
    <3>1. shown = <<>>
      BY <2>2 DEF IInv, PhaseInv, TypeInv
    <3> QED BY <3>1 DEF UpTo
  <2> QED BY <2>1, <2>2
<1> QED BY <1>1, IInvHolds, PTL

\* When the terminal is told of the exit, everything the session ever output is on it.
THEOREM EndsWhole == Spec => []EndsComplete
<1>1. IInv => EndsComplete
  BY DEF IInv, TerminalInv, EndsComplete
<1> QED BY <1>1, IInvHolds, PTL

\* The types of the stream and of the terminal.
THEOREM AttachTyped == Spec => []TypeOK
<1>1. IInv => TypeOK
  <2> SUFFICES ASSUME TypeInv PROVE TypeOK
    BY DEF IInv
  <2>0. out \in Nat
    BY Bounds
  <2>1. \A kinds, m : m \in Msgs(kinds, out) =>
          /\ m.kind \in kinds
          /\ m.kind = "data" => m \in {Data(n) : n \in 1 .. out}
          /\ m.kind = "replay" => m \in {Replay(n) : n \in 0 .. out}
          /\ m.kind \notin {"data", "replay", "changed", "sessions"} => m = Item(m.kind, 0)
    <3> SUFFICES ASSUME NEW kinds, NEW m \in Msgs(kinds, out)
                 PROVE  /\ m.kind \in kinds
                        /\ m.kind = "data" => m \in {Data(n) : n \in 1 .. out}
                        /\ m.kind = "replay" => m \in {Replay(n) : n \in 0 .. out}
                        /\ m.kind \notin {"data", "replay", "changed", "sessions"} => m = Item(m.kind, 0)
      OBVIOUS
    <3>1. /\ m.kind \in kinds
          /\ m.kind = "data" => m.at \in 1 .. out
          /\ m.kind = "replay" => m.at \in 0 .. out
          /\ m.kind \notin {"data", "replay", "changed", "sessions"} => m = Item(m.kind, 0)
          /\ m = Item(m.kind, m.at)
      BY <2>0, MsgKinds
    <3> QED BY <3>1, KindsApart
  <2>2. \A i \in 1 .. Len(emitted) : emitted[i] \in {Exit} \cup {Data(n) : n \in 1 .. out}
    <3>1. \A i \in 1 .. Len(emitted) : emitted[i] \in Msgs({"data", "exit"}, out)
      BY DEF TypeInv
    <3> QED BY <2>1, <3>1, KindsApart
  <2>3. \A i \in 1 .. Len(pending) : pending[i] \in {Exit} \cup {Data(n) : n \in 1 .. out}
    <3>1. \A i \in 1 .. Len(pending) : pending[i] \in Msgs({"data", "exit"}, out)
      BY DEF TypeInv
    <3> QED BY <2>1, <3>1, KindsApart
  <2>4. \A i \in 1 .. Len(unread) : unread[i] \in {Exit, Other} \cup {Data(n) : n \in 1 .. out}
    <3>1. \A i \in 1 .. Len(unread) : unread[i] \in Msgs({"data", "exit", "other"}, out)
      BY DEF TypeInv
    <3> QED BY <2>1, <3>1, KindsApart
  <2>5. \A i \in 1 .. Len(queue) : queue[i] \in {Exit, NoSeed} \cup {Data(n) : n \in 1 .. out}
                                                \cup {Replay(n) : n \in 0 .. out}
    <3>1. \A i \in 1 .. Len(queue) : queue[i] \in Msgs({"data", "exit", "replay", "noSeed"}, out)
      BY DEF TypeInv
    <3> QED BY <2>1, <3>1, KindsApart
  <2>6. forwarder \in {Idle, NoSeed, Item("resync", 0)} \cup {Replay(n) : n \in 0 .. out}
    <3>1. forwarder \in Msgs({"idle", "resync", "replay", "noSeed"}, out)
      BY DEF TypeInv
    <3> QED BY <2>1, <3>1, KindsApart
  <2>7. dispatcher \in {Idle, NoSeed, Item("asked", 0), Item("subscribed", 0)}
                       \cup {Replay(n) : n \in 0 .. out}
    <3>1. dispatcher \in Msgs({"idle", "asked", "subscribed", "replay", "noSeed"}, out)
      BY DEF TypeInv
    <3> QED BY <2>1, <3>1, KindsApart
  <2>8. \A i \in 1 .. Len(shown) : shown[i] \in 1 .. out
    BY DEF TypeInv
  <2> QED BY <2>2, <2>3, <2>4, <2>5, <2>6, <2>7, <2>8 DEF TypeInv, TypeOK, StreamTypeOK
<1> QED BY <1>1, IInvHolds, PTL
=============================================================================
