-------------------------- MODULE MirrorStreamProofs --------------------------
(***************************************************************************)
(* Proofs about the application's copy of a session, for any capacity of   *)
(* the bus and of the queue, any amount of output and any number of kills, *)
(* pushes and lost connections: the mirror holds the output from its first *)
(* chunk on, all of it once nothing is under way, and a session that has   *)
(* ended leaves the client's list.                                         *)
(***************************************************************************)
EXTENDS MirrorStream, SessionStreamProofs

-----------------------------------------------------------------------------
(* The invariant.                                                          *)

QueueKinds    == {"data", "exit", "replay", "noSeed", "changed", "sessions"}
DispatchKinds == {"idle", "asked", "subscribed", "replay", "noSeed", "create", "list", "kill", "sessions"}

Shadows(o) ==
  [there : BOOLEAN, pending : BOOLEAN, text : Seq(1 .. o), bytes : Nat, primed : BOOLEAN]

TypeInv ==
  /\ life \in {"unborn", "running", "exited", "forgotten", "killed", "silent"}
  /\ out \in 0 .. MaxOut /\ noise \in 0 .. MaxNoise
  /\ emitted \in Seq(Msgs({"data", "exit"}, out))
  /\ unread \in Seq(Msgs({"data", "exit"}, out))
  /\ queue \in Seq(Msgs(QueueKinds, out)) /\ Len(queue) <= QueueCap
  /\ forwarder \in Msgs({"idle", "resync", "replay", "noSeed"}, out)
  /\ dispatcher \in Msgs(DispatchKinds, out)
  /\ attached \in BOOLEAN /\ spoiled \in SUBSET Mishaps
  /\ shadow \in Shadows(out) /\ (~shadow.there => shadow = NoShadow)
  /\ link \in {"seeding", "up", "down", "resync"}
  /\ notes \in Seq(Msgs({"changed"}, out))
  /\ draft \in Msgs({"noDraft", "changed"}, out)
  /\ sampled \in BOOLEAN /\ events \in 0 .. MaxEvents /\ lapses \in SUBSET Lapses

OnItsWay == Queued \cup Unread \cup Coming

\* Output is on its way in order.
OrderInv ==
  /\ Rising(queue, out) /\ Rising(unread, out) /\ Rising(emitted, out)
  /\ AllBefore(Queued, Unread) /\ AllBefore(Queued, Coming) /\ AllBefore(Unread, Coming)

\* What the daemon sends of the session.
OfSession == {"data", "exit", "replay", "noSeed"}

\* The client attaches over a connection that is up and after what it asked there was answered.
\* Until then nothing of the session is sent to it, and the mirror has no beginning but that
\* of a session it creates.
PhaseInv ==
  /\ life = "unborn" => out = 0
  /\ dispatcher.kind = "create" => life = "unborn" /\ link = "up"
  /\ attached => link = "up" /\ dispatcher.kind \notin {"asked", "list", "sessions"}
  /\ dispatcher.kind \in {"subscribed", "replay", "noSeed"} => attached
  /\ dispatcher.kind = "asked" => link = "up" /\ ~shadow.primed
  /\ ~attached => /\ forwarder = Idle
                  /\ \A m \in Among(queue) : m.kind \notin OfSession
                  /\ shadow.primed => dispatcher.kind = "create"
  /\ link = "seeding" => shadow.text = <<>>
  /\ out + 1 \in OnItsWay => life \in {"exited", "forgotten"}

Text == Among(shadow.text)

\* Each seed under way repaints chunk k.
SeedsCover(k) ==
  /\ forwarder.kind = "replay" => k <= forwarder.at
  /\ dispatcher.kind = "replay" => k <= dispatcher.at
  /\ \A m \in Among(queue) : m.kind = "replay" => k <= m.at

\* Chunk k is in the mirror, or the mirror has no beginning yet and its seed will bring it.
Promised(k) == ~shadow.primed /\ SeedsCover(k)
Reached(k)  == k \in Text \/ Promised(k)

\* Whatever stands in the mirror or waits finds all the output before it, in the mirror or by
\* what waits ahead of it.
TextFollows ==
  \A i \in 1 .. Len(shadow.text) : \A k \in 1 .. shadow.text[i] - 1 :
    Promised(k) \/ \E j \in 1 .. i - 1 : shadow.text[j] = k

QueueFollows ==
  \A i \in 1 .. Len(queue) : Ranked(queue[i]) =>
    \A k \in 1 .. Rank(queue[i], out) - 1 : Reached(k) \/ k \in Queued \/ SeedBefore(k, i)

Covered(k) ==
  Reached(k) \/ k \in OnItsWay \/ SeedBefore(k, Len(queue) + 1) \/ ByForwarder(k)

\* The chunk a live session outputs next follows what there is.
NextOut == {o \in {out + 1} : life \in {"running", "killed"}}

RestFollows == \A x \in Unread \cup Coming \cup NextOut : \A k \in 1 .. x - 1 : Covered(k)

NoneGone ==
  /\ forwarder.kind # "noSeed" /\ dispatcher.kind # "noSeed"
  /\ \A m \in Among(queue) : m.kind # "noSeed"

\* The mirror has its beginning, or a seed is under way to it.
SeedComes ==
  \/ shadow.primed \/ dispatcher.kind \in {"subscribed", "replay"}
  \/ \E m \in Among(queue) : m.kind = "replay"

Fine == spoiled \cap {"full", "gone"} = {} /\ lapses \cap {"behind", "dismissed"} = {}

Seam == NoneGone /\ TextFollows /\ QueueFollows /\ RestFollows /\ (life = "running" => SeedComes)

SeamInv ==
  Fine => /\ attached => Seam
          /\ dispatcher.kind = "create" => shadow.primed

\* The count is as far ahead of each chunk in the mirror as the mirror goes on after it: what a
\* seed at n does not cover is kept.
CountInv ==
  "behind" \notin lapses =>
    \A i \in 1 .. Len(shadow.text) : shadow.text[i] + Len(shadow.text) - i <= shadow.bytes

\* A snapshot that has the session.
Shows(m) == m.kind = "changed" /\ m.at # Absent

\* The client's own create is confirmed by what is on its way, or its entry is gone when
\* the connection is lost.
Confirmed ==
  \/ dispatcher.kind = "create"
  \/ \E m \in Among(notes) \cup Among(queue) : Shows(m)

\* What is on its way removes the entry, or a ListSessions will.
Removal ==
  \/ Exit \in Among(emitted) \/ Among(notes) # {} \/ link # "up"
  \/ \E m \in Among(queue) : m.kind = "changed"

Over  == life \notin {"unborn", "running"}
Sound == lapses \cap {"haunted", "orphaned"} = {} /\ "full" \notin spoiled

GhostInv ==
  Sound => /\ shadow.pending => Confirmed /\ link # "down"
           /\ Over /\ ~sampled /\ shadow.there => Removal

MirrorInv == TypeInv /\ OrderInv /\ PhaseInv /\ SeamInv /\ CountInv

-----------------------------------------------------------------------------
(* Types.                                                                  *)

\* Kinds of messages by their names.
LEMMA MoreKinds ==
  /\ NoDraft = Item("noDraft", 0) /\ Absent = -1
  /\ \A s : Changed(s) = Item("changed", s) /\ Sessions(s) = Item("sessions", s)
  BY DEF NoDraft, Absent, Changed, Sessions

\* A snapshot and a seed taken now.
LEMMA TakenNow ==
  ASSUME TypeInv
  PROVE  /\ out \in Nat /\ Snapshot \in -1 .. out
         /\ Changed(Snapshot) \in Msgs({"changed"}, out) /\ Changed(Absent) \in Msgs({"changed"}, out)
         /\ Changed(0) \in Msgs({"changed"}, out)
         /\ Seed \in Msgs({"replay", "noSeed"}, out)
         /\ Seed = IF InRegistry THEN Replay(out) ELSE NoSeed
<1>1. out \in Nat /\ out \in 0 .. out
  BY CapsAssumption DEF TypeInv
<1>2. Snapshot \in -1 .. out
  BY <1>1 DEF Snapshot, Absent
<1>3. \A s \in -1 .. out : Item("changed", s) \in Msgs({"changed"}, out)
  BY <1>1, MsgIs
<1>4. Seed \in Msgs({"replay", "noSeed"}, out)
  BY <1>1, MsgIs DEF Seed, NoSeed
<1> QED BY <1>1, <1>2, <1>3, <1>4, MoreKinds DEF Seed

\* What is noted is a mishap.
LEMMA NoteType ==
  ASSUME TypeInv, NEW m \in SUBSET Mishaps, Note(m)
  PROVE  spoiled' \in SUBSET Mishaps /\ spoiled \subseteq spoiled'
  BY DEF TypeInv, Note

\* A message that fits is appended to the queue.
LEMMA QueueTakes ==
  ASSUME TypeInv, Fits, NEW m \in Msgs(QueueKinds, out)
  PROVE  Append(queue, m) \in Seq(Msgs(QueueKinds, out)) /\ Len(Append(queue, m)) <= QueueCap
<1>1. queue \in Seq(Msgs(QueueKinds, out)) /\ Len(queue) \in Nat /\ Len(queue) < QueueCap /\ QueueCap \in Nat
  BY CapsAssumption DEF TypeInv, Fits
<1> QED BY <1>1, AppendShape

\* What a seed or a seed's absence is among the kinds.
LEMMA SeedTypes ==
  ASSUME TypeInv, NEW m \in Msgs({"replay", "noSeed"}, out)
  PROVE  m \in Msgs(QueueKinds, out) /\ m \in Msgs(DispatchKinds, out)
         /\ m \in Msgs({"idle", "resync", "replay", "noSeed"}, out)
<1>1. out \in Nat
  BY CapsAssumption DEF TypeInv
<1>2. m.kind \in {"replay", "noSeed"}
  BY <1>1, MsgKinds
<1>3. m.kind \in QueueKinds /\ m.kind \in DispatchKinds
  BY <1>2 DEF QueueKinds, DispatchKinds
<1> QED BY <1>1, <1>2, <1>3, MsgKinds

\* The requests and what they turn into.
LEMMA RequestTypes ==
  ASSUME TypeInv
  PROVE  /\ Idle \in Msgs(DispatchKinds, out) /\ Idle \in Msgs({"idle", "resync", "replay", "noSeed"}, out)
         /\ Item("resync", 0) \in Msgs({"idle", "resync", "replay", "noSeed"}, out)
         /\ \A k \in {"asked", "subscribed", "create", "list", "kill"} : Item(k, 0) \in Msgs(DispatchKinds, out)
         /\ Sessions(Snapshot) \in Msgs(DispatchKinds, out)
<1>1. out \in Nat /\ Snapshot \in -1 .. out
  BY TakenNow
<1>2. "idle" \in DispatchKinds /\ "sessions" \in DispatchKinds
      /\ {"asked", "subscribed", "create", "list", "kill"} \subseteq DispatchKinds
  BY DEF DispatchKinds
<1>3. Item("sessions", Snapshot) \in Msgs(DispatchKinds, out)
  BY <1>1, <1>2, MsgIs
<1> QED BY <1>1, <1>2, <1>3, MsgIs, MoreKinds, KindsApart

\* A sequence followed by the end of another.
LEMMA JoinShape ==
  ASSUME NEW S, NEW u \in Seq(S), NEW s \in Seq(S), NEW d \in 0 .. Len(s)
  PROVE  LET t == u \o SubSeq(s, d + 1, Len(s))
         IN  /\ t \in Seq(S) /\ Len(t) = Len(u) + Len(s) - d
             /\ \A i \in 1 .. Len(u) : t[i] = u[i]
             /\ \A i \in 1 .. Len(s) - d : t[Len(u) + i] = s[d + i]
<1> DEFINE v == SubSeq(s, d + 1, Len(s))
           n == Len(s) - d
<1>1. Len(s) \in Nat /\ Len(u) \in Nat /\ d \in Nat /\ n \in Nat /\ d + 1 \in Int
  OBVIOUS
<1>2. v \in Seq(S) /\ Len(v) = n /\ \A i \in 1 .. n : v[i] = s[d + i]
  <2>1. \A i \in d + 1 .. Len(s) : s[i] \in S
    BY <1>1
  <2> QED BY <1>1, <2>1, SubSeqProperties
<1> HIDE DEF v
<1>3. /\ u \o v \in Seq(S) /\ Len(u \o v) = Len(u) + n
      /\ \A i \in 1 .. Len(u) + n : (u \o v)[i] = IF i <= Len(u) THEN u[i] ELSE v[i - Len(u)]
  <2>1. /\ u \o v \in Seq(S) /\ Len(u \o v) = Len(u) + Len(v)
        /\ \A i \in 1 .. Len(u) + Len(v) : (u \o v)[i] = IF i <= Len(u) THEN u[i] ELSE v[i - Len(u)]
    BY <1>2, ConcatProperties
  <2> QED BY <1>2, <2>1
<1>4. \A i \in 1 .. Len(u) : i \in 1 .. Len(u) + n /\ i <= Len(u)
  BY <1>1
<1>5. \A i \in 1 .. n : Len(u) + i \in 1 .. Len(u) + n /\ ~(Len(u) + i <= Len(u)) /\ (Len(u) + i) - Len(u) = i
  BY <1>1
<1>6. Len(u) + n = Len(u) + Len(s) - d
  BY <1>1
<1> QED BY <1>2, <1>3, <1>4, <1>5, <1>6 DEF v

\* A mirror with the chunks of a seed, then all but the first d of those there were; what is
\* dropped is as far behind as the count is ahead.
SpliceOf(new, sh, c, d) ==
  /\ d = 0 \/ Len(sh.text) - d >= sh.bytes - c
  /\ Len(sh.text) - d = 0 \/ Len(sh.text) - d <= sh.bytes - c
  /\ Len(new.text) = c + Len(sh.text) - d
  /\ \A i \in 1 .. c : new.text[i] = i
  /\ \A i \in 1 .. Len(sh.text) - d : new.text[c + i] = sh.text[d + i]

\* That is what a splice makes of the mirror.
LEMMA SplicedShape ==
  ASSUME NEW o \in Nat, NEW sh \in Shadows(o), NEW c \in 0 .. o
  PROVE  LET new == Spliced(sh, c)
         IN  /\ new \in Shadows(o) /\ new.there /\ new.primed
             /\ new.pending = (sh.there /\ sh.pending)
             /\ new.bytes = Larger(IF sh.there THEN sh.bytes ELSE 0, c)
             /\ \E d \in 0 .. Len(sh.text) : SpliceOf(new, sh, c, d)
<1> DEFINE length == Len(sh.text)
           ahead  == Larger(sh.bytes - c, 0)
           kept   == IF ahead < length THEN ahead ELSE length
           new    == Spliced(sh, c)
           d      == length - kept
           tail   == SubSeq(sh.text, d + 1, length)
<1>1. length \in Nat /\ sh.bytes \in Nat /\ c \in Nat /\ sh.text \in Seq(1 .. o)
  BY DEF Shadows
<1>2. ahead \in Nat /\ ahead >= sh.bytes - c /\ (ahead = 0 \/ ahead = sh.bytes - c)
  BY <1>1 DEF Larger
<1> HIDE DEF ahead
<1>3. kept \in 0 .. length /\ (kept = length \/ kept = ahead) /\ kept <= ahead
  BY <1>1, <1>2
<1>4. d \in 0 .. length /\ kept = length - d /\ d + 1 \in Nat
  BY <1>1, <1>3
<1> HIDE DEF kept
<1>6. UpTo(c) \in Seq(1 .. o) /\ Len(UpTo(c)) = c /\ \A i \in 1 .. c : UpTo(c)[i] = i
  <2>1. UpTo(c) \in Seq(1 .. c) /\ Len(UpTo(c)) = c /\ \A i \in 1 .. c : UpTo(c)[i] = i
    BY <1>1, UpToIs
  <2>2. 1 .. c \subseteq 1 .. o
    OBVIOUS
  <2> QED BY <2>1, <2>2, SeqGrow
<1>7. new.text = UpTo(c) \o tail
      /\ new = [Entry(sh) EXCEPT !.text = UpTo(c) \o tail, !.bytes = Larger(@, c), !.primed = TRUE]
  BY DEF Spliced, Entry, NoShadow, Shadows, kept, ahead
<1> HIDE DEF new, tail, d
<1>8. LET t == UpTo(c) \o tail
      IN  t \in Seq(1 .. o) /\ Len(t) = c + length - d /\ (\A i \in 1 .. c : t[i] = i)
          /\ \A i \in 1 .. length - d : t[c + i] = sh.text[d + i]
  <2> DEFINE u == UpTo(c)
             s == sh.text
             t == u \o tail
  <2>1. u \in Seq(1 .. o) /\ Len(u) = c /\ (\A i \in 1 .. c : u[i] = i)
        /\ s \in Seq(1 .. o) /\ d \in 0 .. Len(s) /\ length = Len(s)
    BY <1>1, <1>4, <1>6
  <2>2. t = u \o SubSeq(s, d + 1, Len(s))
    BY DEF tail
  <2> HIDE DEF u, s, t
  <2>3. /\ t \in Seq(1 .. o) /\ Len(t) = Len(u) + Len(s) - d
        /\ \A i \in 1 .. Len(u) : t[i] = u[i]
        /\ \A i \in 1 .. Len(s) - d : t[Len(u) + i] = s[d + i]
    <3> DEFINE S == 1 .. o
    <3>1. u \in Seq(S) /\ s \in Seq(S) /\ d \in 0 .. Len(s)
      BY <2>1
    <3> HIDE DEF S
    <3>2. LET v == u \o SubSeq(s, d + 1, Len(s))
          IN  /\ v \in Seq(S) /\ Len(v) = Len(u) + Len(s) - d
              /\ \A i \in 1 .. Len(u) : v[i] = u[i]
              /\ \A i \in 1 .. Len(s) - d : v[Len(u) + i] = s[d + i]
      BY <3>1, JoinShape
    <3> QED BY <2>2, <3>2 DEF S
  <2>4. t \in Seq(1 .. o) /\ Len(t) = c + Len(s) - d /\ (\A i \in 1 .. c : t[i] = i)
        /\ \A i \in 1 .. Len(s) - d : t[c + i] = s[d + i]
    BY <2>1, <2>3
  <2> QED BY <2>1, <2>4 DEF t, u, s
<1>9. new \in Shadows(o) /\ new.there /\ new.primed /\ new.pending = (sh.there /\ sh.pending)
      /\ new.bytes = Larger(IF sh.there THEN sh.bytes ELSE 0, c)
  BY <1>1, <1>7, <1>8 DEF Entry, NoShadow, Shadows, Larger
<1>10. (d = 0 \/ length - d >= sh.bytes - c) /\ (length - d = 0 \/ length - d <= sh.bytes - c)
  <2>1. length - d = kept /\ (kept = length => d = 0)
    BY <1>1, <1>4
  <2>2. kept = length \/ kept >= sh.bytes - c
    BY <1>2, <1>3
  <2>3. kept = 0 \/ kept <= sh.bytes - c
    BY <1>1, <1>2, <1>3
  <2> QED BY <2>1, <2>2, <2>3
<1>11. SpliceOf(new, sh, c, d)
  BY <1>1, <1>7, <1>8, <1>10 DEF new, SpliceOf
<1> QED BY <1>4, <1>9, <1>11 DEF new

\* The steps of the driver.
LEMMA DriverType ==
  ASSUME TypeInv, DriverStep, UNCHANGED mirrorVars
  PROVE  TypeInv' /\ out' \in {out, out + 1}
<1> USE DEF TypeInv, mirrorVars, connVars
<1>0. out \in Nat /\ MaxOut \in Nat
  BY CapsAssumption
<1>1. CASE Flush
  <2>1. out' = out + 1 /\ out' \in 0 .. MaxOut /\ out' \in Nat /\ out <= out'
    BY <1>0, <1>1 DEF Flush
  <2>2. \A kinds : Msgs(kinds, out) \subseteq Msgs(kinds, out') /\ Seq(Msgs(kinds, out)) \subseteq Seq(Msgs(kinds, out'))
    BY <1>0, <2>1, MsgsGrow
  <2>3. Data(out + 1) \in Msgs({"data", "exit"}, out')
    BY <2>1, MsgIs
  <2>4. emitted' \in Seq(Msgs({"data", "exit"}, out'))
    <3>1. emitted \in Seq(Msgs({"data", "exit"}, out'))
      BY <2>2
    <3>2. emitted' = Append(emitted, Data(out + 1))
      BY <1>1 DEF Flush
    <3> QED BY <3>1, <3>2, <2>3, AppendShape
  <2>5. shadow \in Shadows(out')
    <3>1. 1 .. out \subseteq 1 .. out'
      BY <2>1
    <3> QED BY <3>1, SeqGrow DEF Shadows
  <2>6. UNCHANGED <<life, unread, noise, attached, forwarder, dispatcher, queue, spoiled,
                    shadow, link, notes, draft, sampled, events, lapses>>
    BY <1>1 DEF Flush
  <2> QED BY <2>1, <2>2, <2>4, <2>5, <2>6
<1>2. CASE ChildExits
  <2>1. Exit \in Msgs({"data", "exit"}, out)
    BY <1>0, MsgIs, KindsApart
  <2>2. Append(emitted, Exit) \in Seq(Msgs({"data", "exit"}, out))
    BY <2>1, AppendShape
  <2> QED BY <1>2, <2>2 DEF ChildExits
<1>3. CASE Forget
  BY <1>3 DEF Forget
<1> QED
  BY <1>1, <1>2, <1>3 DEF DriverStep

\* The steps of the dispatching thread and of the forwarder.
LEMMA ConnType ==
  ASSUME TypeInv, DispatchStep \/ ForwardStep, UNCHANGED mirrorVars
  PROVE  TypeInv' /\ out' = out
<1> USE DEF TypeInv, mirrorVars, daemonVars
<1>0. out \in Nat /\ QueueCap \in Nat /\ BusCap \in Nat \ {0} /\ Len(queue) \in Nat
  BY CapsAssumption
<1>3. CASE Subscribe
  BY <1>3, RequestTypes DEF Subscribe
<1>4. CASE TakeSeed
  <2>1. Seed \in Msgs(DispatchKinds, out)
    BY TakenNow, SeedTypes
  <2>2. spoiled' \in SUBSET Mishaps
    BY <1>4, NoteType DEF TakeSeed, Mishaps
  <2> QED BY <1>4, <2>1, <2>2 DEF TakeSeed
<1>5. CASE ReplyToAttach
  <2>1. dispatcher \in Msgs({"replay", "noSeed"}, out)
    BY <1>0, <1>5, MsgKinds DEF ReplyToAttach, IsSeed
  <2>2. queue' \in Seq(Msgs(QueueKinds, out)) /\ Len(queue') <= QueueCap
    BY <1>5, <2>1, SeedTypes, QueueTakes DEF ReplyToAttach, Reply
  <2> QED BY <1>5, <2>2, RequestTypes DEF ReplyToAttach, Reply
<1>6. CASE Forward
  <2>1. Tail(unread) \in Seq(Msgs({"data", "exit"}, out)) /\ Head(unread) \in Msgs({"data", "exit"}, out)
    BY <1>6, TailShape DEF Forward
  <2>2. Head(unread) \in Msgs(QueueKinds, out)
    <3>1. {"data", "exit"} \subseteq QueueKinds
      BY DEF QueueKinds
    <3>2. \A m \in Msgs({"data", "exit"}, out) : m \in Msgs(QueueKinds, out)
      BY <1>0, <3>1, MsgKinds
    <3> QED BY <2>1, <3>2
  <2>3. queue' \in Seq(Msgs(QueueKinds, out)) /\ Len(queue') <= QueueCap
    BY <1>6, <2>2, QueueTakes DEF Forward
  <2>4. spoiled' \in SUBSET Mishaps
    BY <1>6, NoteType DEF Forward, Mishaps
  <2> QED BY <1>6, <2>1, <2>3, <2>4 DEF Forward
<1>7. CASE Lag
  <2>1. Retained \in Seq(Msgs({"data", "exit"}, out))
    <3>1. Len(unread) \in Nat /\ BusCap <= Len(unread) /\ Len(unread) - BusCap + 1 \in 1 .. Len(unread)
      BY <1>0, <1>7 DEF Lag, Lagging
    <3>2. \A i \in Len(unread) - BusCap + 1 .. Len(unread) : unread[i] \in Msgs({"data", "exit"}, out)
      BY <3>1
    <3> QED BY <3>1, <3>2, SubSeqProperties DEF Retained
  <2>2. forwarder' \in Msgs({"idle", "resync", "replay", "noSeed"}, out)
    BY <1>7, RequestTypes DEF Lag
  <2>3. spoiled' \in SUBSET Mishaps
    BY <1>7, NoteType DEF Lag, Mishaps
  <2> QED BY <1>7, <2>1, <2>2, <2>3 DEF Lag
<1>8. CASE TakeResync
  <2>1. Seed \in Msgs({"idle", "resync", "replay", "noSeed"}, out)
    BY TakenNow, SeedTypes
  <2>2. spoiled' \in SUBSET Mishaps
    BY <1>8, NoteType DEF TakeResync, Mishaps
  <2> QED BY <1>8, <2>1, <2>2 DEF TakeResync
<1>9. CASE SendResync
  <2>1. forwarder \in Msgs({"replay", "noSeed"}, out)
    BY <1>0, <1>9, MsgKinds DEF SendResync, IsSeed
  <2>2. queue' \in Seq(Msgs(QueueKinds, out)) /\ Len(queue') <= QueueCap
    BY <1>9, <2>1, SeedTypes, QueueTakes DEF SendResync, Reply
  <2> QED BY <1>9, <2>2, RequestTypes DEF SendResync, Reply
<1> QED
  BY <1>3, <1>4, <1>5, <1>6, <1>7, <1>8, <1>9 DEF DispatchStep, ForwardStep

\* The steps that push a snapshot or answer with one.
LEMMA TellType ==
  ASSUME TypeInv,
         \/ PumpAndTell \/ Watch \/ TakeSnapshot \/ SendSnapshot \/ KillAndTell \/ ForwardNotice
         \/ DispatchCreate \/ DispatchKill \/ TakeList \/ ReplyToList
  PROVE  TypeInv' /\ out' = out
<1> USE DEF TypeInv, mirrorVars, daemonVars, connVars, streamVars
<1>0. out \in Nat
  BY TakenNow
<1>1. \A m \in Msgs({"changed"}, out) : Append(notes, m) \in Seq(Msgs({"changed"}, out))
  BY AppendShape
<1>2. \A m \in Msgs({"changed"}, out) : m \in Msgs(QueueKinds, out) /\ m \in Msgs({"noDraft", "changed"}, out)
  <2>1. {"changed"} \subseteq QueueKinds /\ {"changed"} \subseteq {"noDraft", "changed"}
    BY DEF QueueKinds
  <2> QED BY <1>0, <2>1, MsgKinds
<1>3. OneMore => events' \in 0 .. MaxEvents
  BY MirrorAssumption DEF OneMore
<1>4. CASE PumpAndTell
  <2>1. Head(emitted) \in Msgs({"data", "exit"}, out) /\ Tail(emitted) \in Seq(Msgs({"data", "exit"}, out))
    BY <1>4, TailShape DEF PumpAndTell, Pump
  <2>2. Append(unread, Head(emitted)) \in Seq(Msgs({"data", "exit"}, out))
    BY <2>1, AppendShape
  <2>3. notes' \in Seq(Msgs({"changed"}, out))
    BY <1>1, <1>4, TakenNow DEF PumpAndTell
  <2> QED BY <1>4, <2>1, <2>2, <2>3 DEF PumpAndTell, Pump
<1>5. CASE Watch
  <2>1. notes' \in Seq(Msgs({"changed"}, out))
    BY <1>1, <1>5, TakenNow DEF Watch
  <2> QED BY <1>5, <2>1 DEF Watch, InRegistry
<1>6. CASE TakeSnapshot
  <2>1. draft' \in Msgs({"noDraft", "changed"}, out)
    BY <1>2, <1>6, TakenNow DEF TakeSnapshot
  <2> QED BY <1>3, <1>6, <2>1 DEF TakeSnapshot
<1>7. CASE SendSnapshot
  <2>1. draft \in Msgs({"changed"}, out)
    BY SMTT(30), <1>0, <1>7, MsgKinds, MoreKinds DEF SendSnapshot
  <2>2. NoDraft \in Msgs({"noDraft", "changed"}, out)
    BY <1>0, MsgIs, MoreKinds
  <2> QED BY <1>1, <1>7, <2>1, <2>2 DEF SendSnapshot
<1>8. CASE KillAndTell
  <2>1. notes' \in Seq(Msgs({"changed"}, out))
    BY <1>1, <1>8, TakenNow DEF KillAndTell
  <2> QED BY <1>3, <1>8, <2>1 DEF KillAndTell, Kill
<1>9. CASE ForwardNotice
  <2>1. Head(notes) \in Msgs({"changed"}, out) /\ Tail(notes) \in Seq(Msgs({"changed"}, out))
    BY <1>9, TailShape DEF ForwardNotice
  <2>2. queue' \in Seq(Msgs(QueueKinds, out)) /\ Len(queue') <= QueueCap
    BY <1>2, <1>9, <2>1, QueueTakes DEF ForwardNotice
  <2>3. spoiled' \in SUBSET Mishaps
    BY <1>9, NoteType DEF ForwardNotice, Mishaps
  <2> QED BY <1>9, <2>1, <2>2, <2>3 DEF ForwardNotice
<1>10. CASE DispatchCreate
  <2>1. notes' \in Seq(Msgs({"changed"}, out))
    BY <1>1, <1>10, TakenNow DEF DispatchCreate
  <2> QED BY <1>10, <2>1, RequestTypes DEF DispatchCreate
<1>11. CASE DispatchKill
  <2>1. notes' \in Seq(Msgs({"changed"}, out))
    BY <1>1, <1>11, TakenNow DEF DispatchKill
  <2> QED BY <1>11, <2>1, RequestTypes DEF DispatchKill
<1>12. CASE TakeList
  BY <1>12, RequestTypes DEF TakeList
<1>13. CASE ReplyToList
  <2>1. dispatcher \in Msgs(QueueKinds, out)
    BY <1>0, <1>13, MsgKinds DEF ReplyToList, QueueKinds
  <2>2. queue' \in Seq(Msgs(QueueKinds, out)) /\ Len(queue') <= QueueCap
    BY <1>13, <2>1, QueueTakes DEF ReplyToList
  <2> QED BY <1>13, <2>2, RequestTypes DEF ReplyToList
<1> QED
  BY <1>4, <1>5, <1>6, <1>7, <1>8, <1>9, <1>10, <1>11, <1>12, <1>13

\* What the reader makes of a message.
LEMMA FoldedType ==
  ASSUME TypeInv, NEW m \in Msgs(QueueKinds, out), m.kind # "sessions"
  PROVE  /\ Folded(shadow, m) \in Shadows(out)
         /\ ~Folded(shadow, m).there => Folded(shadow, m) = NoShadow
<1> DEFINE new == Folded(shadow, m)
<1>0. /\ out \in Nat /\ m.at \in -1 .. out /\ m.kind \in QueueKinds
      /\ (m.kind = "replay" => m.at \in 0 .. out) /\ (m.kind = "data" => m.at \in 1 .. out)
      /\ shadow \in Shadows(out) /\ (~shadow.there => shadow = NoShadow)
  BY TakenNow, MsgKinds DEF TypeInv
<1>1. NoShadow \in Shadows(out) /\ ~NoShadow.there
  BY DEF NoShadow, Shadows
<1>2. Entry(shadow) \in Shadows(out) /\ Entry(shadow).there
  BY <1>0, <1>1 DEF Entry, NoShadow, Shadows
<1>3. CASE m.kind = "data"
  <2>1. new = [Entry(shadow) EXCEPT !.text = Append(@, m.at), !.bytes = @ + 1]
    BY <1>3 DEF Folded
  <2>2. Append(Entry(shadow).text, m.at) \in Seq(1 .. out)
    <3>1. Entry(shadow).text \in Seq(1 .. out) /\ m.at \in 1 .. out
      BY <1>0, <1>2, <1>3 DEF Shadows
    <3> QED BY <3>1, AppendShape
  <2>3. new \in Shadows(out) /\ new.there
    <3> DEFINE e == Entry(shadow)
               t == Append(e.text, m.at)
    <3>1. e \in Shadows(out) /\ e.there /\ t \in Seq(1 .. out) /\ new = [e EXCEPT !.text = t, !.bytes = @ + 1]
      BY <1>2, <2>1, <2>2
    <3> HIDE DEF e, t, new
    <3>2. e.bytes + 1 \in Nat
      BY <3>1 DEF Shadows
    <3>3. new = [e EXCEPT !.text = t, !.bytes = e.bytes + 1]
      BY <3>1
    <3> HIDE <3>1
    <3>4. e \in Shadows(out) /\ e.there /\ t \in Seq(1 .. out)
      BY <3>1
    <3> QED BY <3>2, <3>3, <3>4 DEF Shadows
  <2> QED BY <2>3
<1>4. CASE m.kind = "exit"
  BY <1>1, <1>4 DEF Folded
<1>5. CASE m.kind = "replay"
  <2>1. new = Spliced(shadow, m.at)
    BY <1>5 DEF Folded
  <2>2. out \in Nat /\ shadow \in Shadows(out) /\ m.at \in 0 .. out
    BY <1>0, <1>5, TakenNow
  <2>3. Spliced(shadow, m.at) \in Shadows(out) /\ Spliced(shadow, m.at).there
    <3> DEFINE c == m.at
    <3> HIDE DEF c
    <3>1. Spliced(shadow, c) \in Shadows(out) /\ Spliced(shadow, c).there
      BY <2>2, SplicedShape DEF c
    <3> QED BY <3>1 DEF c
  <2> QED BY <2>1, <2>3
<1>6. CASE m.kind = "changed"
  <2>1. new = Reconciled(shadow, m.at)
    BY <1>6 DEF Folded
  <2>2. CASE m.at = Absent
    BY <1>0, <1>1, <2>1, <2>2 DEF Reconciled
  <2>3. CASE m.at # Absent
    <3>1. new = [Entry(shadow) EXCEPT !.pending = FALSE, !.bytes = Larger(@, m.at)] /\ m.at \in Nat
      BY <1>0, <2>1, <2>3 DEF Reconciled, Absent
    <3>2. new \in Shadows(out) /\ new.there
      BY <1>2, <3>1 DEF Shadows, Larger
    <3> QED BY <3>2
  <2> QED BY <2>2, <2>3
<1>7. CASE m.kind = "noSeed"
  BY <1>0, <1>7 DEF Folded
<1> QED BY <1>0, <1>3, <1>4, <1>5, <1>6, <1>7 DEF QueueKinds

\* What the reader makes of the answer to a ListSessions.
LEMMA ListedType ==
  ASSUME TypeInv, NEW a \in -1 .. out
  PROVE  /\ \A new \in {Reconciled(shadow, a), IF a = Absent THEN shadow ELSE [Entry(shadow) EXCEPT !.bytes = a]} :
              new \in Shadows(out) /\ (~new.there => new = NoShadow)
         /\ a # Absent => Reconciled(shadow, a) = [Entry(shadow) EXCEPT !.pending = FALSE, !.bytes = Larger(@, a)]
<1>0. out \in Nat /\ shadow \in Shadows(out) /\ (~shadow.there => shadow = NoShadow)
  BY TakenNow DEF TypeInv
<1>1. NoShadow \in Shadows(out) /\ ~NoShadow.there
  BY DEF NoShadow, Shadows
<1>2. Entry(shadow) \in Shadows(out) /\ Entry(shadow).there
  BY <1>0, <1>1 DEF Entry, NoShadow, Shadows
<1>3. a # Absent => a \in Nat /\ Larger(Entry(shadow).bytes, a) \in Nat
  BY <1>0, <1>2 DEF Absent, Larger, Shadows
<1>4. CASE a = Absent
  BY <1>0, <1>1, <1>4 DEF Reconciled
<1>5. CASE a # Absent
  <2>1. Reconciled(shadow, a) = [Entry(shadow) EXCEPT !.pending = FALSE, !.bytes = Larger(@, a)]
    BY <1>5 DEF Reconciled
  <2>2. Reconciled(shadow, a) \in Shadows(out) /\ Reconciled(shadow, a).there
    BY <1>2, <1>3, <1>5, <2>1 DEF Shadows
  <2>3. [Entry(shadow) EXCEPT !.bytes = a] \in Shadows(out) /\ [Entry(shadow) EXCEPT !.bytes = a].there
    BY <1>2, <1>3, <1>5 DEF Shadows
  <2> QED BY <1>5, <2>1, <2>2, <2>3
<1> QED BY <1>4, <1>5

\* The head of the queue is taken.
LEMMA ReadTypes ==
  ASSUME TypeInv, TakeMessage
  PROVE  /\ Head(queue) \in Msgs(QueueKinds, out) /\ Head(queue).at \in -1 .. out
         /\ queue' \in Seq(Msgs(QueueKinds, out)) /\ Len(queue') <= QueueCap
<1>1. queue \in Seq(Msgs(QueueKinds, out)) /\ queue # <<>> /\ out \in Nat /\ QueueCap \in Nat
      /\ queue' = Tail(queue) /\ Len(queue) <= QueueCap
  BY TakenNow, CapsAssumption DEF TypeInv, TakeMessage
<1>2. /\ Tail(queue) \in Seq(Msgs(QueueKinds, out)) /\ Len(Tail(queue)) = Len(queue) - 1
      /\ Len(queue) \in Nat /\ Head(queue) \in Msgs(QueueKinds, out)
  BY <1>1, TailShape
<1>3. \A m \in Msgs(QueueKinds, out) : m.at \in -1 .. out
  BY <1>1, MsgKinds
<1> QED BY <1>1, <1>2, <1>3

\* The steps of the client.
LEMMA ClientType ==
  ASSUME TypeInv, ClientStep \/ Create \/ KillOwn \/ Drop
  PROVE  TypeInv' /\ out' = out
<1> USE DEF TypeInv, mirrorVars, daemonVars
<1>0. out \in Nat
  BY TakenNow
<1>1. OneMore => events' \in 0 .. MaxEvents
  BY MirrorAssumption DEF OneMore
<1>2. \A item : Remember(shadow, shadow', item) => lapses' \in SUBSET Lapses
  BY DEF Remember, Lapses
<1>3. \A item : AttachIfListed(item) => dispatcher' \in Msgs(DispatchKinds, out)
  BY RequestTypes DEF AttachIfListed
<1>4. CASE List
  BY <1>4, RequestTypes DEF List, Send
<1>5. CASE ReadMessage
  <2>1. shadow' \in Shadows(out) /\ (~shadow'.there => shadow' = NoShadow)
    BY <1>5, ReadTypes, FoldedType DEF ReadMessage
  <2> QED BY <1>2, <1>5, <2>1, ReadTypes DEF ReadMessage, TakeMessage
<1>6. CASE ReadSessionsAtLaunch
  <2>1. shadow' \in Shadows(out) /\ (~shadow'.there => shadow' = NoShadow)
    BY <1>6, ReadTypes, ListedType DEF ReadSessionsAtLaunch
  <2> QED BY <1>2, <1>3, <1>6, <2>1, ReadTypes DEF ReadSessionsAtLaunch, TakeMessage
<1>7. CASE Resync
  <2>1. shadow' \in Shadows(out) /\ (~shadow'.there => shadow' = NoShadow)
    BY <1>7, ReadTypes, ListedType DEF Resync
  <2> QED BY <1>2, <1>3, <1>7, <2>1, ReadTypes DEF Resync, TakeMessage
<1>8. CASE Redial
  <2>1. <<Changed(Snapshot)>> \in Seq(Msgs({"changed"}, out))
    BY TakenNow
  <2>2. <<>> \in Seq(Msgs({"data", "exit"}, out))
    OBVIOUS
  <2> QED BY <1>8, <2>1, <2>2, RequestTypes DEF Redial
<1>9. CASE Create
  <2>1. shadow' \in Shadows(out) /\ shadow'.there
    BY <1>9 DEF Create, Shadows, NoShadow
  <2> QED BY <1>9, <2>1, RequestTypes DEF Create, Send
<1>10. CASE KillOwn
  <2>1. NoShadow \in Shadows(out)
    BY DEF NoShadow, Shadows
  <2> QED BY <1>1, <1>10, <2>1, RequestTypes DEF KillOwn, Send, Lapses
<1>11. CASE Drop
  <2>1. shadow' \in Shadows(out) /\ (~shadow'.there => shadow' = NoShadow)
    <3>1. shadow' = [shadow EXCEPT !.primed = FALSE]
      BY <1>11 DEF Drop
    <3>2. shadow' \in Shadows(out) /\ shadow'.there = shadow.there
      BY <3>1 DEF Shadows
    <3>3. ~shadow.there => shadow' = NoShadow
      <4>1. NoShadow = [NoShadow EXCEPT !.primed = FALSE]
        <5>1. NoShadow \in Shadows(out) /\ NoShadow.primed = FALSE
          BY DEF NoShadow, Shadows
        <5> QED BY <5>1 DEF Shadows
      <4> QED BY <3>1, <4>1
    <3> QED BY <3>2, <3>3
  <2>2. <<>> \in Seq(Msgs(QueueKinds, out)) /\ <<>> \in Seq(Msgs({"data", "exit"}, out))
        /\ <<>> \in Seq(Msgs({"changed"}, out)) /\ Len(<<>>) <= QueueCap
    BY CapsAssumption
  <2>3. lapses' \in SUBSET Lapses
    BY <1>11 DEF Drop, Lapses
  <2> QED BY <1>1, <1>11, <2>1, <2>2, <2>3, RequestTypes DEF Drop
<1> QED
  BY <1>4, <1>5, <1>6, <1>7, <1>8, <1>9, <1>10, <1>11 DEF ClientStep

\* Every step keeps the types.
LEMMA TypeKeeps ==
  ASSUME TypeInv, [Next]_vars
  PROVE  TypeInv' /\ out' \in {out, out + 1}
<1>1. CASE UNCHANGED vars
  BY <1>1 DEF TypeInv, vars, streamVars, mirrorVars, daemonVars, connVars
<1> QED
  BY <1>1, DriverType, ConnType, TellType, ClientType DEF Next, DaemonStep

-----------------------------------------------------------------------------
(* The entry of a session that has ended.                                  *)

\* What stands in the notices, in the queue and before the pump after a step.
LEMMA NotesGrow ==
  ASSUME TypeInv, NEW m \in Msgs({"changed"}, out)
  PROVE  Among(Append(notes, m)) = Among(notes) \cup {m}
  BY AmongAppend DEF TypeInv

LEMMA QueueGrows ==
  ASSUME TypeInv, NEW m \in Msgs(QueueKinds, out)
  PROVE  Among(Append(queue, m)) = Among(queue) \cup {m}
  BY AmongAppend DEF TypeInv

\* The entry, the count of connections and the client's own create stay as they are, and what
\* is on its way to the client or removes the entry stays there.
LEMMA GhostStill ==
  ASSUME GhostInv, Sound' => Sound, UNCHANGED <<shadow, link>>,
         dispatcher.kind = "create" => dispatcher'.kind = "create" \/ \E m \in Among(notes') : Shows(m),
         Among(notes) \subseteq Among(notes'), Among(queue) \subseteq Among(queue'),
         Exit \in Among(emitted) => Removal',
         Over' /\ ~sampled' => Removal' \/ (Over /\ ~sampled)
  PROVE  GhostInv'
<1> SUFFICES ASSUME Sound'
             PROVE  /\ shadow'.pending => Confirmed' /\ link' # "down"
                    /\ Over' /\ ~sampled' /\ shadow'.there => Removal'
  BY DEF GhostInv
<1>1. (shadow.pending => Confirmed /\ link # "down") /\ (Over /\ ~sampled /\ shadow.there => Removal)
  BY DEF GhostInv
<1>2. Confirmed => Confirmed'
  BY DEF Confirmed
<1>3. Removal => Removal'
  BY DEF Removal
<1> QED BY <1>1, <1>2, <1>3

\* The steps of the driver and the daemon.
LEMMA GhostDaemon ==
  ASSUME TypeInv, PhaseInv, GhostInv, (DriverStep /\ UNCHANGED mirrorVars) \/ DaemonStep
  PROVE  GhostInv'
<1> USE DEF mirrorVars, daemonVars, connVars, streamVars
<1>0. /\ out \in Nat /\ notes \in Seq(Msgs({"changed"}, out)) /\ queue \in Seq(Msgs(QueueKinds, out))
      /\ emitted \in Seq(Msgs({"data", "exit"}, out)) /\ unread \in Seq(Msgs({"data", "exit"}, out))
  BY TakenNow DEF TypeInv
<1>1. CASE Flush /\ UNCHANGED mirrorVars
  <2>1. Among(emitted') = Among(emitted) \cup {Data(out + 1)}
    BY SMTT(30), <1>0, <1>1, AmongAppend, MsgIs, MsgsGrow DEF Flush
  <2> QED BY <1>1, <2>1, GhostStill DEF Flush, Sound, Over, Removal
<1>2. CASE ChildExits /\ UNCHANGED mirrorVars
  <2>1. Exit \in Msgs({"data", "exit"}, out)
    BY <1>0, MsgIs, KindsApart
  <2>2. Among(Append(emitted, Exit)) = Among(emitted) \cup {Exit}
    BY <1>0, <2>1, AmongAppend
  <2> QED BY <1>2, <2>2, GhostStill DEF ChildExits, Sound, Over, Removal
<1>3. CASE Forget /\ UNCHANGED mirrorVars
  BY <1>3, GhostStill DEF Forget, Sound, Over, Removal
<1>4. CASE DispatchStep /\ UNCHANGED mirrorVars
  <2>1. Among(queue) \subseteq Among(queue')
    <3>1. ReplyToAttach => dispatcher \in Msgs({"replay", "noSeed"}, out)
      BY <1>0, MsgKinds DEF ReplyToAttach, IsSeed, TypeInv
    <3>2. ReplyToAttach => queue' = Append(queue, dispatcher) /\ dispatcher \in Msgs(QueueKinds, out)
      BY <3>1, SeedTypes DEF ReplyToAttach, Reply
    <3> QED BY <1>4, <3>2, QueueGrows DEF DispatchStep, Subscribe, TakeSeed
  <2>2. dispatcher.kind # "create"
    BY <1>4 DEF DispatchStep, Subscribe, TakeSeed, ReplyToAttach, IsSeed
  <2> QED BY <1>4, <2>1, <2>2, GhostStill
          DEF DispatchStep, Subscribe, TakeSeed, ReplyToAttach, Reply, Note, Sound, Over, Removal
<1>5. CASE ForwardStep /\ UNCHANGED mirrorVars
  <2>1. Among(queue) \subseteq Among(queue')
    <3>1. SendResync => forwarder \in Msgs({"replay", "noSeed"}, out)
      BY <1>0, MsgKinds DEF SendResync, IsSeed, TypeInv
    <3>2. SendResync => queue' = Append(queue, forwarder) /\ forwarder \in Msgs(QueueKinds, out)
      BY <3>1, SeedTypes DEF SendResync, Reply
    <3>3. Forward => Head(unread) \in Msgs(QueueKinds, out)
      <4>1. {"data", "exit"} \subseteq QueueKinds
        BY DEF QueueKinds
      <4>2. \A m \in Msgs({"data", "exit"}, out) : m \in Msgs(QueueKinds, out)
        BY <1>0, <4>1, MsgKinds
      <4> QED BY <1>0, <4>2, TailShape DEF Forward
    <3>4. Forward => queue' \in {queue, Append(queue, Head(unread))}
      BY DEF Forward
    <3>5. Forward => Among(queue) \subseteq Among(queue')
      BY <3>3, <3>4, QueueGrows
    <3> QED BY <1>5, <3>2, <3>5, QueueGrows DEF ForwardStep, Lag, TakeResync
  <2>2. Sound' => Sound
    BY <1>5 DEF ForwardStep, Forward, Lag, TakeResync, SendResync, Reply, Note, Sound
  <2>3. UNCHANGED <<life, emitted, dispatcher>>
    BY <1>5 DEF ForwardStep, Forward, Lag, TakeResync, SendResync
  <2> QED BY <1>5, <2>1, <2>2, <2>3, GhostStill DEF Over, Removal
<1>6. CASE PumpAndTell
  <2>1. Among(emitted) = {Head(emitted)} \cup Among(emitted')
    BY <1>0, <1>6, AmongTail DEF PumpAndTell, Pump
  <2>2. Among(notes) \subseteq Among(notes') /\ (Head(emitted) = Exit => Among(notes') # {})
    BY <1>6, TakenNow, NotesGrow DEF PumpAndTell
  <2>3. UNCHANGED <<life, dispatcher, queue, spoiled>>
    BY <1>6 DEF PumpAndTell, Pump
  <2> QED BY <1>6, <2>1, <2>2, <2>3, GhostStill DEF PumpAndTell, Sound, Over, Removal
<1>7. CASE Watch
  <2>1. Among(notes') = Among(notes) \cup {Changed(Snapshot)}
    BY <1>7, TakenNow, NotesGrow DEF Watch
  <2> QED BY <1>7, <2>1, GhostStill DEF Watch, Sound, Over, Removal
<1>8. CASE SendSnapshot
  <2>1. draft \in Msgs({"changed"}, out)
    BY <1>0, <1>8, MsgKinds, MoreKinds DEF SendSnapshot, TypeInv
  <2>2. Among(notes') = Among(notes) \cup {draft}
    BY <1>8, <2>1, NotesGrow DEF SendSnapshot
  <2> QED BY <1>8, <2>2, GhostStill DEF SendSnapshot, Sound, Over, Removal
<1>9. CASE ForwardNotice
  <2> SUFFICES ASSUME Sound'
               PROVE  GhostInv'
    BY DEF GhostInv
  <2> DEFINE m == Head(notes)
  <2>1. m \in Msgs({"changed"}, out) /\ m.kind = "changed" /\ m \in Msgs(QueueKinds, out)
    <3>1. m \in Msgs({"changed"}, out)
      BY <1>0, <1>9, TailShape DEF ForwardNotice
    <3>2. \A x \in Msgs({"changed"}, out) : x.kind = "changed" /\ x \in Msgs(QueueKinds, out)
      BY <1>0, MsgKinds DEF QueueKinds
    <3> QED BY <3>1, <3>2
  <2>2. Fits /\ Sound
    BY <1>9 DEF ForwardNotice, Note, Sound
  <2>3. Among(queue') = Among(queue) \cup {m} /\ Among(notes) = {m} \cup Among(notes')
    BY <1>0, <1>9, <2>1, <2>2, QueueGrows, AmongTail DEF ForwardNotice
  <2>4. UNCHANGED <<life, emitted, dispatcher, shadow, link, sampled>>
    BY <1>9 DEF ForwardNotice
  <2> HIDE DEF m
  <2>5. Confirmed => Confirmed'
    BY <2>3, <2>4 DEF Confirmed
  <2>6. Removal => Removal'
    BY <2>1, <2>3, <2>4 DEF Removal
  <2> QED BY <2>2, <2>4, <2>5, <2>6 DEF GhostInv, Over
<1>10. CASE DispatchCreate
  <2>1. Among(notes') = Among(notes) \cup {Changed(0)} /\ Shows(Changed(0))
    BY <1>10, TakenNow, NotesGrow DEF DispatchCreate, Shows, Changed, Item, Absent
  <2> QED BY <1>10, <2>1, GhostStill DEF DispatchCreate, Sound, Over, Removal
<1>11. CASE DispatchKill
  <2>1. Among(notes') = Among(notes) \cup {Changed(Absent)}
    BY <1>11, TakenNow, NotesGrow DEF DispatchKill
  <2> QED BY <1>11, <2>1, GhostStill DEF DispatchKill, Sound, Over, Removal
<1>12. CASE TakeList
  BY <1>12, GhostStill DEF TakeList, Sound, Over, Removal
<1>13. CASE ReplyToList
  <2>1. dispatcher \in Msgs(QueueKinds, out)
    BY <1>0, <1>13, MsgKinds DEF ReplyToList, QueueKinds, TypeInv
  <2>2. Among(queue') = Among(queue) \cup {dispatcher}
    BY <1>13, <2>1, QueueGrows DEF ReplyToList
  <2> QED BY <1>13, <2>2, GhostStill DEF ReplyToList, Sound, Over, Removal
<1> QED
  BY <1>1, <1>2, <1>3, <1>4, <1>5, <1>6, <1>7, <1>8, <1>9, <1>10, <1>11, <1>12, <1>13
  DEF DriverStep, DaemonStep

\* What a message other than a snapshot without the session does to what the entry claims.
LEMMA GhostRead ==
  ASSUME TypeInv, GhostInv, TakeMessage, Remember(shadow, shadow', Head(queue)),
         UNCHANGED <<notes, emitted, sampled, life>>,
         dispatcher.kind = "create" => dispatcher' = dispatcher,
         link' = link \/ link' = "up",
         Sound' /\ shadow'.pending => shadow.pending /\ ~Shows(Head(queue)),
         Head(queue) = Changed(Absent) => shadow' = (IF shadow.pending THEN shadow ELSE NoShadow) /\ link' = link,
         dispatcher.kind = "create" => ~Over
  PROVE  GhostInv'
<1> SUFFICES ASSUME Sound'
             PROVE  /\ shadow'.pending => Confirmed' /\ link' # "down"
                    /\ Over' /\ ~sampled' /\ shadow'.there => Removal'
  BY DEF GhostInv
<1>1. Sound
  BY DEF Sound, Remember, TakeMessage
<1>2. (shadow.pending => Confirmed /\ link # "down") /\ (Over /\ ~sampled /\ shadow.there => Removal)
  BY <1>1 DEF GhostInv
<1>3. Among(queue) = {Head(queue)} \cup Among(queue')
  BY AmongTail DEF TypeInv, TakeMessage
<1>4. shadow'.pending => Confirmed' /\ link' # "down"
  BY <1>2, <1>3 DEF Confirmed
<1>5. ASSUME Over', ~sampled', shadow'.there PROVE Removal'
  <2>1. Over /\ ~sampled
    BY <1>5 DEF Over
  <2>2. Head(queue) = Changed(Absent)
    BY <1>5, <2>1 DEF Sound, Remember, Over, TakeMessage
  <2>3. shadow.pending /\ shadow'.pending
    BY <1>5, <2>2 DEF NoShadow
  <2>4. Confirmed' /\ dispatcher.kind # "create"
    BY <1>4, <2>1, <2>3
  <2>5. PICK m \in Among(notes) \cup Among(queue) : Shows(m)
    BY <1>2, <2>3, <2>4 DEF Confirmed
  <2>6. ~Shows(Head(queue))
    BY <2>3
  <2>7. m \in Among(notes') \cup Among(queue') /\ m.kind = "changed"
    BY <1>3, <2>5, <2>6 DEF Shows
  <2> QED BY <2>7 DEF Removal
<1> QED BY <1>4, <1>5

\* The steps of the client and of another connection.
LEMMA GhostClient ==
  ASSUME TypeInv, PhaseInv, GhostInv,
         ClientStep \/ TakeSnapshot \/ KillAndTell \/ Create \/ KillOwn \/ Drop
  PROVE  GhostInv'
<1> USE DEF mirrorVars, daemonVars, connVars, streamVars
<1>0. /\ out \in Nat /\ notes \in Seq(Msgs({"changed"}, out)) /\ queue \in Seq(Msgs(QueueKinds, out))
      /\ emitted \in Seq(Msgs({"data", "exit"}, out)) /\ shadow \in Shadows(out)
      /\ (~shadow.there => shadow = NoShadow)
  BY TakenNow DEF TypeInv
<1>p. dispatcher.kind = "create" => ~Over /\ link = "up"
  BY DEF PhaseInv, Over
<1>1. CASE List
  BY <1>1, GhostStill DEF List, Send, Idle, Item, Sound, Over, Removal
<1>2. CASE ReadMessage
  <2> DEFINE m == Head(queue)
  <2>0. m \in Msgs(QueueKinds, out) /\ m.at \in -1 .. out /\ m.kind \in QueueKinds
        /\ (m.kind = "replay" => m.at \in 0 .. out)
    <3>1. m \in Msgs(QueueKinds, out) /\ m.at \in -1 .. out
      BY <1>2, ReadTypes DEF ReadMessage
    <3> HIDE DEF m
    <3> QED BY <1>0, <3>1, MsgKinds
  <2>1. shadow' = Folded(shadow, m) /\ TakeMessage /\ Remember(shadow, shadow', m)
        /\ UNCHANGED <<notes, emitted, sampled, life, dispatcher, link>>
    BY <1>2 DEF ReadMessage, TakeMessage
  <2> HIDE DEF m
  <2>2. shadow'.pending => shadow.pending /\ ~Shows(m)
    <3>1. Entry(shadow).pending = shadow.pending
      BY <1>0 DEF Entry, NoShadow
    <3>2. CASE m.kind = "data"
      <4>1. shadow' = [Entry(shadow) EXCEPT !.text = Append(@, m.at), !.bytes = @ + 1]
        BY <2>1, <3>2 DEF Folded
      <4>2. shadow'.pending = Entry(shadow).pending
        BY <4>1
      <4> QED BY <3>1, <3>2, <4>2 DEF Shows
    <3>3. CASE m.kind = "exit"
      BY <2>1, <3>3 DEF Folded, NoShadow
    <3>4. CASE m.kind = "replay"
      <4>1. shadow'.pending = (shadow.there /\ shadow.pending)
        BY <1>0, <2>0, <2>1, <3>4, SplicedShape DEF Folded
      <4> QED BY <3>4, <4>1 DEF Shows
    <3>5. CASE m.kind = "changed"
      <4>1. shadow' = Reconciled(shadow, m.at)
        BY <2>1, <3>5 DEF Folded
      <4>2. CASE m.at = Absent
        BY <4>1, <4>2 DEF Reconciled, NoShadow, Shows
      <4>3. CASE m.at # Absent
        <5>1. shadow' = [Entry(shadow) EXCEPT !.pending = FALSE, !.bytes = Larger(@, m.at)]
          BY <4>1, <4>3 DEF Reconciled
        <5>2. Entry(shadow) \in Shadows(out)
          BY <1>0 DEF Entry, NoShadow, Shadows
        <5>3. ~shadow'.pending
          BY <5>1, <5>2 DEF Shadows
        <5> QED BY <5>3
      <4> QED BY <4>2, <4>3
    <3>6. CASE m.kind \in {"noSeed", "sessions"}
      BY <2>1, <3>6 DEF Folded, Shows
    <3> QED BY <2>0, <3>2, <3>3, <3>4, <3>5, <3>6 DEF QueueKinds
  <2>3. m = Changed(Absent) => shadow' = (IF shadow.pending THEN shadow ELSE NoShadow)
    BY <2>1 DEF Folded, Reconciled, Changed, Item
  <2>4. Head(queue) = m
    BY DEF m
  <2> QED BY <1>p, <2>1, <2>2, <2>3, <2>4, GhostRead
<1>3. CASE ReadSessionsAtLaunch \/ Resync
  <2> DEFINE m == Head(queue)
  <2>0. m.kind = "sessions" /\ TakeMessage /\ Remember(shadow, shadow', m) /\ link' = "up"
        /\ UNCHANGED <<notes, emitted, sampled, life>> /\ AttachIfListed(m) /\ m.at \in -1 .. out
    BY <1>3, ReadTypes DEF ReadSessionsAtLaunch, Resync, TakeMessage
  <2>1. shadow' \in {Reconciled(shadow, m.at), IF m.at = Absent THEN shadow ELSE [Entry(shadow) EXCEPT !.bytes = m.at]}
    BY <1>3 DEF ReadSessionsAtLaunch, Resync
  <2>4. Head(queue) = m
    OBVIOUS
  <2> HIDE DEF m
  <2>2. shadow'.pending => shadow.pending
    <3>1. Entry(shadow) \in Shadows(out) /\ Entry(shadow).pending = shadow.pending
      BY <1>0 DEF Entry, NoShadow, Shadows
    <3>2. CASE m.at = Absent
      BY <2>1, <3>2 DEF Reconciled, NoShadow
    <3>3. CASE m.at # Absent
      <4>1. \/ shadow' = [Entry(shadow) EXCEPT !.pending = FALSE, !.bytes = Larger(@, m.at)]
            \/ shadow' = [Entry(shadow) EXCEPT !.bytes = m.at]
        BY <2>1, <3>3 DEF Reconciled
      <4> QED BY <3>1, <4>1 DEF Shadows
    <3> QED BY <3>2, <3>3
  <2>3. ~Shows(m) /\ m # Changed(Absent)
    BY <2>0, MoreKinds, KindsApart DEF Shows
  <2>5. dispatcher.kind # "create"
    BY <2>0, KindsApart DEF AttachIfListed
  <2> QED BY <2>0, <2>2, <2>3, <2>4, <2>5, GhostRead
<1>4. CASE Redial
  <2>1. Among(notes') = {Changed(Snapshot)}
    BY <1>4 DEF Redial, Among
  <2> QED BY <1>4, <2>1 DEF GhostInv, Redial, Sound, Removal
<1>5. CASE TakeSnapshot
  BY <1>5, GhostStill DEF TakeSnapshot, Sound, Over, Removal
<1>6. CASE KillAndTell
  <2>1. Among(notes') = Among(notes) \cup {Changed(Absent)}
    BY <1>6, TakenNow, NotesGrow DEF KillAndTell
  <2> QED BY <1>6, <2>1, GhostStill DEF KillAndTell, Kill, Sound, Over, Removal
<1>7. CASE Create
  BY <1>7, KindsApart DEF Create, Send, GhostInv, Confirmed, Over
<1>8. CASE KillOwn
  BY <1>8 DEF KillOwn, GhostInv, NoShadow
<1>9. CASE Drop
  <2>1. shadow'.pending = shadow.pending
    BY <1>0, <1>9 DEF Drop, Shadows
  <2>2. Sound' => ~shadow.pending
    BY <1>9 DEF Drop, Sound
  <2> QED BY <1>9, <2>1, <2>2 DEF Drop, GhostInv, Removal
<1> QED
  BY <1>1, <1>2, <1>3, <1>4, <1>5, <1>6, <1>7, <1>8, <1>9 DEF ClientStep

-----------------------------------------------------------------------------
(* What moves of what is on its way.                                       *)

\* Bounds of what waits.
LEMMA Bounds ==
  ASSUME TypeInv
  PROVE  /\ out \in Nat /\ Len(queue) \in Nat /\ OnItsWay \subseteq 1 .. out + 1
         /\ Queued \subseteq 1 .. out + 1 /\ Unread \subseteq 1 .. out + 1 /\ Coming \subseteq 1 .. out + 1
         /\ \A i \in 1 .. Len(queue) : Ranked(queue[i]) => Rank(queue[i], out) \in Queued
         /\ \A i \in 1 .. Len(queue) : queue[i] \in Among(queue)
         /\ \A m \in Among(queue) : m \in Msgs(QueueKinds, out) /\ m.kind \in QueueKinds /\ m.at \in -1 .. out
<1>1. out \in Nat
  BY TakenNow
<1>2. Queued \subseteq 1 .. out + 1
  BY <1>1, RanksBound DEF TypeInv, Queued
<1>3. Unread \subseteq 1 .. out + 1 /\ Coming \subseteq 1 .. out + 1
  BY <1>1, RanksBound DEF TypeInv, Unread, Coming
<1>4. \A i \in 1 .. Len(queue) : Ranked(queue[i]) => Rank(queue[i], out) \in Queued
  BY DEF Queued, Ranks
<1>5. \A m \in Among(queue) : m \in Msgs(QueueKinds, out) /\ m.kind \in QueueKinds /\ m.at \in -1 .. out
  <2>1. Among(queue) \subseteq Msgs(QueueKinds, out)
    BY AmongIs DEF TypeInv
  <2> QED BY <1>1, <2>1, MsgKinds
<1>6. Len(queue) \in Nat /\ \A i \in 1 .. Len(queue) : queue[i] \in Among(queue)
  BY DEF TypeInv, Among
<1> QED BY <1>1, <1>2, <1>3, <1>4, <1>5, <1>6 DEF OnItsWay

\* The session outputs a chunk, or its exit: it comes after all there is.
LEMMA OutputMoves ==
  ASSUME TypeInv, OrderInv, PhaseInv, Flush \/ ChildExits
  PROVE  /\ OrderInv' /\ Queued' = Queued /\ Unread' = Unread
         /\ \/ emitted' = emitted /\ out' = out /\ life' = "silent"
            \/ /\ Coming' = Coming \cup {out + 1} /\ out + 1 \notin OnItsWay
               /\ (out' = out + 1 /\ life' = life) \/ (out' = out /\ life' = "exited")
<1>0. UNCHANGED <<unread, queue>>
  BY DEF Flush, ChildExits, connVars
<1>t. TypeInv /\ OrderInv /\ out \in Nat /\ out' \in Nat
  BY Bounds, CapsAssumption DEF TypeInv, Flush, ChildExits
<1>b. OnItsWay \subseteq 1 .. out + 1
  BY Bounds
<1>1. CASE emitted' = emitted /\ out' = out
  <2>1. Queued' = Queued /\ Unread' = Unread /\ Coming' = Coming
    BY <1>0, <1>1 DEF Queued, Unread, Coming
  <2>2. life' = "silent"
    BY <1>1, <1>t DEF Flush, ChildExits, TypeInv
  <2> QED BY <1>0, <1>1, <2>1, <2>2 DEF OrderInv
<1>2. CASE ~(emitted' = emitted /\ out' = out)
  <2>1. /\ life \in {"running", "killed"}
        /\ \/ out' = out + 1 /\ emitted' = Append(emitted, Data(out + 1)) /\ life' = life
           \/ out' = out /\ emitted' = Append(emitted, Exit) /\ life' = "exited"
    BY <1>2 DEF Flush, ChildExits
  <2>2. out + 1 \notin OnItsWay
    BY <2>1 DEF PhaseInv
  <2>3. Queued' = Queued /\ Unread' = Unread
        /\ Ranks(emitted, out') = Coming /\ Rising(emitted, out')
        /\ Rising(queue, out') /\ Rising(unread, out')
    <3>1. out + 1 \notin Ranks(queue, out) /\ out + 1 \notin Ranks(unread, out) /\ out + 1 \notin Ranks(emitted, out)
      BY <2>2 DEF OnItsWay, Queued, Unread, Coming
    <3>3. Ranks(queue, out') = Ranks(queue, out) /\ Rising(queue, out')
      BY <1>t, <3>1, RanksGrow DEF TypeInv, OrderInv
    <3>4. Ranks(unread, out') = Ranks(unread, out) /\ Rising(unread, out')
      BY <1>t, <3>1, RanksGrow DEF TypeInv, OrderInv
    <3>5. Ranks(emitted, out') = Ranks(emitted, out) /\ Rising(emitted, out')
      BY <1>t, <3>1, RanksGrow DEF TypeInv, OrderInv
    <3> QED BY <1>0, <3>3, <3>4, <3>5 DEF Queued, Unread, Coming
  <2>4. PICK e \in Msgs({"data", "exit"}, out') :
          emitted' = Append(emitted, e) /\ RankOf(e, out') = {out + 1}
          /\ ((out' = out + 1 /\ life' = life) \/ (out' = out /\ life' = "exited"))
    <3>1. CASE out' = out + 1 /\ emitted' = Append(emitted, Data(out + 1)) /\ life' = life
      <4>1. Data(out + 1) \in Msgs({"data", "exit"}, out') /\ Data(out + 1).kind = "data" /\ Data(out + 1).at = out + 1
        BY <1>t, <3>1, MsgIs, KindsApart
      <4>2. RankOf(Data(out + 1), out') = {out + 1}
        BY <4>1 DEF RankOf, Rank, Ranked
      <4> QED BY <3>1, <4>1, <4>2
    <3>2. CASE out' = out /\ emitted' = Append(emitted, Exit) /\ life' = "exited"
      <4>1. Exit \in Msgs({"data", "exit"}, out') /\ Exit.kind = "exit"
        BY <1>t, <3>2, MsgIs, KindsApart
      <4>2. RankOf(Exit, out') = {out + 1}
        BY <3>2, <4>1 DEF RankOf, Rank, Ranked
      <4> QED BY <3>2, <4>1, <4>2
    <3> QED BY <2>1, <3>1, <3>2
  <2>5. emitted \in Seq(Msgs({"data", "exit"}, out'))
    <3>1. out <= out'
      BY <1>t, <2>4
    <3> QED BY <1>t, <3>1, MsgsGrow DEF TypeInv
  <2>6. Coming' = Coming \cup {out + 1}
    BY <2>3, <2>4, <2>5, RanksAppend DEF Coming
  <2>7. \A x \in OnItsWay : x < out + 1
    BY <1>t, <1>b, <2>2
  <2>8. Rising(emitted, out)'
    <3>1. AllBefore(Coming, {out + 1})
      BY <2>7 DEF AllBefore, OnItsWay
    <3>2. AllBefore(Ranks(emitted, out'), RankOf(e, out'))
      BY <2>3, <2>4, <3>1
    <3> QED BY <2>3, <2>4, <2>5, <3>2, RisingAppend
  <2>9. OrderInv'
    BY <1>0, <1>t, <2>3, <2>6, <2>7, <2>8 DEF OrderInv, AllBefore, OnItsWay
  <2> QED BY <2>2, <2>3, <2>4, <2>6, <2>9
<1> QED BY <1>1, <1>2

\* The pump moves an event from the driver to the bus.
LEMMA PumpMoves ==
  ASSUME TypeInv, OrderInv, Pump
  PROVE  /\ OrderInv' /\ Queued' = Queued /\ OnItsWay' = OnItsWay
         /\ Unread' \cup Coming' = Unread \cup Coming
<1>0. UNCHANGED <<out, queue>> /\ emitted # <<>> /\ unread' = Append(unread, Head(emitted)) /\ emitted' = Tail(emitted)
  BY DEF Pump, connVars
<1>1. Head(emitted) \in Msgs({"data", "exit"}, out)
  BY <1>0, TailShape DEF TypeInv
<1>2. /\ Rising(emitted, out) /\ Rising(unread, out) /\ AllBefore(Ranks(unread, out), Ranks(emitted, out))
      /\ emitted \in Seq(Msgs({"data", "exit"}, out)) /\ unread \in Seq(Msgs({"data", "exit"}, out))
  BY DEF OrderInv, Unread, Coming, TypeInv
<1>3. LET r == RankOf(Head(emitted), out)
      IN  /\ Rising(Tail(emitted), out) /\ Rising(Append(unread, Head(emitted)), out)
          /\ Ranks(emitted, out) = r \cup Ranks(Tail(emitted), out)
          /\ Ranks(Append(unread, Head(emitted)), out) = Ranks(unread, out) \cup r
          /\ AllBefore(r, Ranks(Tail(emitted), out))
  BY <1>0, <1>1, <1>2, MoveShape
<1>4. PICK r : /\ Coming = r \cup Coming' /\ Unread' = Unread \cup r /\ AllBefore(r, Coming')
               /\ Rising(emitted, out)' /\ Rising(unread, out)'
  <2> WITNESS RankOf(Head(emitted), out)
  <2> QED BY <1>0, <1>3 DEF Coming, Unread
<1>5. Queued' = Queued
  BY <1>0 DEF Queued
<1>6. OrderInv'
  BY <1>0, <1>4, <1>5 DEF OrderInv, AllBefore
<1> QED BY <1>4, <1>5, <1>6 DEF OnItsWay

\* Something that is not output is put into the queue.
LEMMA PlainMoves ==
  ASSUME TypeInv, OrderInv, NEW e \in Msgs(QueueKinds, out), ~Ranked(e), queue' = Append(queue, e),
         UNCHANGED <<out, emitted, unread>>
  PROVE  OrderInv' /\ Queued' = Queued /\ Unread' = Unread /\ Coming' = Coming /\ OnItsWay' = OnItsWay
<1>1. queue \in Seq(Msgs(QueueKinds, out)) /\ Rising(queue, out) /\ RankOf(e, out) = {}
  BY DEF TypeInv, OrderInv, RankOf
<1>2. Ranks(queue', out) = Ranks(queue, out)
  <2>1. Ranks(Append(queue, e), out) = Ranks(queue, out) \cup RankOf(e, out)
    <3> DEFINE M == Msgs(QueueKinds, out)
    <3>1. queue \in Seq(M) /\ e \in M
      BY <1>1
    <3> HIDE DEF M
    <3> QED BY <3>1, RanksAppend
  <2> QED BY <1>1, <2>1
<1>3. Rising(queue', out)
  BY <1>1, RisingAppend DEF AllBefore
<1>4. Queued' = Queued /\ Unread' = Unread /\ Coming' = Coming
  BY <1>2 DEF Queued, Unread, Coming
<1> QED BY <1>3, <1>4 DEF OrderInv, OnItsWay

\* The forwarder puts an event of the bus into the queue.
LEMMA QueuedMoves ==
  ASSUME TypeInv, OrderInv, unread # <<>>, unread' = Tail(unread), queue' = Append(queue, Head(unread)),
         UNCHANGED <<out, emitted>>
  PROVE  LET r == Rank(Head(unread), out)
         IN  /\ Ranked(Head(unread)) /\ Head(unread) \in Msgs(QueueKinds, out) /\ r \in 1 .. out + 1
             /\ Head(unread).kind \in {"data", "exit"}
             /\ OrderInv' /\ OnItsWay' = OnItsWay /\ Coming' = Coming
             /\ Unread = {r} \cup Unread' /\ Queued' = Queued \cup {r}
             /\ \A y \in Unread' \cup Coming : r < y
<1> DEFINE m == Head(unread)
<1>1. m \in Msgs({"data", "exit"}, out) /\ out \in Nat
  BY Bounds, TailShape DEF TypeInv
<1>2. m \in Msgs(QueueKinds, out) /\ m.kind \in {"data", "exit"}
  <2> HIDE DEF m
  <2>1. {"data", "exit"} \subseteq QueueKinds
    BY DEF QueueKinds
  <2> QED BY <1>1, <2>1, MsgKinds
<1>3. /\ Rising(unread, out) /\ Rising(queue, out) /\ AllBefore(Ranks(queue, out), Ranks(unread, out))
      /\ unread \in Seq(Msgs({"data", "exit"}, out)) /\ queue \in Seq(Msgs(QueueKinds, out))
  BY DEF OrderInv, Unread, Queued, TypeInv
<1>4. LET p == RankOf(Head(unread), out)
      IN  /\ Rising(Tail(unread), out) /\ Rising(Append(queue, Head(unread)), out)
          /\ Ranks(unread, out) = p \cup Ranks(Tail(unread), out)
          /\ Ranks(Append(queue, Head(unread)), out) = Ranks(queue, out) \cup p
          /\ AllBefore(p, Ranks(Tail(unread), out))
  BY <1>2, <1>3, MoveShape
<1>5. RankOf(m, out) = {Rank(m, out)} /\ Ranked(m)
  BY <1>2 DEF RankOf, Ranked
<1>6. Unread = {Rank(m, out)} \cup Unread' /\ Queued' = Queued \cup {Rank(m, out)} /\ Coming' = Coming
      /\ AllBefore({Rank(m, out)}, Unread') /\ Rising(unread, out)' /\ Rising(queue, out)'
  BY <1>4, <1>5 DEF Queued, Unread, Coming
<1> HIDE DEF m
<1>7. Rank(m, out) \in 1 .. out + 1 /\ \A y \in Unread' \cup Coming : Rank(m, out) < y
  <2>1. Rank(m, out) \in Unread
    BY <1>6
  <2> QED BY <1>6, <2>1, Bounds DEF AllBefore, OrderInv
<1>8. OrderInv' /\ OnItsWay' = OnItsWay
  BY <1>6 DEF OrderInv, AllBefore, OnItsWay
<1> QED BY <1>2, <1>5, <1>6, <1>7, <1>8 DEF m

\* Events pass the receiver by.
LEMMA PassedMoves ==
  ASSUME OrderInv, UNCHANGED <<out, emitted, queue>>, Rising(unread, out)', Unread' \subseteq Unread
  PROVE  OrderInv' /\ Queued' = Queued /\ Coming' = Coming /\ OnItsWay' \subseteq OnItsWay
<1>1. Queued' = Queued /\ Coming' = Coming
  BY DEF Queued, Coming
<1> QED BY <1>1 DEF OrderInv, AllBefore, OnItsWay

\* What the bus still retains is the end of what there was.
LEMMA LagMoves ==
  ASSUME TypeInv, OrderInv, Lag
  PROVE  Rising(unread, out)' /\ Unread' \subseteq Unread
<1>1. unread' = Retained /\ out' = out /\ unread \in Seq(Msgs({"data", "exit"}, out)) /\ Rising(unread, out)
  BY DEF Lag, TypeInv, OrderInv
<1>2. BusCap \in Nat /\ BusCap <= Len(unread)
  BY <1>1, CapsAssumption DEF Lag, Lagging
<1>3. Rising(Retained, out) /\ Ranks(Retained, out) \subseteq Ranks(unread, out)
  BY <1>1, <1>2, EndShape DEF Retained
<1> QED BY <1>1, <1>3 DEF Unread

\* The forwarder takes the head off the bus.
LEMMA HeadMoves ==
  ASSUME TypeInv, OrderInv, unread # <<>>, unread' = Tail(unread), out' = out
  PROVE  Rising(unread, out)' /\ Unread' \subseteq Unread
<1>1. unread \in Seq(Msgs({"data", "exit"}, out)) /\ Rising(unread, out)
  BY DEF TypeInv, OrderInv
<1>2. Ranks(unread, out) = RankOf(Head(unread), out) \cup Ranks(Tail(unread), out)
  BY <1>1, RanksTail
<1>3. Rising(Tail(unread), out)
  BY <1>1, RisingTail
<1> QED BY <1>2, <1>3 DEF Unread

\* The client reads the head of the queue.
LEMMA ReadMoves ==
  ASSUME TypeInv, OrderInv, TakeMessage, NEW m, m = Head(queue)
  PROVE  /\ m \in Msgs(QueueKinds, out) /\ m = queue[1] /\ 1 \in 1 .. Len(queue)
         /\ Among(queue) = {m} \cup Among(queue')
         /\ Queued = RankOf(m, out) \cup Queued' /\ AllBefore(RankOf(m, out), Queued')
         /\ Unread' = Unread /\ Coming' = Coming /\ OrderInv' /\ OnItsWay = RankOf(m, out) \cup OnItsWay'
         /\ \A i \in 1 .. Len(queue') : i + 1 \in 1 .. Len(queue) /\ queue'[i] = queue[i + 1]
         /\ \A k, i : i \in 1 .. Len(queue') + 1 /\ SeedBefore(k, i + 1) =>
                        (m.kind = "replay" /\ k <= m.at) \/ SeedBefore(k, i)'
         /\ \A k : SeedBefore(k, Len(queue) + 1) =>
                     (m.kind = "replay" /\ k <= m.at) \/ SeedBefore(k, Len(queue) + 1)'
<1>0. queue # <<>> /\ queue' = Tail(queue) /\ UNCHANGED <<out, emitted, unread>>
  BY DEF TakeMessage, daemonVars
<1>1. queue \in Seq(Msgs(QueueKinds, out)) /\ Rising(queue, out)
  BY DEF TypeInv, OrderInv
<1>2. /\ Len(queue') = Len(queue) - 1 /\ Len(queue) \in Nat \ {0} /\ m = queue[1]
      /\ \A i \in 1 .. Len(queue) - 1 : queue'[i] = queue[i + 1]
      /\ m \in Msgs(QueueKinds, out)
  BY <1>0, <1>1, TailShape
<1>3. Queued = RankOf(m, out) \cup Queued'
  BY <1>0, <1>1, RanksTail DEF Queued
<1>4. Rising(queue, out)' /\ AllBefore(RankOf(m, out), Queued')
  BY <1>0, <1>1, RisingTail DEF Queued
<1>5. 1 \in 1 .. Len(queue) /\ \A i \in 1 .. Len(queue') : i + 1 \in 1 .. Len(queue) /\ queue'[i] = queue[i + 1]
  BY <1>2
<1>6. \A j \in 1 .. Len(queue) : j = 1 \/ (j - 1 \in 1 .. Len(queue') /\ queue'[j - 1] = queue[j])
  BY <1>2
<1>7. ASSUME NEW k, NEW i \in 1 .. Len(queue') + 1, SeedBefore(k, i + 1), ~(m.kind = "replay" /\ k <= m.at)
      PROVE  SeedBefore(k, i)'
  <2>1. PICK j \in 1 .. Len(queue) : j < i + 1 /\ queue[j].kind = "replay" /\ k <= queue[j].at
    BY <1>7 DEF SeedBefore
  <2>2. j - 1 \in 1 .. Len(queue') /\ queue'[j - 1] = queue[j] /\ j - 1 < i
    BY <1>2, <1>6, <1>7, <2>1
  <2> QED BY <2>1, <2>2 DEF SeedBefore
<1>8. ASSUME NEW k, SeedBefore(k, Len(queue) + 1), ~(m.kind = "replay" /\ k <= m.at)
      PROVE  SeedBefore(k, Len(queue) + 1)'
  <2>1. PICK j \in 1 .. Len(queue) : j < Len(queue) + 1 /\ queue[j].kind = "replay" /\ k <= queue[j].at
    BY <1>8 DEF SeedBefore
  <2>2. j - 1 \in 1 .. Len(queue') /\ queue'[j - 1] = queue[j] /\ j - 1 < Len(queue') + 1
    BY <1>2, <1>6, <1>8, <2>1
  <2> QED BY <2>1, <2>2 DEF SeedBefore
<1>9. Among(queue) = {m} \cup Among(queue')
  BY <1>0, <1>1, AmongTail
<1>10. Unread' = Unread /\ Coming' = Coming
  BY <1>0 DEF Unread, Coming
<1>11. OrderInv' /\ OnItsWay = RankOf(m, out) \cup OnItsWay'
  BY <1>0, <1>3, <1>4, <1>10 DEF OrderInv, AllBefore, OnItsWay
<1> QED BY <1>2, <1>3, <1>4, <1>5, <1>7, <1>8, <1>9, <1>10, <1>11

\* What is put into the queue by the dispatching thread, or for a lagging bus, or of the notices.
LEMMA PlainPut ==
  ASSUME TypeInv, ReplyToAttach \/ SendResync \/ ReplyToList \/ (ForwardNotice /\ Fits)
  PROVE  \E e \in Msgs(QueueKinds, out) :
           /\ ~Ranked(e) /\ queue' = Append(queue, e) /\ UNCHANGED <<out, emitted, unread, life>>
           /\ ReplyToAttach => e = dispatcher
           /\ SendResync => e = forwarder
           /\ ReplyToList => e.kind = "sessions"
           /\ ForwardNotice => e.kind = "changed"
<1>0. out \in Nat
  BY Bounds
<1>1. CASE ReplyToAttach
  <2>1. dispatcher.kind \in {"replay", "noSeed"} /\ dispatcher \in Msgs({"replay", "noSeed"}, out)
    BY <1>0, <1>1, MsgKinds DEF ReplyToAttach, IsSeed, TypeInv
  <2>2. dispatcher \in Msgs(QueueKinds, out)
    BY <2>1, SeedTypes
  <2> WITNESS dispatcher \in Msgs(QueueKinds, out)
  <2> QED BY <1>1, <2>1, KindsApart
          DEF ReplyToAttach, Reply, daemonVars, Ranked, SendResync, IsSeed, ReplyToList, ForwardNotice
<1>2. CASE SendResync /\ ~ReplyToAttach
  <2>1. forwarder.kind \in {"replay", "noSeed"} /\ forwarder \in Msgs({"replay", "noSeed"}, out)
    BY <1>0, <1>2, MsgKinds DEF SendResync, IsSeed, TypeInv
  <2>2. forwarder \in Msgs(QueueKinds, out)
    BY <2>1, SeedTypes
  <2> WITNESS forwarder \in Msgs(QueueKinds, out)
  <2> QED BY <1>2, <2>1, KindsApart DEF SendResync, Reply, daemonVars, Ranked, ReplyToList, ForwardNotice
<1>3. CASE ReplyToList
  <2>1. dispatcher \in Msgs(QueueKinds, out)
    BY <1>0, <1>3, MsgKinds DEF ReplyToList, QueueKinds, TypeInv
  <2> WITNESS dispatcher \in Msgs(QueueKinds, out)
  <2> QED BY <1>3, KindsApart
          DEF ReplyToList, daemonVars, Ranked, ReplyToAttach, IsSeed, SendResync, ForwardNotice
<1>4. CASE ForwardNotice /\ Fits
  <2>1. Head(notes) \in Msgs({"changed"}, out)
    BY <1>4, TailShape DEF ForwardNotice, TypeInv
  <2>2. \A m \in Msgs({"changed"}, out) : m.kind = "changed" /\ m \in Msgs(QueueKinds, out)
    BY <1>0, MsgKinds DEF QueueKinds
  <2>3. Head(notes) \in Msgs(QueueKinds, out) /\ Head(notes).kind = "changed"
    BY <2>1, <2>2
  <2> USE <2>3
  <2> WITNESS Head(notes) \in Msgs(QueueKinds, out)
  <2> QED BY <1>4, <2>3, KindsApart
          DEF ForwardNotice, daemonVars, Ranked, ReplyToAttach, IsSeed, SendResync, ReplyToList
<1> QED BY <1>1, <1>2, <1>3, <1>4

\* The steps that leave what is on its way where it is.
QuietStep ==
  \/ Forget \/ KillAndTell \/ Watch \/ TakeSnapshot \/ SendSnapshot \/ DispatchCreate \/ DispatchKill
  \/ TakeList \/ Subscribe \/ TakeSeed \/ TakeResync \/ (ForwardNotice /\ ~Fits)
  \/ List \/ Create \/ KillOwn \/ UNCHANGED vars

LEMMA QuietMoves ==
  ASSUME TypeInv, OrderInv, PhaseInv, QuietStep
  PROVE  /\ UNCHANGED <<out, emitted, unread, queue>> /\ OrderInv'
         /\ Queued' = Queued /\ Unread' = Unread /\ Coming' = Coming /\ OnItsWay' = OnItsWay
         /\ life \in {"exited", "forgotten"} => life' \in {"exited", "forgotten"}
<1>1. UNCHANGED <<out, emitted, unread, queue>>
  BY DEF QuietStep, Forget, KillAndTell, Kill, Watch, TakeSnapshot, SendSnapshot, DispatchCreate, DispatchKill,
         TakeList, Subscribe, TakeSeed, TakeResync, ForwardNotice, List, Create, KillOwn, Send, vars,
         streamVars, daemonVars, connVars
<1>2. Queued' = Queued /\ Unread' = Unread /\ Coming' = Coming /\ OnItsWay' = OnItsWay
  BY <1>1 DEF Queued, Unread, Coming, OnItsWay
<1>3. life \in {"exited", "forgotten"} => life' \in {"exited", "forgotten"}
  BY DEF QuietStep, Forget, KillAndTell, Kill, Watch, TakeSnapshot, SendSnapshot, DispatchCreate, DispatchKill,
         TakeList, Subscribe, TakeSeed, TakeResync, ForwardNotice, List, Create, KillOwn, Send, vars,
         streamVars, daemonVars, connVars, PhaseInv
<1> QED BY <1>1, <1>2, <1>3 DEF OrderInv

\* Every step but those of the connection is one of these.
LEMMA Steps ==
  ASSUME [Next]_vars
  PROVE  \/ QuietStep \/ ((Flush \/ ChildExits) /\ UNCHANGED mirrorVars) \/ PumpAndTell
         \/ ((ReplyToAttach \/ SendResync) /\ UNCHANGED mirrorVars) \/ ReplyToList \/ (ForwardNotice /\ Fits)
         \/ ((Forward \/ Lag) /\ UNCHANGED mirrorVars)
         \/ ReadMessage \/ ReadSessionsAtLaunch \/ Resync \/ Drop \/ Redial
  BY DEF Next, DaemonStep, ClientStep, DriverStep, DispatchStep, ForwardStep, QuietStep

\* What is on its way stays in order, and no exit is on its way of a session that has not ended.
LEMMA OrderKeeps ==
  ASSUME TypeInv, OrderInv, PhaseInv, [Next]_vars
  PROVE  OrderInv' /\ (out' + 1 \in OnItsWay' => life' \in {"exited", "forgotten"})
<1>0. out \in Nat /\ OnItsWay \subseteq 1 .. out + 1 /\ (out + 1 \in OnItsWay => life \in {"exited", "forgotten"})
  BY Bounds DEF PhaseInv
<1>1. CASE QuietStep
  BY <1>0, <1>1, QuietMoves
<1>2. CASE Flush \/ ChildExits
  <2>1. /\ OrderInv' /\ Queued' = Queued /\ Unread' = Unread
        /\ \/ emitted' = emitted /\ out' = out /\ life' = "silent"
           \/ /\ Coming' = Coming \cup {out + 1} /\ out + 1 \notin OnItsWay
              /\ (out' = out + 1 /\ life' = life) \/ (out' = out /\ life' = "exited")
    BY <1>2, OutputMoves
  <2>2. ASSUME emitted' = emitted, out' = out, life' = "silent" PROVE out' + 1 \notin OnItsWay'
    <3>1. OnItsWay' = OnItsWay
      BY <2>1, <2>2 DEF OnItsWay, Coming
    <3>2. life \in {"running", "killed"}
      BY <1>2 DEF Flush, ChildExits
    <3> QED BY <1>0, <2>2, <3>1, <3>2
  <2>3. ASSUME out' = out + 1, Coming' = Coming \cup {out + 1} PROVE out' + 1 \notin OnItsWay'
    <3>1. OnItsWay' = OnItsWay \cup {out + 1} /\ out' + 1 = out + 2
      BY <1>0, <2>1, <2>3 DEF OnItsWay
    <3> QED BY <1>0, <3>1
  <2> QED BY <2>1, <2>2, <2>3
<1>3. CASE PumpAndTell
  <2>1. OrderInv' /\ OnItsWay' = OnItsWay
    BY <1>3, PumpMoves DEF PumpAndTell
  <2> QED BY <1>0, <1>3, <2>1 DEF PumpAndTell, Pump
<1>4. CASE ReplyToAttach \/ SendResync \/ ReplyToList \/ (ForwardNotice /\ Fits)
  <2>1. PICK e \in Msgs(QueueKinds, out) :
          ~Ranked(e) /\ queue' = Append(queue, e) /\ UNCHANGED <<out, emitted, unread, life>>
    BY <1>4, PlainPut
  <2> QED BY <1>0, <2>1, PlainMoves
<1>5. CASE Forward
  <2>1. unread # <<>> /\ unread' = Tail(unread) /\ UNCHANGED <<out, emitted, life>>
        /\ queue' \in {queue, Append(queue, Head(unread))}
    BY <1>5 DEF Forward
  <2>2. CASE queue' = queue
    <3>1. Rising(unread, out)' /\ Unread' \subseteq Unread
      BY <2>1, HeadMoves
    <3> QED BY <1>0, <2>1, <2>2, <3>1, PassedMoves
  <2>3. CASE queue' = Append(queue, Head(unread))
    <3>1. OrderInv' /\ OnItsWay' = OnItsWay
      BY <2>1, <2>3, QueuedMoves
    <3> QED BY <1>0, <2>1, <3>1
  <2> QED BY <2>1, <2>2, <2>3
<1>6. CASE Lag
  <2>1. UNCHANGED <<out, emitted, life, queue>>
    BY <1>6 DEF Lag
  <2>2. Rising(unread, out)' /\ Unread' \subseteq Unread
    BY <1>6, LagMoves
  <2> QED BY <1>0, <2>1, <2>2, PassedMoves
<1>7. CASE ReadMessage \/ ReadSessionsAtLaunch \/ Resync
  <2>1. TakeMessage /\ UNCHANGED <<out, life>>
    BY <1>7 DEF ReadMessage, ReadSessionsAtLaunch, Resync, TakeMessage, daemonVars
  <2>2. OrderInv' /\ OnItsWay = RankOf(Head(queue), out) \cup OnItsWay'
    BY <2>1, ReadMoves
  <2> QED BY <1>0, <2>1, <2>2
<1>8. CASE Drop \/ Redial
  <2>1. unread' = <<>> /\ queue' \in {queue, <<>>} /\ UNCHANGED <<out, emitted, life>>
    BY <1>8 DEF Drop, Redial
  <2>2. \A o : Rising(<<>>, o) /\ Ranks(<<>>, o) = {}
    BY DEF Rising, Ranks
  <2>3. Queued' \subseteq Queued /\ Unread' = {} /\ Coming' = Coming /\ Rising(queue, out)' /\ Rising(unread, out)'
    BY <2>1, <2>2 DEF Queued, Unread, Coming, OrderInv
  <2> QED BY <1>0, <2>1, <2>3 DEF OrderInv, AllBefore, OnItsWay
<1> QED BY <1>1, <1>2, <1>3, <1>4, <1>5, <1>6, <1>7, <1>8, Steps

-----------------------------------------------------------------------------
(* What the reader makes of the mirror.                                    *)

\* The entry of a session that had none is empty.
LEMMA EntryIs ==
  ASSUME TypeInv
  PROVE  /\ Entry(shadow) \in Shadows(out) /\ Entry(shadow).there /\ shadow \in Shadows(out)
         /\ Entry(shadow).text = shadow.text /\ Entry(shadow).bytes = shadow.bytes
         /\ Entry(shadow).primed = shadow.primed
         /\ NoShadow.text = <<>> /\ NoShadow.primed = FALSE /\ NoShadow.there = FALSE
         /\ shadow.text \in Seq(1 .. out) /\ shadow.bytes \in Nat /\ Len(shadow.text) \in Nat
         /\ \A k \in Text : k \in 1 .. out
<1>1. shadow \in Shadows(out) /\ (~shadow.there => shadow = NoShadow)
  BY DEF TypeInv
<1>2. NoShadow.text = <<>> /\ NoShadow.primed = FALSE /\ NoShadow.there = FALSE
  BY DEF NoShadow
<1>3. Entry(shadow) \in Shadows(out) /\ Entry(shadow).there
      /\ Entry(shadow).text = shadow.text /\ Entry(shadow).bytes = shadow.bytes
      /\ Entry(shadow).primed = shadow.primed
  BY <1>1 DEF Entry, NoShadow, Shadows
<1>4. shadow.text \in Seq(1 .. out) /\ shadow.bytes \in Nat
  BY <1>1 DEF Shadows
<1>5. \A k \in Text : k \in 1 .. out
  BY <1>4, AmongIs DEF Text
<1> QED BY <1>1, <1>2, <1>3, <1>4, <1>5

\* A snapshot leaves the mirror as it is, or removes the entry.
LEMMA ListedShape ==
  ASSUME TypeInv, NEW a \in -1 .. out,
         NEW new \in {Reconciled(shadow, a), IF a = Absent THEN shadow ELSE [Entry(shadow) EXCEPT !.bytes = a]}
  PROVE  /\ \/ new.text = shadow.text /\ new.primed = shadow.primed
            \/ new = NoShadow /\ shadow.there
         /\ new = Reconciled(shadow, a) => new.text = <<>> \/ new.bytes >= shadow.bytes
<1>0. /\ Entry(shadow) \in Shadows(out) /\ Entry(shadow).there
      /\ Entry(shadow).text = shadow.text /\ Entry(shadow).bytes = shadow.bytes
      /\ Entry(shadow).primed = shadow.primed /\ shadow.bytes \in Nat
      /\ NoShadow.text = <<>> /\ (~shadow.there => shadow = NoShadow)
  BY EntryIs DEF TypeInv
<1>1. CASE a = Absent
  <2>1. new \in {shadow, NoShadow}
    BY <1>1 DEF Reconciled
  <2> QED BY <1>0, <2>1
<1>2. CASE a # Absent
  <2>1. a \in Nat /\ Larger(shadow.bytes, a) \in Nat /\ Larger(shadow.bytes, a) >= shadow.bytes
    BY <1>0, <1>2 DEF Absent, Larger
  <2>2. CASE new = Reconciled(shadow, a)
    <3>1. new = [Entry(shadow) EXCEPT !.pending = FALSE, !.bytes = Larger(@, a)]
      BY <1>2, <2>2 DEF Reconciled
    <3>2. new.text = shadow.text /\ new.primed = shadow.primed /\ new.bytes = Larger(shadow.bytes, a)
      BY <1>0, <3>1 DEF Shadows
    <3> QED BY <2>1, <3>2
  <2>3. CASE new # Reconciled(shadow, a)
    <3>1. new = [Entry(shadow) EXCEPT !.bytes = a]
      BY <1>2, <2>3
    <3>2. new.text = shadow.text /\ new.primed = shadow.primed
      BY <1>0, <3>1 DEF Shadows
    <3> QED BY <2>3, <3>2
  <2> QED BY <2>2, <2>3
<1> QED BY <1>1, <1>2

\* What each message makes of the mirror.
LEMMA FoldedShape ==
  ASSUME TypeInv, NEW m \in Msgs(QueueKinds, out), NEW new, new = Folded(shadow, m)
  PROVE  /\ m.kind \in QueueKinds /\ m.at \in -1 .. out
         /\ m.kind = "data" => /\ new.text = Append(shadow.text, m.at) /\ new.bytes = shadow.bytes + 1
                               /\ new.primed = shadow.primed /\ m.at \in 1 .. out
         /\ m.kind = "exit" => new = NoShadow
         /\ m.kind = "replay" => new = Spliced(shadow, m.at) /\ m.at \in 0 .. out
         /\ m.kind = "changed" => new = Reconciled(shadow, m.at)
         /\ m.kind \in {"noSeed", "sessions"} => new = shadow
<1>0. /\ Entry(shadow) \in Shadows(out) /\ Entry(shadow).text = shadow.text
      /\ Entry(shadow).bytes = shadow.bytes /\ Entry(shadow).primed = shadow.primed
  BY EntryIs
<1>1. /\ m.kind \in QueueKinds /\ m.at \in -1 .. out
      /\ (m.kind = "replay" => m.at \in 0 .. out) /\ (m.kind = "data" => m.at \in 1 .. out)
  BY Bounds, MsgKinds
<1>2. CASE m.kind = "data"
  <2> DEFINE e == Entry(shadow)
             t == Append(shadow.text, m.at)
  <2>1. e \in Shadows(out) /\ new = [e EXCEPT !.text = t, !.bytes = e.bytes + 1]
    BY <1>0, <1>2 DEF Folded, Shadows
  <2> HIDE DEF e, t
  <2>2. new.text = t /\ new.bytes = e.bytes + 1 /\ new.primed = e.primed
    BY <2>1 DEF Shadows
  <2> QED BY <1>0, <1>1, <1>2, <2>2 DEF e, t
<1> QED BY <1>1, <1>2 DEF Folded

-----------------------------------------------------------------------------
(* The phases and the count.                                               *)

\* The steps of the driver and of the daemon.
LEMMA PhaseDaemon ==
  ASSUME TypeInv, OrderInv, PhaseInv, TypeInv', out' + 1 \in OnItsWay' => life' \in {"exited", "forgotten"},
         (DriverStep /\ UNCHANGED mirrorVars) \/ DaemonStep \/ TakeSnapshot \/ KillAndTell \/ UNCHANGED vars
  PROVE  PhaseInv'
<1> USE DEF mirrorVars, daemonVars, connVars, streamVars
<1>0. out \in Nat
  BY Bounds
<1>1. CASE (DriverStep /\ UNCHANGED mirrorVars) \/ PumpAndTell \/ Watch \/ TakeSnapshot \/ SendSnapshot
           \/ KillAndTell \/ UNCHANGED vars
  <2>1. UNCHANGED <<attached, forwarder, dispatcher, queue, shadow, link>>
    BY <1>1 DEF DriverStep, Flush, ChildExits, Forget, PumpAndTell, Pump, Watch, TakeSnapshot, SendSnapshot,
                KillAndTell, Kill, vars
  <2>2. (life' = "unborn" => life = "unborn" /\ out' = out) /\ (life = "unborn" => life' = "unborn")
    BY <1>1 DEF DriverStep, Flush, ChildExits, Forget, PumpAndTell, Pump, Watch, TakeSnapshot, SendSnapshot,
                KillAndTell, Kill, vars
  <2> QED BY <2>1, <2>2 DEF PhaseInv
<1>2. CASE DispatchCreate
  <2>1. dispatcher'.kind = "idle" /\ life' = "running" /\ attached' = TRUE
    BY <1>2, KindsApart DEF DispatchCreate
  <2> QED BY <1>2, <2>1 DEF DispatchCreate, PhaseInv
<1>3. CASE DispatchKill
  <2>1. dispatcher'.kind = "idle" /\ (life' = "unborn" => life = "unborn") /\ dispatcher.kind = "kill"
    BY <1>3, KindsApart DEF DispatchKill
  <2> QED BY <1>3, <2>1 DEF DispatchKill, PhaseInv
<1>4. CASE TakeList
  <2>1. dispatcher'.kind = "sessions" /\ dispatcher.kind = "list"
    BY <1>4, KindsApart, MoreKinds DEF TakeList
  <2> QED BY <1>4, <2>1 DEF TakeList, PhaseInv
<1>5. CASE DispatchStep /\ UNCHANGED mirrorVars
  <2>1. UNCHANGED <<life, out, shadow, link, forwarder>> /\ dispatcher.kind # "create"
    BY <1>5 DEF DispatchStep, Subscribe, TakeSeed, ReplyToAttach, IsSeed
  <2>2. CASE Subscribe
    <3>1. attached' = TRUE /\ dispatcher'.kind = "subscribed" /\ dispatcher.kind = "asked"
      BY <2>2, KindsApart DEF Subscribe
    <3> QED BY <2>1, <3>1 DEF PhaseInv
  <2>3. CASE TakeSeed
    <3>1. attached' = attached /\ dispatcher'.kind \in {"replay", "noSeed"} /\ dispatcher.kind = "subscribed"
      <4>1. Seed.kind \in {"replay", "noSeed"}
        BY KindsApart DEF Seed
      <4> QED BY <2>3, <4>1 DEF TakeSeed
    <3> QED BY <2>1, <3>1 DEF PhaseInv
  <2>4. CASE ReplyToAttach
    <3>1. attached' = attached /\ dispatcher'.kind = "idle" /\ dispatcher.kind \in {"replay", "noSeed"}
      BY <2>4, KindsApart DEF ReplyToAttach, IsSeed
    <3> QED BY <2>1, <3>1 DEF PhaseInv
  <2> QED BY <1>5, <2>2, <2>3, <2>4 DEF DispatchStep
<1>6. CASE ForwardStep /\ UNCHANGED mirrorVars
  <2>1. UNCHANGED <<life, out, shadow, link, dispatcher, attached>>
    BY <1>6 DEF ForwardStep, Forward, Lag, TakeResync, SendResync
  <2>2. ~attached => UNCHANGED <<queue, forwarder>>
    <3>1. ~attached => forwarder = Idle /\ forwarder.kind = "idle"
      BY KindsApart DEF PhaseInv
    <3> QED BY <1>6, <3>1 DEF ForwardStep, Forward, Lag, TakeResync, SendResync, IsSeed
  <2> QED BY <2>1, <2>2 DEF PhaseInv
<1>7. CASE ReplyToList \/ ForwardNotice
  <2>1. UNCHANGED <<life, out, shadow, link, forwarder, attached>> /\ dispatcher' \in {Idle, dispatcher}
        /\ (dispatcher.kind = "create" => dispatcher' = dispatcher) /\ Idle.kind = "idle"
    BY <1>7, KindsApart DEF ReplyToList, ForwardNotice
  <2>2. \A x \in Among(queue') : x \in Among(queue) \/ x.kind \in {"sessions", "changed"}
    <3>1. CASE queue' = queue
      BY <3>1
    <3>2. CASE ReplyToList \/ (ForwardNotice /\ Fits)
      <4>1. PICK e \in Msgs(QueueKinds, out) :
              queue' = Append(queue, e) /\ e.kind \in {"sessions", "changed"}
        BY <3>2, PlainPut
      <4> QED BY <4>1, QueueGrows
    <3> QED BY <1>7, <3>1, <3>2 DEF ForwardNotice
  <2> QED BY <2>1, <2>2 DEF PhaseInv, OfSession
<1> QED BY <1>1, <1>2, <1>3, <1>4, <1>5, <1>6, <1>7 DEF DaemonStep

\* The steps of the client.
LEMMA PhaseClient ==
  ASSUME TypeInv, OrderInv, PhaseInv, TypeInv', out' + 1 \in OnItsWay' => life' \in {"exited", "forgotten"},
         ClientStep \/ Create \/ KillOwn \/ Drop
  PROVE  PhaseInv'
<1> USE DEF mirrorVars, daemonVars, connVars, streamVars
<1>0. out \in Nat /\ Idle.kind = "idle" /\ \A k : Item(k, 0).kind = k
  BY Bounds, KindsApart
<1>1. CASE List
  <2>1. dispatcher'.kind = "list" /\ dispatcher.kind = "idle" /\ link = "seeding"
        /\ UNCHANGED <<life, out, attached, forwarder, queue, shadow, link>>
    BY <1>0, <1>1 DEF List, Send
  <2> QED BY <2>1 DEF PhaseInv
<1>2. CASE Create
  <2>1. dispatcher'.kind = "create" /\ dispatcher.kind = "idle" /\ link = "up" /\ life = "unborn"
        /\ UNCHANGED <<life, out, attached, forwarder, queue, link>>
    BY <1>0, <1>2 DEF Create, Send
  <2> QED BY <2>1 DEF PhaseInv
<1>3. CASE KillOwn
  <2>1. dispatcher'.kind = "kill" /\ dispatcher.kind = "idle" /\ link = "up" /\ shadow' = NoShadow
        /\ UNCHANGED <<life, out, attached, forwarder, queue, link>>
    BY <1>0, <1>3 DEF KillOwn, Send
  <2> QED BY <2>1, EntryIs DEF PhaseInv
<1>4. CASE Drop
  <2>1. ~shadow'.primed
    BY <1>4, EntryIs DEF Drop, Shadows
  <2>2. Among(queue') = {} /\ forwarder' = Idle /\ dispatcher'.kind = "idle" /\ attached' = FALSE /\ link' = "down"
        /\ UNCHANGED <<life, out>>
    BY <1>0, <1>4, AmongIs DEF Drop, Among
  <2> QED BY <2>1, <2>2 DEF PhaseInv
<1>5. CASE Redial
  <2>1. dispatcher'.kind = "list" /\ link = "down" /\ link' = "resync"
        /\ UNCHANGED <<life, out, attached, forwarder, queue, shadow>>
    BY <1>0, <1>5 DEF Redial
  <2>2. dispatcher.kind # "create"
    BY <2>1 DEF PhaseInv
  <2> QED BY <2>1, <2>2 DEF PhaseInv
<1>6. CASE ReadSessionsAtLaunch \/ Resync
  <2> DEFINE m == Head(queue)
  <2>1. TakeMessage /\ link \in {"seeding", "resync"} /\ link' = "up" /\ AttachIfListed(m)
        /\ UNCHANGED <<life, out, attached, forwarder>> /\ m.at \in -1 .. out
    BY <1>6, ReadTypes DEF ReadSessionsAtLaunch, Resync, TakeMessage
  <2>2. shadow' \in {Reconciled(shadow, m.at), IF m.at = Absent THEN shadow ELSE [Entry(shadow) EXCEPT !.bytes = m.at]}
    BY <1>6 DEF ReadSessionsAtLaunch, Resync
  <2>3. ~attached /\ dispatcher.kind = "idle" /\ ~shadow.primed /\ dispatcher'.kind \in {"idle", "asked"}
    BY <1>0, <2>1 DEF PhaseInv, AttachIfListed
  <2>4. Among(queue') \subseteq Among(queue)
    BY <2>1, ReadMoves
  <2> HIDE DEF m
  <2>5. ~shadow'.primed
    BY <2>1, <2>2, <2>3, ListedShape, EntryIs
  <2> QED BY <2>1, <2>3, <2>4, <2>5 DEF PhaseInv
<1>7. CASE ReadMessage
  <2> DEFINE m == Head(queue)
  <2>1. TakeMessage /\ shadow' = Folded(shadow, m) /\ UNCHANGED <<life, out, attached, forwarder, dispatcher, link>>
    BY <1>7 DEF ReadMessage, TakeMessage
  <2>2. m \in Msgs(QueueKinds, out) /\ Among(queue) = {m} \cup Among(queue')
    BY <2>1, ReadMoves
  <2> HIDE DEF m
  <2>3. ASSUME ~attached
        PROVE  /\ shadow'.primed => shadow.primed
               /\ shadow.text = <<>> => shadow'.text = <<>>
    <3>1. m.kind \notin OfSession
      BY <2>2, <2>3 DEF PhaseInv
    <3>2. m.kind \in {"changed", "sessions"} /\ m.at \in -1 .. out
          /\ (m.kind = "changed" => shadow' = Reconciled(shadow, m.at)) /\ (m.kind = "sessions" => shadow' = shadow)
      BY <2>1, <2>2, <3>1, FoldedShape DEF OfSession, QueueKinds
    <3> QED BY <3>2, ListedShape, EntryIs
  <2>4. link = "seeding" \/ dispatcher.kind = "asked" => ~attached
    BY DEF PhaseInv
  <2> QED BY <2>1, <2>2, <2>3, <2>4 DEF PhaseInv
<1> QED BY <1>1, <1>2, <1>3, <1>4, <1>5, <1>6, <1>7 DEF ClientStep

\* A mirror that a seed is spliced into.
LEMMA SplicedCounts ==
  ASSUME NEW o \in Nat, NEW sh \in Shadows(o), ~sh.there => sh = NoShadow, NEW c \in 0 .. o,
         \A i \in 1 .. Len(sh.text) : sh.text[i] + Len(sh.text) - i <= sh.bytes
  PROVE  LET new == Spliced(sh, c)
         IN  \A i \in 1 .. Len(new.text) : new.text[i] + Len(new.text) - i <= new.bytes
<1> DEFINE new == Spliced(sh, c)
           n == Len(sh.text)
<1>1. new.bytes = Larger(IF sh.there THEN sh.bytes ELSE 0, c) /\ \E d \in 0 .. n : SpliceOf(new, sh, c, d)
  BY SplicedShape
<1>2. sh.bytes \in Nat /\ n \in Nat /\ (~sh.there => sh.bytes = 0) /\ \A i \in 1 .. n : sh.text[i] \in Nat
  <2>1. sh.text \in Seq(1 .. o) /\ sh.bytes \in Nat
    BY DEF Shadows
  <2>2. ~sh.there => sh.bytes = 0
    BY DEF NoShadow
  <2> QED BY <2>1, <2>2
<1>3. new.bytes >= sh.bytes /\ new.bytes >= c /\ new.bytes \in Nat
  BY <1>1, <1>2 DEF Larger
<1>4. PICK d \in 0 .. n :
           /\ n - d = 0 \/ n - d <= sh.bytes - c
           /\ Len(new.text) = c + n - d
           /\ \A i \in 1 .. c : new.text[i] = i
           /\ \A i \in 1 .. n - d : new.text[c + i] = sh.text[d + i]
  BY <1>1 DEF SpliceOf
<1>5. \A i \in 1 .. n : sh.text[i] + n - i <= sh.bytes
  OBVIOUS
<1> HIDE DEF new, n
<1> SUFFICES ASSUME NEW i \in 1 .. Len(new.text)
             PROVE  new.text[i] + Len(new.text) - i <= new.bytes
  BY DEF new
<1>6. CASE i <= c
  <2>1. new.text[i] = i /\ c + n - d <= new.bytes
    BY <1>2, <1>3, <1>4, <1>6
  <2> QED BY <1>2, <1>4, <2>1
<1>7. CASE ~(i <= c)
  <2>1. i - c \in 1 .. n - d /\ c + (i - c) = i /\ d + (i - c) \in 1 .. n
    BY <1>2, <1>4, <1>7
  <2>2. new.text[i] = sh.text[d + (i - c)]
    BY <1>4, <2>1
  <2>3. sh.text[d + (i - c)] + n - (d + (i - c)) <= sh.bytes /\ sh.text[d + (i - c)] \in Nat
    BY <1>2, <1>5, <2>1
  <2> QED BY SMTT(30), <1>2, <1>3, <1>4, <2>2, <2>3
<1> QED BY <1>6, <1>7

\* The count stays ahead of the mirror.
LEMMA CountKeeps ==
  ASSUME TypeInv, PhaseInv, CountInv, [Next]_vars
  PROVE  CountInv' /\ lapses \subseteq lapses'
<1> USE DEF mirrorVars, daemonVars, connVars, streamVars
<1>t. shadow.text \in Seq(1 .. out) /\ shadow.bytes \in Nat /\ Len(shadow.text) \in Nat /\ out \in Nat
      /\ shadow \in Shadows(out) /\ (~shadow.there => shadow = NoShadow) /\ Len(<<>>) = 0
      /\ NoShadow.text = <<>> /\ \A i \in 1 .. Len(shadow.text) : shadow.text[i] \in Nat
  <2>1. shadow.text \in Seq(1 .. out) /\ shadow.bytes \in Nat /\ Len(shadow.text) \in Nat /\ out \in Nat
        /\ shadow \in Shadows(out) /\ (~shadow.there => shadow = NoShadow) /\ NoShadow.text = <<>>
    BY EntryIs, Bounds DEF TypeInv
  <2>2. \A i \in 1 .. Len(shadow.text) : shadow.text[i] \in 1 .. out
    BY <2>1
  <2> QED BY <2>1, <2>2
<1>c. ASSUME shadow'.text = shadow.text \/ shadow'.text = <<>>, lapses \subseteq lapses',
             shadow'.text = <<>> \/ shadow'.bytes >= shadow.bytes, shadow'.bytes \in Nat
      PROVE  CountInv'
  <2> SUFFICES ASSUME "behind" \notin lapses', NEW i \in 1 .. Len(shadow'.text)
               PROVE  shadow'.text[i] + Len(shadow'.text) - i <= shadow'.bytes
    BY DEF CountInv
  <2>1. shadow'.text = shadow.text /\ shadow'.bytes >= shadow.bytes /\ i \in 1 .. Len(shadow.text)
    <3>1. shadow'.text # <<>>
      BY <1>t
    <3> QED BY <1>c, <3>1
  <2>2. shadow.text[i] + Len(shadow.text) - i <= shadow.bytes
    BY <1>c, <2>1 DEF CountInv
  <2> QED BY SMTT(30), <1>c, <1>t, <2>1, <2>2
<1>1. CASE UNCHANGED <<shadow, lapses>>
  BY <1>1 DEF CountInv
<1>2. CASE \/ KillAndTell \/ Watch \/ TakeSnapshot \/ SendSnapshot \/ DispatchCreate \/ DispatchKill
           \/ TakeList \/ List \/ PumpAndTell \/ ReplyToList \/ ForwardNotice \/ Redial \/ UNCHANGED vars
           \/ UNCHANGED mirrorVars
  <2>1. UNCHANGED <<shadow, lapses>>
    BY <1>2 DEF KillAndTell, Watch, TakeSnapshot, SendSnapshot, DispatchCreate, DispatchKill,
         TakeList, List, PumpAndTell, ReplyToList, ForwardNotice, Redial, vars
  <2> QED BY <1>1, <2>1
<1>3. CASE Create
  <2>1. shadow'.text = <<>> /\ lapses' = lapses
    BY <1>3 DEF Create, NoShadow
  <2> QED BY <2>1, <1>t DEF CountInv
<1>4. CASE KillOwn
  <2>1. shadow'.text = <<>> /\ lapses \subseteq lapses'
    BY <1>4, <1>t DEF KillOwn
  <2> QED BY <2>1, <1>t DEF CountInv
<1>5. CASE Drop
  <2>1. shadow'.text = shadow.text /\ shadow'.bytes = shadow.bytes /\ lapses \subseteq lapses'
    BY <1>5, <1>t DEF Drop, Shadows
  <2> QED BY <2>1 DEF CountInv
<1>6. CASE ReadSessionsAtLaunch \/ Resync
  <2> DEFINE m == Head(queue)
  <2>1. m.at \in -1 .. out /\ lapses \subseteq lapses'
    BY <1>6, ReadTypes DEF ReadSessionsAtLaunch, Resync, Remember
  <2>2. CASE ReadSessionsAtLaunch
    <3>1. shadow' = (IF m.at = Absent THEN shadow ELSE [Entry(shadow) EXCEPT !.bytes = m.at]) /\ shadow.text = <<>>
      BY <2>2 DEF ReadSessionsAtLaunch, PhaseInv
    <3> HIDE DEF m
    <3>2. shadow'.text = <<>>
      BY <2>1, <3>1, ListedShape, <1>t
    <3> QED BY <3>2, <2>1, <1>t DEF CountInv
  <2>3. CASE Resync
    <3>1. shadow' = Reconciled(shadow, m.at)
      BY <2>3 DEF Resync
    <3> HIDE DEF m
    <3>2. /\ shadow'.text = shadow.text \/ shadow'.text = <<>>
          /\ shadow'.text = <<>> \/ shadow'.bytes >= shadow.bytes
      BY <2>1, <3>1, ListedShape, <1>t
    <3>3. shadow'.bytes \in Nat
      BY <3>1, <2>1, <1>t, ListedType DEF Shadows
    <3> QED BY <2>1, <3>2, <3>3, <1>c
  <2> QED BY <1>6, <2>2, <2>3
<1>7. CASE ReadMessage
  <2> DEFINE m == Head(queue)
  <2>1. m \in Msgs(QueueKinds, out) /\ m.kind # "sessions" /\ shadow' = Folded(shadow, m)
        /\ lapses \subseteq lapses'
        /\ (m.kind = "data" /\ shadow'.bytes < m.at => "behind" \in lapses')
    BY <1>7, ReadTypes DEF ReadMessage, Remember
  <2> HIDE DEF m
  <2>2. /\ m.kind \in QueueKinds /\ m.at \in -1 .. out
        /\ m.kind = "data" => /\ shadow'.text = Append(shadow.text, m.at) /\ shadow'.bytes = shadow.bytes + 1
                              /\ m.at \in 1 .. out
        /\ m.kind = "exit" => shadow' = NoShadow
        /\ m.kind = "replay" => shadow' = Spliced(shadow, m.at) /\ m.at \in 0 .. out
        /\ m.kind = "changed" => shadow' = Reconciled(shadow, m.at)
        /\ m.kind \in {"noSeed", "sessions"} => shadow' = shadow
    BY <2>1, FoldedShape
  <2> SUFFICES ASSUME "behind" \notin lapses'
               PROVE  \A i \in 1 .. Len(shadow'.text) : shadow'.text[i] + Len(shadow'.text) - i <= shadow'.bytes
    BY <2>1 DEF CountInv
  <2>3. \A i \in 1 .. Len(shadow.text) : shadow.text[i] + Len(shadow.text) - i <= shadow.bytes
    BY <2>1 DEF CountInv
  <2>4. CASE m.kind = "data"
    <3>1. /\ Len(shadow'.text) = Len(shadow.text) + 1
          /\ \A i \in 1 .. Len(shadow.text) : shadow'.text[i] = shadow.text[i]
          /\ shadow'.text[Len(shadow.text) + 1] = m.at
      <4> DEFINE S == 1 .. out
                 u == shadow.text
      <4>1. u \in Seq(S) /\ m.at \in S /\ shadow'.text = Append(u, m.at)
        BY <1>t, <2>2, <2>4
      <4> HIDE DEF S, u
      <4>2. /\ Len(shadow'.text) = Len(u) + 1 /\ shadow'.text[Len(u) + 1] = m.at
            /\ \A i \in 1 .. Len(u) : shadow'.text[i] = u[i]
        BY <4>1, AppendShape
      <4> QED BY <4>2 DEF u
    <3>2. shadow'.bytes = shadow.bytes + 1 /\ m.at <= shadow'.bytes /\ m.at \in Nat
      BY <1>t, <2>1, <2>2, <2>4
    <3> SUFFICES ASSUME NEW i \in 1 .. Len(shadow'.text)
                 PROVE  shadow'.text[i] + Len(shadow'.text) - i <= shadow'.bytes
      OBVIOUS
    <3>3. CASE i \in 1 .. Len(shadow.text)
      <4>1. shadow'.text[i] = shadow.text[i] /\ shadow.text[i] \in Nat
            /\ shadow.text[i] + Len(shadow.text) - i <= shadow.bytes
        BY <1>t, <2>3, <3>1, <3>3
      <4>2. Len(shadow'.text) = Len(shadow.text) + 1 /\ shadow'.bytes = shadow.bytes + 1
        BY <3>1, <3>2
      <4>3. shadow.text[i] + (Len(shadow.text) + 1) - i <= shadow.bytes + 1
        <5>1. \A t, l, j, b \in Int : t + l - j <= b => t + (l + 1) - j <= b + 1
          OBVIOUS
        <5>2. shadow.text[i] \in Int /\ Len(shadow.text) \in Int /\ i \in Int /\ shadow.bytes \in Int
          BY <1>t, <3>3, <4>1
        <5> QED BY <4>1, <5>1, <5>2
      <4> QED BY <4>1, <4>2, <4>3
    <3>4. CASE i = Len(shadow.text) + 1
      BY <1>t, <3>1, <3>2, <3>4
    <3> QED BY <1>t, <3>1, <3>3, <3>4
  <2>5. CASE m.kind = "replay"
    BY <1>t, <2>2, <2>3, <2>5, SplicedCounts
  <2>6. CASE m.kind = "changed"
    <3>1. /\ shadow'.text = shadow.text \/ shadow'.text = <<>>
          /\ shadow'.text = <<>> \/ shadow'.bytes >= shadow.bytes
      BY <2>2, <2>6, ListedShape, <1>t
    <3>2. shadow'.bytes \in Nat
      BY <2>2, <2>6, <1>t, ListedType DEF Shadows
    <3> QED BY <2>1, <3>1, <3>2, <1>c DEF CountInv
  <2>7. CASE m.kind \in {"exit", "noSeed"}
    BY <1>t, <2>2, <2>3, <2>7
  <2> QED BY <2>1, <2>2, <2>4, <2>5, <2>6, <2>7 DEF QueueKinds
<1>8. [Next]_vars => \/ KillAndTell \/ Watch \/ TakeSnapshot \/ SendSnapshot \/ DispatchCreate \/ DispatchKill
                     \/ TakeList \/ List \/ PumpAndTell \/ ReplyToList \/ ForwardNotice \/ Redial \/ UNCHANGED vars
                     \/ UNCHANGED mirrorVars \/ Create \/ KillOwn \/ Drop \/ ReadMessage
                     \/ ReadSessionsAtLaunch \/ Resync
  BY DEF Next, DaemonStep, ClientStep
<1> QED BY <1>2, <1>3, <1>4, <1>5, <1>6, <1>7, <1>8

-----------------------------------------------------------------------------
(* The seam between the seeds and the stream.                              *)

\* Whatever is in the mirror or waits asks for chunks that have been output.
LEMMA Asked ==
  ASSUME TypeInv
  PROVE  /\ \A i \in 1 .. Len(shadow.text) : \A k \in 1 .. shadow.text[i] - 1 : k \in 1 .. out
         /\ \A i \in 1 .. Len(queue) : Ranked(queue[i]) =>
              \A k \in 1 .. Rank(queue[i], out) - 1 : k \in 1 .. out
         /\ \A x \in Unread \cup Coming \cup NextOut : x \in 1 .. out + 1 /\ \A k \in 1 .. x - 1 : k \in 1 .. out
<1>1. out \in Nat /\ Unread \cup Coming \subseteq 1 .. out + 1
      /\ \A i \in 1 .. Len(queue) : Ranked(queue[i]) => Rank(queue[i], out) \in 1 .. out + 1
  BY Bounds
<1>2. \A i \in 1 .. Len(shadow.text) : shadow.text[i] \in 1 .. out
  <2> DEFINE u == shadow.text
             S == 1 .. out
  <2>1. u \in Seq(S)
    BY EntryIs
  <2> HIDE DEF u, S
  <2>2. \A i \in 1 .. Len(u) : u[i] \in S
    BY <2>1
  <2> QED BY <2>2 DEF u, S
<1>3. \A x \in Unread \cup Coming \cup NextOut : x \in 1 .. out + 1
  BY <1>1 DEF NextOut
<1>4. \A x \in 1 .. out + 1 : \A k \in 1 .. x - 1 : k \in 1 .. out
  BY <1>1
<1>5. \A i \in 1 .. Len(shadow.text) : \A k \in 1 .. shadow.text[i] - 1 : k \in 1 .. out
  <2> SUFFICES ASSUME NEW i \in 1 .. Len(shadow.text) PROVE shadow.text[i] \in 1 .. out + 1
    BY <1>4
  <2> QED BY <1>1, <1>2
<1> QED BY <1>1, <1>3, <1>4, <1>5

\* The mirror stays, and the seeds cover what they did.
LEMMA TextKeeps ==
  ASSUME TypeInv, TextFollows, UNCHANGED shadow, \A k \in 1 .. out : SeedsCover(k) => SeedsCover(k)'
  PROVE  TextFollows' /\ \A k \in 1 .. out : Reached(k) => Reached(k)'
<1>1. \A k \in 1 .. out : Promised(k) => Promised(k)'
  BY DEF Promised
<1>2. TextFollows'
  BY <1>1, Asked DEF TextFollows
<1> QED BY <1>1, <1>2 DEF Reached, Text

\* The queue stays, and nothing else gets worse.
LEMMA FrontKeeps ==
  ASSUME TypeInv, QueueFollows, UNCHANGED queue, Queued' = Queued,
         \A i \in 1 .. Len(queue) : Ranked(queue[i]) => Rank(queue[i], out') = Rank(queue[i], out),
         \A k \in 1 .. out : Reached(k) => Reached(k)'
  PROVE  QueueFollows'
<1> SUFFICES ASSUME NEW i \in 1 .. Len(queue), Ranked(queue[i]), NEW k \in 1 .. Rank(queue[i], out) - 1
             PROVE  Reached(k)' \/ k \in Queued \/ SeedBefore(k, i)'
  BY DEF QueueFollows
<1>1. k \in 1 .. out
  BY Asked
<1>2. Reached(k) \/ k \in Queued \/ SeedBefore(k, i)
  BY DEF QueueFollows
<1>3. SeedBefore(k, i) => SeedBefore(k, i)'
  BY DEF SeedBefore
<1> QED BY <1>1, <1>2, <1>3

\* No more waits behind the queue, and what was covered is.
LEMMA RestKeeps ==
  ASSUME TypeInv, RestFollows, Unread' \cup Coming' \cup NextOut' \subseteq Unread \cup Coming \cup NextOut,
         \A k \in 1 .. out : Covered(k) => Covered(k)'
  PROVE  RestFollows'
<1> SUFFICES ASSUME NEW x \in Unread \cup Coming \cup NextOut, NEW k \in 1 .. x - 1
             PROVE  Covered(k)'
  BY DEF RestFollows
<1>1. k \in 1 .. out
  BY Asked
<1> QED BY <1>1 DEF RestFollows

\* Before the session has output anything, all is in order.
LEMMA NothingYet ==
  ASSUME TypeInv', out' = 0
  PROVE  TextFollows' /\ QueueFollows' /\ RestFollows'
<1>1. Queued' \subseteq 1 .. 1 /\ Unread' \subseteq 1 .. 1 /\ Coming' \subseteq 1 .. 1 /\ NextOut' \subseteq 1 .. 1
  <2>1. queue' \in Seq(Msgs(QueueKinds, 0)) /\ unread' \in Seq(Msgs({"data", "exit"}, 0))
        /\ emitted' \in Seq(Msgs({"data", "exit"}, 0))
    BY DEF TypeInv
  <2>2. Ranks(queue', 0) \subseteq 1 .. 1 /\ Ranks(unread', 0) \subseteq 1 .. 1 /\ Ranks(emitted', 0) \subseteq 1 .. 1
    BY <2>1, RanksBound
  <2> QED BY <2>2 DEF Queued, Unread, Coming, NextOut
<1>2. TextFollows'
  <2>1. Len(shadow'.text) = 0
    <3>1. shadow'.text \in Seq(1 .. 0)
      BY DEF TypeInv, Shadows
    <3>2. ASSUME Len(shadow'.text) # 0 PROVE FALSE
      <4>1. 1 \in 1 .. Len(shadow'.text)
        BY <3>1, <3>2
      <4>2. shadow'.text[1] \in 1 .. 0
        BY <3>1, <4>1
      <4> QED BY <4>2
    <3> QED BY <3>2
  <2> QED BY <2>1 DEF TextFollows
<1>3. QueueFollows'
  <2> SUFFICES ASSUME NEW i \in 1 .. Len(queue'), Ranked(queue'[i]) PROVE Rank(queue'[i], 0) \in 1 .. 1
    BY DEF QueueFollows
  <2>1. Rank(queue'[i], 0) \in Queued'
    BY DEF Queued, Ranks
  <2> QED BY <1>1, <2>1
<1>4. RestFollows'
  <2>1. \A x \in Unread' \cup Coming' \cup NextOut' : 1 .. x - 1 = {}
    BY <1>1
  <2> QED BY <2>1 DEF RestFollows
<1> QED BY <1>2, <1>3, <1>4

\* Only the threads of the daemon move.
LEMMA SeamStill ==
  ASSUME TypeInv, Seam, UNCHANGED <<shadow, queue, out, emitted, unread>>,
         life' \in {"running", "killed"} => life \in {"running", "killed"},
         life' = "running" => life = "running",
         \/ forwarder' = forwarder
         \/ forwarder.kind = "resync" /\ forwarder' = Replay(out),
         \/ dispatcher' = dispatcher
         \/ dispatcher.kind = "subscribed" /\ dispatcher' = Replay(out)
         \/ dispatcher.kind \notin {"subscribed", "replay"} /\ dispatcher'.kind \notin {"noSeed", "replay"}
  PROVE  Seam'
<1>0. out \in Nat /\ Replay(out).kind = "replay" /\ Replay(out).at = out
  BY Bounds, KindsApart
<1>1. Queued' = Queued /\ Unread' = Unread /\ Coming' = Coming /\ OnItsWay' = OnItsWay /\ NextOut' \subseteq NextOut
  <2>1. Queued' = Queued /\ Unread' = Unread /\ Coming' = Coming /\ NextOut' \subseteq NextOut
    BY DEF Queued, Unread, Coming, NextOut
  <2> QED BY <2>1 DEF OnItsWay
<1>2. NoneGone'
  BY <1>0 DEF Seam, NoneGone
<1>3. \A k \in 1 .. out : SeedsCover(k) => SeedsCover(k)'
  BY <1>0 DEF SeedsCover
<1>4. TextFollows' /\ \A k \in 1 .. out : Reached(k) => Reached(k)'
  BY <1>3, TextKeeps DEF Seam
<1>5. QueueFollows'
  BY <1>1, <1>4, FrontKeeps DEF Seam
<1>6. ASSUME NEW k \in 1 .. out, Covered(k) PROVE Covered(k)'
  <2>1. ByForwarder(k) => ByForwarder(k)'
    BY <1>0 DEF ByForwarder
  <2>2. SeedBefore(k, Len(queue) + 1) => SeedBefore(k, Len(queue) + 1)'
    BY DEF SeedBefore
  <2> QED BY <1>1, <1>4, <1>6, <2>1, <2>2 DEF Covered
<1>7. RestFollows'
  BY <1>1, <1>6, RestKeeps DEF Seam
<1>8. life' = "running" => SeedComes'
  BY <1>0 DEF Seam, SeedComes
<1> QED BY <1>2, <1>4, <1>5, <1>7, <1>8 DEF Seam

\* The session outputs a chunk, or its exit: what was covered covers what is next.
LEMMA SeamOutput ==
  ASSUME TypeInv, OrderInv, PhaseInv, Seam, Flush \/ ChildExits, UNCHANGED mirrorVars
  PROVE  Seam'
<1>0. UNCHANGED <<shadow, unread, queue, forwarder, dispatcher>> /\ life \in {"running", "killed"}
      /\ life' \in {"running", "killed", "exited", "silent"} /\ (life' \in {"running", "killed"} => life' = life)
  BY DEF mirrorVars, Flush, ChildExits, connVars
<1>t. out \in Nat /\ out + 1 \notin OnItsWay /\ OnItsWay \subseteq 1 .. out + 1 /\ out + 1 \in NextOut
  BY <1>0, Bounds DEF PhaseInv, NextOut
<1>1. /\ Queued' = Queued /\ Unread' = Unread
      /\ \/ emitted' = emitted /\ out' = out /\ life' = "silent"
         \/ /\ Coming' = Coming \cup {out + 1} /\ out + 1 \notin OnItsWay
            /\ (out' = out + 1 /\ life' = life) \/ (out' = out /\ life' = "exited")
  BY OutputMoves
<1>2. CASE emitted' = emitted /\ out' = out /\ life' = "silent"
  BY <1>0, <1>2, SeamStill
<1>3. CASE /\ Coming' = Coming \cup {out + 1}
           /\ (out' = out + 1 /\ life' = life) \/ (out' = out /\ life' = "exited")
  <2>1. NoneGone' /\ (life' = "running" => SeedComes')
    BY <1>0 DEF Seam, NoneGone, SeedComes
  <2>2. TextFollows' /\ \A k \in 1 .. out : Reached(k) => Reached(k)'
    BY <1>0, TextKeeps DEF Seam, SeedsCover
  <2>3. \A i \in 1 .. Len(queue) : Ranked(queue[i]) => Rank(queue[i], out') = Rank(queue[i], out)
    <3>1. \A i \in 1 .. Len(queue) : Ranked(queue[i]) => Rank(queue[i], out) \in Queued
      BY Bounds
    <3>2. \A i \in 1 .. Len(queue) : queue[i].kind # "exit"
      BY <1>t, <3>1 DEF Ranked, Rank, OnItsWay
    <3> QED BY <3>2 DEF Rank
  <2>4. QueueFollows'
    BY <1>0, <1>1, <2>2, <2>3, FrontKeeps DEF Seam
  <2>5. ASSUME NEW k \in 1 .. out, Covered(k) PROVE Covered(k)'
    <3>1. OnItsWay \subseteq OnItsWay'
      BY <1>1, <1>3 DEF OnItsWay
    <3>2. SeedBefore(k, Len(queue) + 1) => SeedBefore(k, Len(queue) + 1)'
      BY <1>0 DEF SeedBefore
    <3>3. ByForwarder(k) => ByForwarder(k)'
      BY <1>0 DEF ByForwarder
    <3> QED BY <1>0, <2>2, <2>5, <3>1, <3>2, <3>3 DEF Covered
  <2>6. RestFollows'
    <3> SUFFICES ASSUME NEW x \in Unread \cup Coming' \cup NextOut', NEW k \in 1 .. x - 1
                 PROVE  Covered(k)'
      BY <1>1 DEF RestFollows
    <3>1. CASE x \in Unread \cup Coming \cup NextOut
      <4>1. Covered(k) /\ k \in 1 .. out
        BY <3>1, Asked DEF Seam, RestFollows
      <4> QED BY <2>5, <4>1
    <3>2. CASE out' = out + 1 /\ x = out + 2
      <4>1. CASE k \in 1 .. out
        <5>1. k \in 1 .. (out + 1) - 1
          BY <1>t, <4>1
        <5>2. Covered(k)
          BY <1>t, <5>1 DEF Seam, RestFollows
        <5> QED BY <2>5, <4>1, <5>2
      <4>2. CASE k = out + 1
        BY <1>3, <4>2 DEF Covered, OnItsWay
      <4> QED BY <1>t, <3>2, <4>1, <4>2
    <3>3. NextOut' \subseteq {out + 2} /\ (x \in NextOut' => out' = out + 1)
      BY <1>t, <1>3 DEF NextOut
    <3> QED BY <1>t, <1>3, <3>1, <3>2, <3>3
  <2> QED BY <2>1, <2>2, <2>4, <2>6 DEF Seam
<1> QED BY <1>1, <1>2, <1>3

\* The pump moves an event to the bus.
LEMMA SeamPump ==
  ASSUME TypeInv, OrderInv, Seam, PumpAndTell
  PROVE  Seam'
<1>0. UNCHANGED <<shadow, out, life, queue, forwarder, dispatcher>> /\ Pump
  BY DEF PumpAndTell, Pump, connVars
<1>1. Queued' = Queued /\ OnItsWay' = OnItsWay /\ Unread' \cup Coming' = Unread \cup Coming /\ NextOut' = NextOut
  BY <1>0, PumpMoves DEF NextOut
<1>2. NoneGone' /\ (life' = "running" => SeedComes')
  BY <1>0 DEF Seam, NoneGone, SeedComes
<1>3. TextFollows' /\ \A k \in 1 .. out : Reached(k) => Reached(k)'
  BY <1>0, TextKeeps DEF Seam, SeedsCover
<1>4. QueueFollows'
  BY <1>0, <1>1, <1>3, FrontKeeps DEF Seam
<1>5. ASSUME NEW k \in 1 .. out, Covered(k) PROVE Covered(k)'
  <2>1. SeedBefore(k, Len(queue) + 1) => SeedBefore(k, Len(queue) + 1)'
    BY <1>0 DEF SeedBefore
  <2>2. ByForwarder(k) => ByForwarder(k)'
    BY <1>0 DEF ByForwarder
  <2> QED BY <1>0, <1>1, <1>3, <1>5, <2>1, <2>2 DEF Covered
<1>6. RestFollows'
  BY <1>1, <1>5, RestKeeps DEF Seam
<1> QED BY <1>2, <1>3, <1>4, <1>6 DEF Seam

\* A message is put into the queue: what was covered by a seed ahead still is.
LEMMA SeedPut ==
  ASSUME TypeInv, NEW e \in Msgs(QueueKinds, out), queue' = Append(queue, e)
  PROVE  /\ Len(queue') = Len(queue) + 1 /\ queue'[Len(queue) + 1] = e
         /\ \A i \in 1 .. Len(queue) : queue'[i] = queue[i]
         /\ Among(queue') = Among(queue) \cup {e}
         /\ \A k, i : SeedBefore(k, i) => SeedBefore(k, i)'
         /\ \A k : SeedBefore(k, Len(queue) + 1) => SeedBefore(k, Len(queue) + 1)'
         /\ e.kind = "replay" => \A k : k <= e.at => SeedBefore(k, Len(queue) + 1)'
<1>1. /\ Len(queue') = Len(queue) + 1 /\ Len(queue) \in Nat /\ queue'[Len(queue) + 1] = e
      /\ \A i \in 1 .. Len(queue) : queue'[i] = queue[i]
      /\ Among(queue') = Among(queue) \cup {e}
  <2> DEFINE M == Msgs(QueueKinds, out)
  <2>1. queue \in Seq(M) /\ e \in M
    BY DEF TypeInv
  <2> HIDE DEF M
  <2> QED BY <2>1, AppendShape, AmongAppend
<1>2. \A j \in 1 .. Len(queue) : j \in 1 .. Len(queue') /\ j < Len(queue') + 1
  BY <1>1
<1>3. Len(queue) + 1 \in 1 .. Len(queue') /\ Len(queue) + 1 < Len(queue') + 1
  BY <1>1
<1> QED BY <1>1, <1>2, <1>3 DEF SeedBefore

\* A seed, or a notice, is put into the queue.
LEMMA SeamPlain ==
  ASSUME TypeInv, OrderInv, Seam, NEW e \in Msgs(QueueKinds, out), ~Ranked(e), queue' = Append(queue, e),
         UNCHANGED <<shadow, out, emitted, unread, life>>, e.kind # "noSeed",
         e.kind = "replay" => e \in {dispatcher, forwarder},
         dispatcher' = dispatcher \/ (e = dispatcher /\ dispatcher' = Idle),
         forwarder' = forwarder \/ (e = forwarder /\ forwarder' = Idle)
  PROVE  Seam'
<1>0. Idle.kind = "idle" /\ e.kind \in {"replay", "changed", "sessions"} /\ out \in Nat /\ Len(queue) \in Nat
  <2>1. e.kind \in QueueKinds
    BY Bounds, MsgKinds
  <2> QED BY <2>1, KindsApart, Bounds DEF QueueKinds, Ranked
<1>1. Queued' = Queued /\ Unread' = Unread /\ Coming' = Coming /\ OnItsWay' = OnItsWay /\ NextOut' = NextOut
  BY PlainMoves DEF NextOut
<1>2. /\ Len(queue') = Len(queue) + 1 /\ queue'[Len(queue) + 1] = e
      /\ \A i \in 1 .. Len(queue) : queue'[i] = queue[i]
      /\ Among(queue') = Among(queue) \cup {e}
      /\ \A k, i : SeedBefore(k, i) => SeedBefore(k, i)'
      /\ \A k : SeedBefore(k, Len(queue) + 1) => SeedBefore(k, Len(queue) + 1)'
      /\ e.kind = "replay" => \A k : k <= e.at => SeedBefore(k, Len(queue) + 1)'
  BY SeedPut
<1>3. NoneGone'
  BY <1>0, <1>2 DEF Seam, NoneGone
<1>4. \A k \in 1 .. out : SeedsCover(k) => SeedsCover(k)'
  BY <1>0, <1>2 DEF SeedsCover
<1>5. TextFollows' /\ \A k \in 1 .. out : Reached(k) => Reached(k)'
  BY <1>4, TextKeeps DEF Seam
<1>6. QueueFollows'
  <2> SUFFICES ASSUME NEW i \in 1 .. Len(queue'), Ranked(queue'[i]), NEW k \in 1 .. Rank(queue'[i], out) - 1
               PROVE  Reached(k)' \/ k \in Queued \/ SeedBefore(k, i)'
    BY <1>1 DEF QueueFollows
  <2>1. i \in 1 .. Len(queue) /\ queue'[i] = queue[i]
    BY <1>0, <1>2
  <2>2. Reached(k) \/ k \in Queued \/ SeedBefore(k, i)
    BY <2>1 DEF Seam, QueueFollows
  <2>3. k \in 1 .. out
    BY <2>1, Asked
  <2> QED BY <1>2, <1>5, <2>2, <2>3
<1>7. ASSUME NEW k \in 1 .. out, Covered(k) PROVE Covered(k)'
  <2>1. ByForwarder(k) => ByForwarder(k)' \/ SeedBefore(k, Len(queue) + 1)'
    BY <1>0, <1>2 DEF ByForwarder
  <2> QED BY <1>1, <1>2, <1>5, <1>7, <2>1 DEF Covered
<1>8. RestFollows'
  BY <1>1, <1>7, RestKeeps DEF Seam
<1>9. life' = "running" => SeedComes'
  BY <1>0, <1>2 DEF Seam, SeedComes
<1> QED BY <1>3, <1>5, <1>6, <1>8, <1>9 DEF Seam

\* The forwarder moves an event from the bus to the queue.
LEMMA SeamForward ==
  ASSUME TypeInv, OrderInv, Seam, Forward, attached, Fits, UNCHANGED mirrorVars
  PROVE  Seam'
<1>0. /\ UNCHANGED <<shadow, out, emitted, life, forwarder, dispatcher>> /\ unread # <<>> /\ unread' = Tail(unread)
      /\ forwarder.kind = "idle" /\ (Head(unread) # Other => queue' = Append(queue, Head(unread)))
  BY KindsApart DEF Forward, mirrorVars
<1> DEFINE m == Head(unread)
<1>a. m # Other
  <2>1. m \in Msgs({"data", "exit"}, out) /\ out \in Nat
    BY <1>0, Bounds, TailShape DEF TypeInv
  <2>2. m.kind \in {"data", "exit"}
    BY <2>1, MsgKinds
  <2> QED BY <2>2, KindsApart
<1> DEFINE r == Rank(m, out)
<1>1. /\ Ranked(m) /\ m \in Msgs(QueueKinds, out) /\ r \in 1 .. out + 1
      /\ m.kind \in {"data", "exit"}
      /\ OnItsWay' = OnItsWay /\ Coming' = Coming
      /\ Unread = {r} \cup Unread' /\ Queued' = Queued \cup {r}
      /\ \A y \in Unread' \cup Coming : r < y
  BY <1>0, <1>a, QueuedMoves
<1>2. /\ Len(queue') = Len(queue) + 1 /\ queue'[Len(queue) + 1] = m
      /\ \A i \in 1 .. Len(queue) : queue'[i] = queue[i]
      /\ Among(queue') = Among(queue) \cup {m}
      /\ \A k, i : SeedBefore(k, i) => SeedBefore(k, i)'
      /\ \A k : SeedBefore(k, Len(queue) + 1) => SeedBefore(k, Len(queue) + 1)'
  BY <1>0, <1>a, <1>1, SeedPut
<1> HIDE DEF m
<1>b. out \in Nat /\ Len(queue) \in Nat
  BY Bounds
<1>3. NoneGone'
  BY <1>0, <1>1, <1>2 DEF Seam, NoneGone
<1>4. \A k \in 1 .. out : SeedsCover(k) => SeedsCover(k)'
  BY <1>0, <1>1, <1>2 DEF SeedsCover
<1>5. TextFollows' /\ \A k \in 1 .. out : Reached(k) => Reached(k)'
  BY <1>0, <1>4, TextKeeps DEF Seam
<1>6. QueueFollows'
  <2> SUFFICES ASSUME NEW i \in 1 .. Len(queue'), Ranked(queue'[i]), NEW k \in 1 .. Rank(queue'[i], out) - 1
               PROVE  Reached(k)' \/ k \in Queued' \/ SeedBefore(k, i)'
    BY <1>0 DEF QueueFollows
  <2>1. CASE i \in 1 .. Len(queue)
    <3>1. queue'[i] = queue[i]
      BY <1>2, <2>1
    <3>2. Reached(k) \/ k \in Queued \/ SeedBefore(k, i)
      BY <2>1, <3>1 DEF Seam, QueueFollows
    <3>3. k \in 1 .. out
      BY <2>1, <3>1, Asked
    <3> QED BY <1>1, <1>2, <1>5, <3>2, <3>3
  <2>2. CASE i = Len(queue) + 1
    <3>1. k \in 1 .. r - 1 /\ r \in Unread
      BY <1>1, <1>2, <2>2
    <3>2. k \in 1 .. out /\ Covered(k)
      BY <3>1, Asked DEF Seam, RestFollows
    <3>3. k \in OnItsWay => k \in Queued
      <4>1. ~(k \in Unread' \cup Coming) /\ k # r
        BY <1>1, <1>b, <3>1
      <4> QED BY <1>1, <4>1 DEF OnItsWay
    <3>4. ~ByForwarder(k)
      BY <1>0 DEF ByForwarder
    <3> QED BY <1>1, <1>2, <1>5, <2>2, <3>2, <3>3, <3>4 DEF Covered
  <2> QED BY <1>2, <1>b, <2>1, <2>2
<1>7. ASSUME NEW k \in 1 .. out, Covered(k) PROVE Covered(k)'
  <2>1. ByForwarder(k) => ByForwarder(k)'
    BY <1>0 DEF ByForwarder
  <2> QED BY <1>1, <1>2, <1>5, <1>7, <2>1 DEF Covered
<1>8. RestFollows'
  <2>1. Unread' \cup Coming' \cup NextOut' \subseteq Unread \cup Coming \cup NextOut
    BY <1>0, <1>1 DEF NextOut
  <2> QED BY <1>0, <1>7, <2>1, RestKeeps DEF Seam
<1>9. life' = "running" => SeedComes'
  BY <1>0, <1>2 DEF Seam, SeedComes
<1> QED BY <1>3, <1>5, <1>6, <1>8, <1>9 DEF Seam

\* The bus has overwritten output: the forwarder's next seed covers it.
LEMMA SeamLag ==
  ASSUME TypeInv, OrderInv, Seam, Lag, attached, UNCHANGED mirrorVars
  PROVE  Seam'
<1>0. /\ UNCHANGED <<shadow, out, emitted, life, queue, dispatcher>>
      /\ forwarder.kind = "idle" /\ forwarder'.kind = "resync"
  BY KindsApart DEF Lag, mirrorVars
<1>1. Queued' = Queued
  BY <1>0 DEF Queued
<1>2. NoneGone' /\ (life' = "running" => SeedComes')
  BY <1>0 DEF Seam, NoneGone, SeedComes
<1>3. \A k \in 1 .. out : SeedsCover(k) => SeedsCover(k)'
  BY <1>0 DEF SeedsCover
<1>4. TextFollows' /\ \A k \in 1 .. out : Reached(k) => Reached(k)'
  BY <1>0, <1>3, TextKeeps DEF Seam
<1>5. QueueFollows'
  BY <1>0, <1>1, <1>4, FrontKeeps DEF Seam
<1>6. RestFollows'
  BY <1>0 DEF RestFollows, Covered, ByForwarder
<1> QED BY <1>2, <1>4, <1>5, <1>6 DEF Seam

\* The client attaches: its mirror has no beginning yet, and a seed is to come.
LEMMA SeamAttach ==
  ASSUME PhaseInv, Subscribe, UNCHANGED mirrorVars
  PROVE  Seam'
<1>1. dispatcher.kind = "asked" /\ dispatcher'.kind = "subscribed" /\ UNCHANGED <<shadow, forwarder, queue>>
  BY KindsApart DEF Subscribe, mirrorVars
<1>2. ~attached /\ ~shadow.primed /\ forwarder.kind = "idle" /\ \A m \in Among(queue) : m.kind \notin {"replay", "noSeed"}
  BY <1>1, KindsApart DEF PhaseInv, OfSession
<1>3. \A k : Promised(k)'
  BY <1>1, <1>2 DEF Promised, SeedsCover
<1>4. TextFollows' /\ QueueFollows' /\ RestFollows'
  BY <1>3 DEF TextFollows, QueueFollows, RestFollows, Covered, Reached
<1>5. NoneGone' /\ SeedComes'
  BY <1>1, <1>2 DEF NoneGone, SeedComes
<1> QED BY <1>4, <1>5 DEF Seam

\* The session that the client creates has no output yet, and its mirror begins there.
LEMMA SeamCreate ==
  ASSUME TypeInv', PhaseInv, SeamInv, Fine, DispatchCreate \/ (Create /\ attached)
  PROVE  Seam'
<1>1. UNCHANGED <<out, forwarder, queue>> /\ dispatcher'.kind \in {"idle", "create"}
  BY KindsApart DEF DispatchCreate, Create, Send, daemonVars
<1>2. out' = 0
  <2>1. life = "unborn"
    BY DEF DispatchCreate, Create, PhaseInv
  <2> QED BY <1>1, <2>1 DEF PhaseInv
<1>3. NoneGone'
  <2>1. forwarder.kind # "noSeed" /\ \A m \in Among(queue) : m.kind # "noSeed"
    <3>1. CASE attached
      BY <3>1 DEF SeamInv, Seam, NoneGone
    <3>2. CASE ~attached
      BY <3>2, KindsApart DEF PhaseInv, OfSession
    <3> QED BY <3>1, <3>2
  <2> QED BY <1>1, <2>1 DEF NoneGone
<1>4. life' = "running" => SeedComes'
  <2>1. CASE DispatchCreate
    <3>1. shadow.primed /\ shadow' = shadow
      BY <2>1 DEF DispatchCreate, SeamInv
    <3> QED BY <3>1 DEF SeedComes
  <2>2. CASE Create
    BY <2>2 DEF Create, Send, daemonVars
  <2> QED BY <2>1, <2>2
<1> QED BY <1>2, <1>3, <1>4, NothingYet DEF Seam

\* A step never takes back what has gone wrong.
LEMMA FineBefore ==
  ASSUME TypeInv, PhaseInv, CountInv, [Next]_vars, Fine'
  PROVE  Fine
<1>1. spoiled \subseteq spoiled'
  BY DEF Next, DaemonStep, ClientStep, DriverStep, DispatchStep, ForwardStep, PumpAndTell, Pump, Watch, SendSnapshot,
         ForwardNotice, DispatchCreate, DispatchKill, TakeList, ReplyToList, Flush, ChildExits, Forget,
         KillAndTell, Kill, TakeSnapshot, Subscribe, TakeSeed, ReplyToAttach, Reply, Forward, Lag, TakeResync,
         SendResync, List, Send, Create, KillOwn, Drop, Redial, ReadMessage, ReadSessionsAtLaunch, Resync,
         TakeMessage, Note, vars, streamVars, daemonVars, connVars
<1>2. lapses \subseteq lapses'
  BY CountKeeps
<1> QED BY <1>1, <1>2 DEF Fine

\* Every step but that of the reader keeps the seam.
LEMMA SeamSteps ==
  ASSUME TypeInv, OrderInv, PhaseInv, SeamInv, TypeInv', [Next]_vars, ~ReadMessage, Fine, Fine', attached'
  PROVE  Seam'
<1> USE DEF mirrorVars, daemonVars, connVars, streamVars
<1>0. (attached => Seam) /\ "full" \notin spoiled' /\ "gone" \notin spoiled' /\ "dismissed" \notin lapses'
  BY DEF SeamInv, Fine
<1>1. CASE Subscribe /\ UNCHANGED mirrorVars
  BY <1>1, SeamAttach
<1>2. CASE DispatchCreate \/ Create
  <2>1. DispatchCreate \/ (Create /\ attached)
    BY <1>2 DEF Create, Send
  <2> QED BY <2>1, SeamCreate
<1>3. CASE TakeList \/ List \/ ReplyToList \/ ReadSessionsAtLaunch \/ Resync \/ Drop \/ Redial \/ KillOwn
  <2>1. TakeList \/ List \/ ReplyToList \/ ReadSessionsAtLaunch \/ Resync \/ Redial => attached
    BY DEF TakeList, List, Send, ReplyToList, ReadSessionsAtLaunch, Resync, TakeMessage, Redial
  <2>2. ~(TakeList \/ List \/ ReplyToList \/ ReadSessionsAtLaunch \/ Resync \/ Redial)
    BY <2>1 DEF PhaseInv, TakeList, List, ReplyToList, ReadSessionsAtLaunch, Resync, Redial
  <2>3. ~Drop /\ ~KillOwn
    BY <1>0 DEF Drop, KillOwn
  <2> QED BY <1>3, <2>2, <2>3
<1>4. CASE (Forget /\ UNCHANGED mirrorVars) \/ KillAndTell \/ Watch \/ TakeSnapshot \/ SendSnapshot \/ UNCHANGED vars
  <2>1. /\ UNCHANGED <<shadow, queue, out, emitted, unread, forwarder, dispatcher>> /\ attached
        /\ life' \in {"running", "killed"} => life \in {"running", "killed"}
        /\ life' = "running" => life = "running"
    BY <1>4 DEF Forget, KillAndTell, Kill, Watch, TakeSnapshot, SendSnapshot, vars
  <2> QED BY <1>0, <2>1, SeamStill
<1>5. CASE DispatchKill
  <2>1. /\ UNCHANGED <<shadow, queue, out, emitted, unread, forwarder>> /\ attached
        /\ life' \in {"running", "killed"} => life \in {"running", "killed"}
        /\ life' = "running" => life = "running"
        /\ dispatcher.kind = "kill" /\ dispatcher'.kind = "idle"
    BY <1>5, KindsApart DEF DispatchKill
  <2> QED BY <1>0, <2>1, SeamStill
<1>6. CASE (TakeSeed \/ TakeResync) /\ UNCHANGED mirrorVars
  <2>1. UNCHANGED <<shadow, queue, out, emitted, unread, life>> /\ attached
    BY <1>6 DEF TakeSeed, TakeResync
  <2>2. InRegistry
    BY <1>0, <1>6 DEF TakeSeed, TakeResync, Note
  <2>3. \/ TakeSeed /\ dispatcher.kind = "subscribed" /\ dispatcher' = Replay(out) /\ forwarder' = forwarder
        \/ TakeResync /\ forwarder.kind = "resync" /\ forwarder' = Replay(out) /\ dispatcher' = dispatcher
    BY <1>6, <2>2 DEF TakeSeed, TakeResync, Seed
  <2> QED BY <1>0, <2>1, <2>3, SeamStill
<1>7. CASE ForwardNotice
  <2>1. Fits /\ attached /\ UNCHANGED <<shadow, out, emitted, unread, life, dispatcher, forwarder>>
    BY <1>0, <1>7 DEF ForwardNotice, Note
  <2>2. PICK e \in Msgs(QueueKinds, out) : ~Ranked(e) /\ queue' = Append(queue, e) /\ e.kind = "changed"
    BY <1>7, <2>1, PlainPut
  <2> QED BY <1>0, <2>1, <2>2, SeamPlain
<1>8. CASE (ReplyToAttach \/ SendResync) /\ UNCHANGED mirrorVars
  <2>1. attached /\ UNCHANGED shadow
    BY <1>8 DEF ReplyToAttach, SendResync
  <2>2. PICK e \in Msgs(QueueKinds, out) :
          /\ ~Ranked(e) /\ queue' = Append(queue, e) /\ UNCHANGED <<out, emitted, unread, life>>
          /\ (ReplyToAttach => e = dispatcher) /\ (SendResync => e = forwarder)
    BY <1>8, PlainPut
  <2>3. e.kind # "noSeed"
    BY <1>0, <1>8, <2>1, <2>2 DEF Seam, NoneGone
  <2>4. \/ e = dispatcher /\ dispatcher' = Idle /\ forwarder' = forwarder
        \/ e = forwarder /\ forwarder' = Idle /\ dispatcher' = dispatcher
    BY <1>8, <2>2 DEF ReplyToAttach, SendResync
  <2> QED BY <1>0, <2>1, <2>2, <2>3, <2>4, SeamPlain
<1>9. CASE Forward /\ UNCHANGED mirrorVars
  <2>1. attached /\ unread # <<>>
    BY <1>9 DEF Forward
  <2>2. Head(unread) # Other
    <3>1. Head(unread) \in Msgs({"data", "exit"}, out) /\ out \in Nat
      BY <2>1, Bounds, TailShape DEF TypeInv
    <3>2. Head(unread).kind \in {"data", "exit"}
      BY <3>1, MsgKinds
    <3> QED BY <3>2, KindsApart
  <2>3. Fits
    BY <1>0, <1>9, <2>1, <2>2 DEF Forward, Note
  <2> QED BY <1>0, <1>9, <2>1, <2>3, SeamForward
<1>10. CASE Lag /\ UNCHANGED mirrorVars
  <2>1. attached
    BY <1>10 DEF Lag
  <2> QED BY <1>0, <1>10, <2>1, SeamLag
<1>11. CASE PumpAndTell
  <2>1. attached
    BY <1>11 DEF PumpAndTell, Pump
  <2> QED BY <1>0, <1>11, <2>1, SeamPump
<1>12. CASE (Flush \/ ChildExits) /\ UNCHANGED mirrorVars
  <2>1. attached
    BY <1>12 DEF Flush, ChildExits
  <2> QED BY <1>0, <1>12, <2>1, SeamOutput
<1>13. [Next]_vars => \/ (Subscribe /\ UNCHANGED mirrorVars) \/ DispatchCreate \/ Create
          \/ TakeList \/ List \/ ReplyToList \/ ReadSessionsAtLaunch \/ Resync \/ Drop \/ Redial \/ KillOwn
          \/ (Forget /\ UNCHANGED mirrorVars) \/ KillAndTell \/ Watch \/ TakeSnapshot \/ SendSnapshot \/ UNCHANGED vars \/ DispatchKill
          \/ ((TakeSeed \/ TakeResync) /\ UNCHANGED mirrorVars) \/ ForwardNotice
          \/ ((ReplyToAttach \/ SendResync) /\ UNCHANGED mirrorVars) \/ (Forward /\ UNCHANGED mirrorVars)
          \/ (Lag /\ UNCHANGED mirrorVars) \/ PumpAndTell \/ ((Flush \/ ChildExits) /\ UNCHANGED mirrorVars)
          \/ ReadMessage
  BY DEF Next, DaemonStep, ClientStep, DriverStep, DispatchStep, ForwardStep
<1> QED BY <1>1, <1>2, <1>3, <1>4, <1>5, <1>6, <1>7, <1>8, <1>9, <1>10, <1>11, <1>12, <1>13

-----------------------------------------------------------------------------
(* The seam at the reader.                                                 *)

\* What is behind the head keeps its order, when the mirror reaches what the head covers.
LEMMA SeamBehind ==
  ASSUME TypeInv, OrderInv, Seam, TakeMessage, UNCHANGED dispatcher, NEW m, m = Head(queue), TextFollows',
         \A k \in 1 .. out : Reached(k) => Reached(k)',
         \A k \in RankOf(m, out) : k \in 1 .. out => Reached(k)',
         m.kind = "replay" => shadow'.primed /\ \A k \in 1 .. out : k <= m.at => Reached(k)',
         shadow.primed => shadow'.primed
  PROVE  Seam'
<1>0. UNCHANGED <<out, life, forwarder>>
  BY DEF TakeMessage, daemonVars
<1>1. /\ m \in Msgs(QueueKinds, out) /\ Among(queue) = {m} \cup Among(queue')
      /\ Queued = RankOf(m, out) \cup Queued'
      /\ Unread' = Unread /\ Coming' = Coming /\ OnItsWay = RankOf(m, out) \cup OnItsWay'
      /\ \A i \in 1 .. Len(queue') : i + 1 \in 1 .. Len(queue) /\ queue'[i] = queue[i + 1]
      /\ \A k, i : i \in 1 .. Len(queue') + 1 /\ SeedBefore(k, i + 1) =>
                     (m.kind = "replay" /\ k <= m.at) \/ SeedBefore(k, i)'
      /\ \A k : SeedBefore(k, Len(queue) + 1) =>
                  (m.kind = "replay" /\ k <= m.at) \/ SeedBefore(k, Len(queue) + 1)'
  BY ReadMoves
<1>2. NoneGone'
  BY <1>0, <1>1 DEF Seam, NoneGone
<1>3. QueueFollows'
  <2> SUFFICES ASSUME NEW i \in 1 .. Len(queue'), Ranked(queue'[i]), NEW k \in 1 .. Rank(queue'[i], out) - 1
               PROVE  Reached(k)' \/ k \in Queued' \/ SeedBefore(k, i)'
    BY <1>0 DEF QueueFollows
  <2>1. i + 1 \in 1 .. Len(queue) /\ queue'[i] = queue[i + 1] /\ i \in 1 .. Len(queue') + 1
    BY <1>1
  <2>2. Reached(k) \/ k \in Queued \/ SeedBefore(k, i + 1)
    BY <2>1 DEF Seam, QueueFollows
  <2>3. k \in 1 .. out
    BY <2>1, Asked
  <2> QED BY <1>1, <2>1, <2>2, <2>3
<1>4. ASSUME NEW k \in 1 .. out, Covered(k) PROVE Covered(k)'
  <2>1. ByForwarder(k) => ByForwarder(k)'
    BY <1>0 DEF ByForwarder
  <2> QED BY <1>1, <1>4, <2>1 DEF Covered
<1>5. RestFollows'
  <2>1. Unread' \cup Coming' \cup NextOut' \subseteq Unread \cup Coming \cup NextOut
    BY <1>0, <1>1 DEF NextOut
  <2> QED BY <1>4, <2>1, RestKeeps DEF Seam
<1>6. life' = "running" => SeedComes'
  BY <1>0, <1>1 DEF Seam, SeedComes
<1> QED BY <1>2, <1>3, <1>5, <1>6 DEF Seam

\* The seeds that are under way after the head cover what all of them did.
LEMMA FewerSeeds ==
  ASSUME TypeInv, OrderInv, TakeMessage, UNCHANGED dispatcher
  PROVE  \A k : SeedsCover(k) => SeedsCover(k)'
<1>1. UNCHANGED <<forwarder, dispatcher>> /\ Among(queue) = {Head(queue)} \cup Among(queue')
  BY ReadMoves DEF TakeMessage
<1> QED BY <1>1 DEF SeedsCover

\* A chunk is read: all before it is in the mirror, or its seed will be.
LEMMA SeamData ==
  ASSUME TypeInv, OrderInv, Seam, TakeMessage, UNCHANGED dispatcher, NEW m, m = Head(queue), m.kind = "data",
         shadow'.text = Append(shadow.text, m.at), shadow'.primed = shadow.primed
  PROVE  Seam'
<1> DEFINE u == shadow.text
           n == m.at
<1>1. m \in Msgs(QueueKinds, out) /\ m = queue[1] /\ 1 \in 1 .. Len(queue)
      /\ Queued = RankOf(m, out) \cup Queued' /\ AllBefore(RankOf(m, out), Queued')
  BY ReadMoves
<1>2. out \in Nat /\ n \in 1 .. out /\ Ranked(m) /\ Rank(m, out) = n /\ RankOf(m, out) = {n}
  BY <1>1, Bounds, MsgKinds DEF Ranked, Rank, RankOf
<1>3. /\ Len(shadow'.text) = Len(u) + 1 /\ shadow'.text[Len(u) + 1] = n /\ Len(u) \in Nat
      /\ \A i \in 1 .. Len(u) : shadow'.text[i] = u[i]
      /\ Text' = Text \cup {n}
  <2> DEFINE S == 1 .. out
  <2>1. u \in Seq(S) /\ n \in S /\ shadow'.text = Append(u, n)
    BY <1>2, EntryIs
  <2> HIDE DEF S, u, n
  <2>2. /\ Len(shadow'.text) = Len(u) + 1 /\ shadow'.text[Len(u) + 1] = n /\ Len(u) \in Nat
        /\ \A i \in 1 .. Len(u) : shadow'.text[i] = u[i]
    BY <2>1, AppendShape
  <2>3. Among(shadow'.text) = Among(u) \cup {n}
    <3>1. Among(Append(u, n)) = Among(u) \cup {n}
      BY <2>1, AmongAppend
    <3> QED BY <2>1, <3>1
  <2> QED BY <2>2, <2>3 DEF Text, u
<1>4. \A k : Promised(k) => Promised(k)'
  BY FewerSeeds DEF Promised
<1>5. ASSUME NEW k \in 1 .. n - 1 PROVE Reached(k)
  <2>1. Reached(k) \/ k \in Queued \/ SeedBefore(k, 1)
    BY <1>1, <1>2 DEF Seam, QueueFollows
  <2>2. k \notin Queued
    <3>1. Queued = {n} \cup Queued' /\ n \in Int /\ \A y \in Queued' : n < y
      <4>1. n \in Int /\ RankOf(m, out) = {n}
        BY <1>2
      <4> HIDE DEF n
      <4> QED BY <1>1, <4>1 DEF AllBefore
    <3> HIDE DEF n
    <3> QED BY <3>1
  <2>3. ~SeedBefore(k, 1)
    BY DEF SeedBefore
  <2> QED BY <2>1, <2>2, <2>3
<1> HIDE DEF n
<1>6. TextFollows'
  <2> SUFFICES ASSUME NEW i \in 1 .. Len(shadow'.text), NEW k \in 1 .. shadow'.text[i] - 1
               PROVE  Promised(k)' \/ \E j \in 1 .. i - 1 : shadow'.text[j] = k
    BY DEF TextFollows
  <2>1. CASE i \in 1 .. Len(u)
    <3>1. Promised(k) \/ \E j \in 1 .. i - 1 : u[j] = k
      BY <1>3, <2>1 DEF Seam, TextFollows
    <3>2. \A j \in 1 .. i - 1 : j \in 1 .. Len(u)
      BY <1>3, <2>1
    <3> QED BY <1>3, <1>4, <3>1, <3>2
  <2>2. CASE i = Len(u) + 1
    <3>1. Reached(k)
      BY <1>3, <1>5, <2>2
    <3>2. CASE k \in Text
      <4>1. PICK j \in 1 .. Len(u) : u[j] = k
        BY <3>2 DEF Text, Among
      <4>2. j \in 1 .. i - 1 /\ shadow'.text[j] = k
        BY <1>3, <2>2, <4>1
      <4> QED BY <4>2
    <3> QED BY <1>4, <3>1, <3>2 DEF Reached
  <2>3. i \in 1 .. Len(u) \/ i = Len(u) + 1
    BY <1>3
  <2> QED BY <2>1, <2>2, <2>3
<1>7. \A k : Reached(k) => Reached(k)'
  BY <1>3, <1>4 DEF Reached
<1>8. \A k \in RankOf(m, out) : Reached(k)'
  BY <1>2, <1>3 DEF Reached
<1> QED BY <1>6, <1>7, <1>8, SeamBehind

\* The exit is read: nothing comes after it.
LEMMA SeamExit ==
  ASSUME TypeInv, OrderInv, PhaseInv, Seam, TakeMessage, UNCHANGED dispatcher, Head(queue).kind = "exit",
         shadow' = NoShadow
  PROVE  Seam'
<1>0. UNCHANGED <<out, life, forwarder>> /\ shadow'.text = <<>> /\ out \in Nat
  BY EntryIs, Bounds DEF TakeMessage, daemonVars
<1> DEFINE m == Head(queue)
<1>1. /\ Among(queue) = {m} \cup Among(queue')
      /\ Queued = RankOf(m, out) \cup Queued' /\ AllBefore(RankOf(m, out), Queued')
      /\ Unread' = Unread /\ Coming' = Coming /\ OnItsWay = RankOf(m, out) \cup OnItsWay'
  BY ReadMoves
<1>2. RankOf(m, out) = {out + 1}
  BY DEF RankOf, Ranked, Rank
<1>3. out + 1 \in Queued /\ out + 1 \in OnItsWay
  BY <1>1, <1>2
<1>4. Queued' = {} /\ Unread = {} /\ Coming = {}
  <2>1. \A x \in Queued' \cup Unread \cup Coming : out + 1 < x /\ x \in 1 .. out + 1
    BY <1>1, <1>2, <1>3, Bounds DEF AllBefore, OrderInv
  <2> QED BY <1>0, <2>1
<1>5. life' \in {"exited", "forgotten"} /\ NextOut' = {}
  BY <1>0, <1>3 DEF PhaseInv, NextOut
<1>6. TextFollows'
  BY <1>0 DEF TextFollows
<1>7. QueueFollows'
  <2>1. \A i \in 1 .. Len(queue') : Ranked(queue'[i]) => Rank(queue'[i], out') \in Queued'
    BY DEF Queued, Ranks
  <2> QED BY <1>4, <2>1 DEF QueueFollows
<1>8. RestFollows' /\ NoneGone'
  BY <1>0, <1>1, <1>4, <1>5 DEF RestFollows, Seam, NoneGone
<1> QED BY <1>5, <1>6, <1>7, <1>8 DEF Seam

\* A splice keeps of the mirror every chunk that the seed does not cover.
LEMMA SpliceKeeps ==
  ASSUME TypeInv, CountInv, "behind" \notin lapses, NEW c \in 0 .. out, NEW d \in 0 .. Len(shadow.text), NEW new,
         SpliceOf(new, shadow, c, d)
  PROVE  /\ \A i \in 1 .. c : i \in 1 .. Len(new.text) /\ new.text[i] = i
         /\ \A q \in 1 .. Len(shadow.text) : shadow.text[q] > c =>
              c + (q - d) \in c + 1 .. Len(new.text) /\ new.text[c + (q - d)] = shadow.text[q]
         /\ \A i \in 1 .. Len(new.text) : i > c =>
              d + (i - c) \in 1 .. Len(shadow.text) /\ new.text[i] = shadow.text[d + (i - c)]
<1>1. /\ Len(shadow.text) \in Nat /\ shadow.bytes \in Nat /\ c \in Nat /\ d \in Nat
      /\ \A i \in 1 .. Len(shadow.text) : shadow.text[i] \in Int
  <2> DEFINE u == shadow.text
             S == 1 .. out
  <2>1. u \in Seq(S) /\ shadow.bytes \in Nat /\ Len(u) \in Nat /\ out \in Nat
    BY EntryIs, Bounds
  <2>2. \A i \in 1 .. Len(u) : u[i] \in S
    <3> HIDE DEF u, S
    <3> QED BY <2>1
  <2> QED BY <2>1, <2>2
<1>2. /\ d = 0 \/ Len(shadow.text) - d >= shadow.bytes - c
      /\ Len(new.text) = c + Len(shadow.text) - d
      /\ \A i \in 1 .. c : new.text[i] = i
      /\ \A i \in 1 .. Len(shadow.text) - d : new.text[c + i] = shadow.text[d + i]
  BY DEF SpliceOf
<1>3. \A i \in 1 .. c : i \in 1 .. Len(new.text)
  BY <1>1, <1>2
<1>4. ASSUME NEW q \in 1 .. Len(shadow.text), shadow.text[q] > c
      PROVE  c + (q - d) \in c + 1 .. Len(new.text) /\ new.text[c + (q - d)] = shadow.text[q]
  <2>1. shadow.text[q] + Len(shadow.text) - q <= shadow.bytes
    BY DEF CountInv
  <2>2. q > d
    BY SMTT(30), <1>1, <1>2, <1>4, <2>1
  <2>3. q - d \in 1 .. Len(shadow.text) - d /\ d + (q - d) = q
        /\ c + (q - d) \in c + 1 .. c + Len(shadow.text) - d
    BY <1>1, <2>2
  <2>4. new.text[c + (q - d)] = shadow.text[d + (q - d)]
    BY <1>2, <2>3
  <2> QED BY <1>2, <2>3, <2>4
<1>5. ASSUME NEW i \in 1 .. Len(new.text), i > c
      PROVE  d + (i - c) \in 1 .. Len(shadow.text) /\ new.text[i] = shadow.text[d + (i - c)]
  <2>1. i - c \in 1 .. Len(shadow.text) - d /\ c + (i - c) = i /\ d + (i - c) \in 1 .. Len(shadow.text)
    BY <1>1, <1>2, <1>5
  <2>2. new.text[c + (i - c)] = shadow.text[d + (i - c)]
    BY <1>2, <2>1
  <2> QED BY <2>1, <2>2
<1> QED BY <1>2, <1>3, <1>4, <1>5

\* A seed is read: the mirror has its beginning, and goes on after it without a gap.
LEMMA SeamReplay ==
  ASSUME TypeInv, OrderInv, CountInv, Seam, "behind" \notin lapses, TakeMessage, UNCHANGED dispatcher,
         NEW m, m = Head(queue), m.kind = "replay", m.at \in 0 .. out, shadow' = Spliced(shadow, m.at)
  PROVE  Seam'
<1> DEFINE c == m.at
           u == shadow.text
           v == shadow'.text
<1>1. m \in Among(queue)
  BY ReadMoves
<1>2. shadow'.primed /\ \E d \in 0 .. Len(u) : SpliceOf(shadow', shadow, c, d)
  <2>1. out \in Nat /\ shadow \in Shadows(out) /\ c \in 0 .. out /\ shadow' = Spliced(shadow, c)
    BY EntryIs, Bounds
  <2> HIDE DEF c, u
  <2>2. /\ Spliced(shadow, c).primed
        /\ \E d \in 0 .. Len(shadow.text) : SpliceOf(Spliced(shadow, c), shadow, c, d)
    BY <2>1, SplicedShape
  <2> QED BY <2>1, <2>2 DEF u
<1>3. PICK d \in 0 .. Len(u) : SpliceOf(shadow', shadow, c, d)
  BY <1>2
<1>4. /\ \A i \in 1 .. c : i \in 1 .. Len(v) /\ v[i] = i
      /\ \A q \in 1 .. Len(u) : u[q] > c => c + (q - d) \in c + 1 .. Len(v) /\ v[c + (q - d)] = u[q]
      /\ \A i \in 1 .. Len(v) : i > c => d + (i - c) \in 1 .. Len(u) /\ v[i] = u[d + (i - c)]
  <2>1. c \in 0 .. out /\ d \in 0 .. Len(shadow.text) /\ SpliceOf(shadow', shadow, c, d)
    BY <1>3
  <2> DEFINE new == shadow'
  <2> HIDE DEF c, new
  <2>2. SpliceOf(new, shadow, c, d)
    BY <2>1 DEF new
  <2>3. /\ \A i \in 1 .. c : i \in 1 .. Len(new.text) /\ new.text[i] = i
        /\ \A q \in 1 .. Len(shadow.text) : shadow.text[q] > c =>
             c + (q - d) \in c + 1 .. Len(new.text) /\ new.text[c + (q - d)] = shadow.text[q]
        /\ \A i \in 1 .. Len(new.text) : i > c =>
             d + (i - c) \in 1 .. Len(shadow.text) /\ new.text[i] = shadow.text[d + (i - c)]
    BY <2>1, <2>2, SpliceKeeps
  <2> QED BY <2>3 DEF new
<1>5. c \in Nat /\ d \in Nat /\ out \in Nat /\ Len(u) \in Nat
  BY EntryIs, Bounds
<1>6. \A k : Promised(k) => k <= c
  BY <1>1 DEF Promised, SeedsCover
<1>7. TextFollows'
  <2> SUFFICES ASSUME NEW i \in 1 .. Len(v), NEW k \in 1 .. v[i] - 1
               PROVE  \E j \in 1 .. i - 1 : v[j] = k
    BY DEF TextFollows
  <2>1. CASE i <= c
    <3>1. i \in 1 .. c /\ v[i] = i
      BY <1>4, <1>5, <2>1
    <3>2. k \in 1 .. i - 1 /\ k \in 1 .. c
      BY <1>5, <3>1
    <3> QED BY <1>4, <3>2
  <2>2. CASE i > c /\ k <= c
    <3>1. k \in 1 .. c /\ k \in 1 .. i - 1
      BY <1>5, <2>2
    <3> QED BY <1>4, <3>1
  <2>3. CASE i > c /\ ~(k <= c)
    <3>1. d + (i - c) \in 1 .. Len(u) /\ v[i] = u[d + (i - c)]
      BY <1>4, <2>3
    <3>2. Promised(k) \/ \E q \in 1 .. d + (i - c) - 1 : u[q] = k
      BY SMTT(30), <3>1 DEF Seam, TextFollows
    <3>3. PICK q \in 1 .. d + (i - c) - 1 : u[q] = k
      BY <1>6, <2>3, <3>2
    <3>4. q \in 1 .. Len(u) /\ u[q] > c
      <4>1. q \in 1 .. Len(u)
        BY <1>5, <3>1, <3>3
      <4>2. k > c
        BY <1>5, <2>3
      <4> QED BY <3>3, <4>1, <4>2
    <3>5. c + (q - d) \in c + 1 .. Len(v) /\ v[c + (q - d)] = k
      BY <1>4, <3>3, <3>4
    <3>6. c + (q - d) \in 1 .. i - 1
      <4>1. \A a, b, p, n \in Int : a >= 0 /\ p <= b + (n - a) - 1 /\ a + (p - b) >= a + 1 => a + (p - b) \in 1 .. n - 1
        OBVIOUS
      <4>2. c \in Int /\ d \in Int /\ q \in Int /\ i \in Int /\ c >= 0 /\ q <= d + (i - c) - 1 /\ c + (q - d) >= c + 1
        BY <1>5, <3>3, <3>5
      <4> HIDE DEF c
      <4> QED BY <4>1, <4>2
    <3> QED BY <3>5, <3>6
  <2> QED BY <1>5, <2>1, <2>2, <2>3
<1>8. \A k \in 1 .. out : k <= c => Reached(k)'
  <2> SUFFICES ASSUME NEW k \in 1 .. out, k <= c PROVE \E j \in 1 .. Len(v) : v[j] = k
    BY DEF Reached, Text, Among
  <2>1. k \in 1 .. c
    BY <1>5
  <2> QED BY <1>4, <2>1
<1>9. ASSUME NEW k \in 1 .. out, Reached(k) PROVE Reached(k)'
  <2>1. CASE k <= c
    BY <1>8, <2>1
  <2>2. CASE ~(k <= c)
    <3>1. PICK q \in 1 .. Len(u) : u[q] = k
      BY <1>6, <1>9, <2>2 DEF Reached, Text, Among
    <3>2. c + (q - d) \in c + 1 .. Len(v) /\ v[c + (q - d)] = k
      BY <1>4, <1>5, <2>2, <3>1
    <3>3. c + (q - d) \in 1 .. Len(v)
      BY <1>5, <3>2
    <3> QED BY <3>2, <3>3 DEF Reached, Text, Among
  <2> QED BY <2>1, <2>2
<1>10. RankOf(m, out) = {}
  BY DEF RankOf, Ranked
<1> QED BY <1>2, <1>7, <1>8, <1>9, <1>10, SeamBehind

\* The reader keeps the seam.
LEMMA SeamRead ==
  ASSUME TypeInv, OrderInv, PhaseInv, CountInv, Seam, ReadMessage, Fine, Fine'
  PROVE  Seam'
<1> DEFINE m == Head(queue)
<1>0. TakeMessage /\ UNCHANGED dispatcher /\ m.kind # "sessions" /\ shadow' = Folded(shadow, m)
      /\ (shadow.there /\ ~shadow'.there /\ m # Exit => "dismissed" \in lapses')
      /\ "behind" \notin lapses /\ "dismissed" \notin lapses'
  BY DEF ReadMessage, Remember, Fine
<1>1. m \in Msgs(QueueKinds, out) /\ m \in Among(queue)
  BY <1>0, ReadMoves
<1>2. /\ m.kind \in QueueKinds /\ m.at \in -1 .. out
      /\ m.kind = "data" => /\ shadow'.text = Append(shadow.text, m.at) /\ shadow'.primed = shadow.primed
      /\ m.kind = "exit" => shadow' = NoShadow
      /\ m.kind = "replay" => shadow' = Spliced(shadow, m.at) /\ m.at \in 0 .. out
      /\ m.kind = "changed" => shadow' = Reconciled(shadow, m.at)
  BY <1>0, <1>1, FoldedShape
<1>3. CASE m.kind = "data"
  BY <1>0, <1>2, <1>3, SeamData
<1>4. CASE m.kind = "exit"
  BY <1>0, <1>2, <1>4, SeamExit
<1>5. CASE m.kind = "replay"
  BY <1>0, <1>2, <1>5, SeamReplay
<1>6. CASE m.kind = "changed"
  <2>1. shadow'.text = shadow.text /\ shadow'.primed = shadow.primed
    <3>1. \/ shadow'.text = shadow.text /\ shadow'.primed = shadow.primed
          \/ shadow' = NoShadow /\ shadow.there
      BY <1>2, <1>6, ListedShape
    <3>2. m # Exit /\ NoShadow.there = FALSE
      <4>1. m # Exit
        BY <1>6 DEF Exit, Item
      <4> QED BY <4>1, EntryIs
    <3> QED BY <1>0, <3>1, <3>2
  <2>2. \A k : Promised(k) => Promised(k)'
    BY <1>0, <2>1, FewerSeeds DEF Promised
  <2>3. TextFollows' /\ \A k : Reached(k) => Reached(k)'
    BY <2>1, <2>2 DEF Seam, TextFollows, Reached, Text
  <2>4. RankOf(m, out) = {}
    BY <1>6 DEF RankOf, Ranked
  <2> QED BY <1>0, <1>6, <2>1, <2>3, <2>4, SeamBehind
<1>7. m.kind # "noSeed"
  BY <1>1 DEF Seam, NoneGone
<1> QED BY <1>0, <1>2, <1>3, <1>4, <1>5, <1>6, <1>7 DEF QueueKinds

\* The mirror of a session that the client is creating has its beginning.
LEMMA CreateKeeps ==
  ASSUME TypeInv, PhaseInv, SeamInv, [Next]_vars, Fine, Fine', dispatcher'.kind = "create"
  PROVE  shadow'.primed
<1> USE DEF mirrorVars, daemonVars, connVars, streamVars
<1>1. CASE Create
  BY <1>1 DEF Create, NoShadow
<1>2. CASE ~Create
  <2>1. dispatcher.kind = "create" /\ (shadow' = shadow \/ ReadMessage)
    <3>1. \A k : k # "create" => dispatcher' # Item(k, 0)
      BY KindsApart
    <3>2. dispatcher' # Idle /\ dispatcher' # Seed /\ dispatcher' # Sessions(Snapshot)
      BY KindsApart, MoreKinds DEF Seed
    <3>3. ~Subscribe /\ ~TakeSeed /\ ~ReplyToAttach /\ ~DispatchCreate /\ ~DispatchKill /\ ~TakeList /\ ~ReplyToList
      BY <3>1, <3>2 DEF Subscribe, TakeSeed, ReplyToAttach, DispatchCreate, DispatchKill, TakeList, ReplyToList
    <3>4. ~List /\ ~KillOwn /\ ~Drop /\ ~Redial /\ ~ReadSessionsAtLaunch /\ ~Resync
      BY <3>1, <3>2 DEF List, Send, KillOwn, Drop, Redial, ReadSessionsAtLaunch, Resync, AttachIfListed
    <3>5. \/ (DriverStep \/ ForwardStep) /\ UNCHANGED mirrorVars
          \/ PumpAndTell \/ Watch \/ SendSnapshot \/ ForwardNotice \/ TakeSnapshot \/ KillAndTell
          \/ UNCHANGED vars \/ ReadMessage
      BY <1>2, <3>3, <3>4 DEF Next, DaemonStep, ClientStep, DispatchStep
    <3>6. dispatcher' = dispatcher /\ (shadow' = shadow \/ ReadMessage)
      BY <3>5 DEF DriverStep, Flush, ChildExits, Forget, ForwardStep, Forward, Lag, TakeResync, SendResync,
                  PumpAndTell, Pump, Watch, SendSnapshot, ForwardNotice, TakeSnapshot, KillAndTell, Kill,
                  ReadMessage, vars
    <3> QED BY <3>6
  <2>2. shadow.primed /\ life = "unborn" /\ out = 0
    BY <2>1 DEF SeamInv, PhaseInv
  <2>3. CASE ReadMessage
    <3> DEFINE m == Head(queue)
    <3>0. TakeMessage /\ m.kind # "sessions" /\ shadow' = Folded(shadow, m)
          /\ (shadow.there /\ ~shadow'.there /\ m # Exit => "dismissed" \in lapses')
          /\ "dismissed" \notin lapses'
      BY <2>3 DEF ReadMessage, Remember, Fine
    <3>1. m \in Msgs(QueueKinds, out) /\ 1 \in 1 .. Len(queue) /\ m = queue[1]
      <4>1. queue \in Seq(Msgs(QueueKinds, out)) /\ queue # <<>>
        BY <3>0 DEF TypeInv, TakeMessage
      <4> QED BY <4>1, TailShape
    <3>2. /\ m.kind \in QueueKinds /\ m.at \in -1 .. out
          /\ m.kind = "data" => m.at \in 1 .. out
          /\ m.kind = "replay" => shadow' = Spliced(shadow, m.at) /\ m.at \in 0 .. out
          /\ m.kind = "changed" => shadow' = Reconciled(shadow, m.at)
          /\ m.kind = "noSeed" => shadow' = shadow
      BY <3>0, <3>1, FoldedShape
    <3>3. m.kind # "data"
      BY <2>2, <3>2
    <3>4. m.kind # "exit"
      <4>1. m.kind = "exit" => out + 1 \in Queued
        BY <3>1, Bounds DEF Ranked, Rank
      <4> QED BY <2>2, <4>1 DEF PhaseInv, OnItsWay
    <3>5. CASE m.kind = "replay"
      <4>1. out \in Nat /\ shadow \in Shadows(out) /\ m.at \in 0 .. out /\ shadow' = Spliced(shadow, m.at)
        BY <3>2, <3>5, EntryIs, Bounds
      <4> HIDE DEF m
      <4>2. Spliced(shadow, m.at).primed
        BY <4>1, SplicedShape
      <4> QED BY <4>1, <4>2
    <3>6. CASE m.kind = "changed"
      <4>1. \/ shadow'.text = shadow.text /\ shadow'.primed = shadow.primed
            \/ shadow' = NoShadow /\ shadow.there
        BY <3>2, <3>6, ListedShape
      <4>2. m # Exit
        BY <3>6 DEF Exit, Item
      <4>3. NoShadow.there = FALSE
        BY EntryIs
      <4> QED BY <2>2, <3>0, <4>1, <4>2, <4>3
    <3> QED BY <2>2, <3>0, <3>2, <3>3, <3>4, <3>5, <3>6 DEF QueueKinds
  <2> QED BY <2>1, <2>2, <2>3
<1> QED BY <1>1, <1>2

-----------------------------------------------------------------------------
(* The invariant holds.                                                    *)

\* What a client may start from.
LEMMA InitKeeps == Init => MirrorInv /\ GhostInv
<1> SUFFICES ASSUME Init PROVE MirrorInv /\ GhostInv
  OBVIOUS
<1>1. /\ life \in {"unborn", "running"} /\ out = 0 /\ noise = 0 /\ emitted = <<>> /\ unread = <<>> /\ queue = <<>>
      /\ attached = FALSE /\ forwarder = Idle /\ dispatcher = Idle /\ spoiled = {}
      /\ shadow = NoShadow /\ link = "seeding" /\ notes = <<>> /\ draft = NoDraft /\ sampled = FALSE
      /\ events = 0 /\ lapses = {}
  BY DEF Init, StreamInit
<1>2. forwarder.kind = "idle" /\ dispatcher.kind = "idle"
  BY <1>1, KindsApart
<1>3. TypeInv
  <2>1. Idle \in Msgs(DispatchKinds, 0) /\ Idle \in Msgs({"idle", "resync", "replay", "noSeed"}, 0)
        /\ NoDraft \in Msgs({"noDraft", "changed"}, 0)
    BY KindsApart, MoreKinds, MsgIs DEF DispatchKinds
  <2>2. NoShadow \in Shadows(0)
    BY DEF NoShadow, Shadows
  <2>3. Len(<<>>) = 0 /\ QueueCap \in Nat /\ MaxOut \in Nat /\ MaxNoise \in Nat /\ MaxEvents \in Nat
    BY CapsAssumption, MirrorAssumption
  <2>4. \A S : <<>> \in Seq(S)
    OBVIOUS
  <2>5. /\ emitted \in Seq(Msgs({"data", "exit"}, out)) /\ unread \in Seq(Msgs({"data", "exit"}, out))
        /\ queue \in Seq(Msgs(QueueKinds, out)) /\ notes \in Seq(Msgs({"changed"}, out))
    BY <1>1, <2>4
  <2>6. out \in 0 .. MaxOut /\ noise \in 0 .. MaxNoise /\ events \in 0 .. MaxEvents /\ Len(queue) <= QueueCap
    BY <1>1, <2>3
  <2>7. /\ forwarder \in Msgs({"idle", "resync", "replay", "noSeed"}, out) /\ dispatcher \in Msgs(DispatchKinds, out)
        /\ draft \in Msgs({"noDraft", "changed"}, out) /\ shadow \in Shadows(out)
    BY <1>1, <2>1, <2>2
  <2> QED BY <1>1, <2>5, <2>6, <2>7 DEF TypeInv
<1>4. OrderInv /\ OnItsWay = {}
  <2>1. Ranks(<<>>, out) = {} /\ Rising(<<>>, out)
    BY DEF Ranks, Rising
  <2> QED BY <1>1, <2>1 DEF OrderInv, OnItsWay, Queued, Unread, Coming, AllBefore
<1>5. PhaseInv
  BY <1>1, <1>2, <1>4, AmongIs DEF PhaseInv, NoShadow, Among
<1>6. SeamInv
  BY <1>1, <1>2 DEF SeamInv
<1>7. CountInv
  BY <1>1 DEF CountInv, NoShadow
<1>8. GhostInv
  BY <1>1 DEF GhostInv, NoShadow
<1> QED BY <1>3, <1>4, <1>5, <1>6, <1>7, <1>8 DEF MirrorInv

\* Every step keeps it.
LEMMA NextKeeps == MirrorInv /\ GhostInv /\ [Next]_vars => MirrorInv' /\ GhostInv'
<1> SUFFICES ASSUME MirrorInv, GhostInv, [Next]_vars PROVE MirrorInv' /\ GhostInv'
  OBVIOUS
<1>0. TypeInv /\ OrderInv /\ PhaseInv /\ SeamInv /\ CountInv
  BY DEF MirrorInv
<1>1. TypeInv'
  BY <1>0, TypeKeeps
<1>2. OrderInv' /\ (out' + 1 \in OnItsWay' => life' \in {"exited", "forgotten"})
  BY <1>0, OrderKeeps
<1>3. PhaseInv'
  BY <1>0, <1>1, <1>2, PhaseDaemon, PhaseClient DEF Next
<1>4. CountInv'
  BY <1>0, CountKeeps
<1>5. SeamInv'
  <2> SUFFICES ASSUME Fine' PROVE (attached' => Seam') /\ (dispatcher'.kind = "create" => shadow'.primed)
    BY DEF SeamInv
  <2>1. Fine
    BY <1>0, FineBefore
  <2>2. CASE ReadMessage
    <3>1. attached' = attached
      BY <2>2 DEF ReadMessage, TakeMessage
    <3> QED BY <1>0, <2>1, <2>2, <3>1, SeamRead, CreateKeeps DEF SeamInv
  <2>3. CASE ~ReadMessage
    BY <1>0, <1>1, <2>1, <2>3, SeamSteps, CreateKeeps
  <2> QED BY <2>2, <2>3
<1>6. GhostInv'
  <2>1. CASE UNCHANGED vars
    <3>1. UNCHANGED <<shadow, link, dispatcher, notes, queue, emitted, sampled, life, spoiled, lapses>>
      BY <2>1 DEF vars, streamVars, mirrorVars, daemonVars, connVars
    <3> QED BY <3>1, GhostStill DEF Sound, Over, Removal
  <2> QED BY <1>0, <2>1, GhostDaemon, GhostClient DEF Next
<1> QED BY <1>1, <1>2, <1>3, <1>4, <1>5, <1>6 DEF MirrorInv

\* The inductive invariant.
LEMMA InvHolds == Spec => [](MirrorInv /\ GhostInv)
  BY InitKeeps, NextKeeps, PTL DEF Spec

-----------------------------------------------------------------------------
(* The theorems.                                                           *)

\* What the mirror holds is the session's output from the first chunk on, in order and with no
\* chunk missing, across seeds, a lagging bus and reconnects, unless an event was dropped, the
\* session was gone when asked, the count was behind or the entry had been dismissed.
THEOREM MirrorKept == Spec => []MirrorKeepsAll
<1>1. MirrorInv => MirrorKeepsAll
  <2> SUFFICES ASSUME MirrorInv, shadow.primed, Fine PROVE Gapless(shadow.text)
    BY DEF MirrorKeepsAll, Fine
  <2>0. TypeInv /\ PhaseInv /\ SeamInv
    BY DEF MirrorInv
  <2>1. CASE attached
    <3>1. TextFollows
      BY <2>0, <2>1 DEF SeamInv, Seam
    <3> QED BY <3>1 DEF TextFollows, Promised, Gapless
  <2>2. CASE ~attached
    <3>1. out = 0
      BY <2>0, <2>2 DEF PhaseInv
    <3>2. \A i \in 1 .. Len(shadow.text) : \A k \in 1 .. shadow.text[i] - 1 : k \in 1 .. out
      BY <2>0, Asked
    <3> QED BY <3>1, <3>2 DEF Gapless
  <2> QED BY <2>1, <2>2
<1> QED BY <1>1, InvHolds, PTL

\* Once nothing is under way for a session that runs, its mirror holds everything it has output.
THEOREM RestComplete == Spec => []RestsComplete
<1>1. MirrorInv => RestsComplete
  <2> SUFFICES ASSUME MirrorInv, AtRest, attached, life = "running", Fine
               PROVE  shadow.there /\ Among(shadow.text) = 1 .. out
    BY DEF RestsComplete, Fine, Among
  <2>0. TypeInv /\ Seam
    BY DEF MirrorInv, SeamInv
  <2>1. forwarder.kind = "idle" /\ dispatcher.kind = "idle" /\ queue = <<>> /\ unread = <<>> /\ emitted = <<>>
    BY KindsApart DEF AtRest
  <2>2. shadow.primed
    BY <2>0, <2>1 DEF Seam, SeedComes, Among
  <2>3. shadow.there
    BY <2>0, <2>2 DEF TypeInv, NoShadow
  <2>4. OnItsWay = {} /\ \A k, i : ~SeedBefore(k, i)
    <3>1. Ranks(<<>>, out) = {}
      BY DEF Ranks
    <3> QED BY <2>1, <3>1 DEF OnItsWay, Queued, Unread, Coming, SeedBefore
  <2>5. ASSUME NEW k \in 1 .. out PROVE k \in Text
    <3>1. out + 1 \in NextOut /\ k \in 1 .. (out + 1) - 1
      BY <2>0, Bounds DEF NextOut
    <3>2. Covered(k)
      BY <2>0, <3>1 DEF Seam, RestFollows
    <3> QED BY <2>1, <2>2, <2>4, <3>2 DEF Covered, ByForwarder, Reached, Promised
  <2>6. \A k \in Text : k \in 1 .. out
    BY <2>0, EntryIs
  <2> QED BY <2>3, <2>5, <2>6 DEF Text
<1> QED BY <1>1, InvHolds, PTL

\* A session that has ended has left the client's list once nothing is under way, unless the
\* watcher had no sample of it, its push was dropped or the connection was lost with a create.
THEOREM GhostsGone == Spec => []GhostsFade
<1>1. GhostInv => GhostsFade
  <2> SUFFICES ASSUME GhostInv, AtRest, life \in {"forgotten", "killed", "silent"}, sampled = InRegistry,
                      Sound, shadow.there
               PROVE  FALSE
    BY DEF GhostsFade, Sound
  <2>1. Over /\ ~sampled
    BY DEF Over, InRegistry
  <2>2. Removal
    BY <2>1 DEF GhostInv
  <2> QED BY <2>2 DEF AtRest, Removal, Among
<1> QED BY <1>1, InvHolds, PTL

\* The types of the stream and of the application's copy.
THEOREM MirrorTyped == Spec => []TypeOK
<1>1. MirrorInv => TypeOK
  <2> SUFFICES ASSUME TypeInv PROVE TypeOK
    BY DEF MirrorInv
  <2>0. out \in Nat
    BY Bounds
  <2>a. \A n \in -1 .. out : n \in Snapshots
    BY <2>0 DEF Snapshots, Absent
  <2>1. \A kinds, m : m \in Msgs(kinds, out) =>
          /\ m.kind \in kinds
          /\ m.kind = "data" => m \in {Data(n) : n \in 1 .. out}
          /\ m.kind = "replay" => m \in {Replay(n) : n \in 0 .. out}
          /\ m.kind = "changed" => m \in {Changed(s) : s \in Snapshots}
          /\ m.kind = "sessions" => m \in {Sessions(s) : s \in Snapshots}
          /\ m.kind \notin {"data", "replay", "changed", "sessions"} => m = Item(m.kind, 0)
    <3> SUFFICES ASSUME NEW kinds, NEW m \in Msgs(kinds, out)
                 PROVE  /\ m.kind \in kinds
                        /\ m.kind = "data" => m \in {Data(n) : n \in 1 .. out}
                        /\ m.kind = "replay" => m \in {Replay(n) : n \in 0 .. out}
                        /\ m.kind = "changed" => m \in {Changed(s) : s \in Snapshots}
                        /\ m.kind = "sessions" => m \in {Sessions(s) : s \in Snapshots}
                        /\ m.kind \notin {"data", "replay", "changed", "sessions"} => m = Item(m.kind, 0)
      OBVIOUS
    <3>1. /\ m.kind \in kinds /\ m.at \in -1 .. out
          /\ m.kind = "data" => m.at \in 1 .. out
          /\ m.kind = "replay" => m.at \in 0 .. out
          /\ m.kind \notin {"data", "replay", "changed", "sessions"} => m = Item(m.kind, 0)
          /\ m = Item(m.kind, m.at)
      BY <2>0, MsgKinds
    <3>2. m.at \in Snapshots
      BY <2>a, <3>1
    <3> QED BY <3>1, <3>2, KindsApart, MoreKinds
  <2>2. \A i \in 1 .. Len(emitted) : emitted[i] \in {Exit} \cup {Data(n) : n \in 1 .. out}
    <3>1. \A i \in 1 .. Len(emitted) : emitted[i] \in Msgs({"data", "exit"}, out)
      BY DEF TypeInv
    <3> QED BY <2>1, <3>1, KindsApart
  <2>3. \A i \in 1 .. Len(unread) : unread[i] \in {Exit, Other} \cup {Data(n) : n \in 1 .. out}
    <3>1. \A i \in 1 .. Len(unread) : unread[i] \in Msgs({"data", "exit"}, out)
      BY DEF TypeInv
    <3> QED BY <2>1, <3>1, KindsApart
  <2>4. \A i \in 1 .. Len(queue) :
          queue[i] \in {Exit, NoSeed} \cup {Data(n) : n \in 1 .. out} \cup {Replay(n) : n \in 0 .. out}
                       \cup {Changed(s) : s \in Snapshots} \cup {Sessions(s) : s \in Snapshots}
    <3> SUFFICES ASSUME NEW i \in 1 .. Len(queue)
                 PROVE  queue[i] \in {Exit, NoSeed} \cup {Data(n) : n \in 1 .. out} \cup {Replay(n) : n \in 0 .. out}
                                     \cup {Changed(s) : s \in Snapshots} \cup {Sessions(s) : s \in Snapshots}
      OBVIOUS
    <3>1. queue[i] \in Msgs(QueueKinds, out)
      BY DEF TypeInv
    <3>2. queue[i].kind \in QueueKinds
      BY <2>1, <3>1
    <3> QED BY <2>1, <3>1, <3>2, KindsApart DEF QueueKinds
  <2>5. \A i \in 1 .. Len(notes) : notes[i] \in {Changed(s) : s \in Snapshots}
    <3>1. \A i \in 1 .. Len(notes) : notes[i] \in Msgs({"changed"}, out)
      BY DEF TypeInv
    <3> QED BY <2>1, <3>1
  <2>6. forwarder \in {Idle, NoSeed, Item("resync", 0)} \cup {Replay(n) : n \in 0 .. out}
    <3>1. forwarder \in Msgs({"idle", "resync", "replay", "noSeed"}, out)
      BY DEF TypeInv
    <3> QED BY <2>1, <3>1, KindsApart
  <2>7. dispatcher \in {Idle, NoSeed} \cup {Replay(n) : n \in 0 .. out}
          \cup {Item(k, 0) : k \in {"asked", "subscribed", "create", "list", "kill"}}
          \cup {Sessions(s) : s \in Snapshots}
    <3>1. dispatcher \in Msgs(DispatchKinds, out)
      BY DEF TypeInv
    <3>2. dispatcher.kind \in DispatchKinds
      BY <2>1, <3>1
    <3> QED BY <2>1, <3>1, <3>2, KindsApart DEF DispatchKinds
  <2>8. draft \in {NoDraft} \cup {Changed(s) : s \in Snapshots}
    <3>1. draft \in Msgs({"noDraft", "changed"}, out)
      BY DEF TypeInv
    <3> QED BY <2>1, <3>1, MoreKinds
  <2>9. \A i \in 1 .. Len(shadow.text) : shadow.text[i] \in 1 .. out
    <3> DEFINE u == shadow.text
               S == 1 .. out
    <3>1. u \in Seq(S)
      BY EntryIs
    <3> HIDE DEF u, S
    <3>2. \A i \in 1 .. Len(u) : u[i] \in S
      BY <3>1
    <3> QED BY <3>2 DEF u, S
  <2>10. shadow.there \in BOOLEAN /\ shadow.pending \in BOOLEAN /\ shadow.primed \in BOOLEAN /\ shadow.bytes \in Nat
    BY DEF TypeInv, Shadows
  <2>11. StreamTypeOK
    BY <2>2, <2>3, <2>6 DEF TypeInv, StreamTypeOK
  <2> QED BY <2>4, <2>5, <2>7, <2>8, <2>9, <2>10, <2>11 DEF TypeInv, TypeOK
<1> QED BY <1>1, InvHolds, PTL
=============================================================================
