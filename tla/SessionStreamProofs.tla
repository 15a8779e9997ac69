-------------------------- MODULE SessionStreamProofs --------------------------
(***************************************************************************)
(* What the proofs about a session's output on its way to a client share:  *)
(* the messages, their places in the output and the sequences they wait in.*)
(***************************************************************************)
EXTENDS SessionStream, SequenceTheorems, TLAPS

\* Messages of these kinds about a session that has output o chunks; a snapshot that
\* does not have the session is at -1.
Msgs(kinds, o) ==
  {m \in [kind : kinds, at : -1 .. o] :
     /\ m.kind \notin {"data", "replay", "changed", "sessions"} => m.at = 0
     /\ m.kind = "replay" => m.at >= 0
     /\ m.kind = "data" => m.at > 0}

\* The place of a message in the output: the exit comes after the last chunk.
Ranked(m)  == m.kind \in {"data", "exit"}
Rank(m, o) == IF m.kind = "exit" THEN o + 1 ELSE m.at
RankOf(m, o) == IF Ranked(m) THEN {Rank(m, o)} ELSE {}
Ranks(s, o) == {Rank(s[i], o) : i \in {j \in 1 .. Len(s) : Ranked(s[j])}}

Rising(s, o) ==
  \A i, j \in 1 .. Len(s) : i < j /\ Ranked(s[i]) /\ Ranked(s[j]) => Rank(s[i], o) < Rank(s[j], o)

AllBefore(A, B) == \A x \in A, y \in B : x < y

\* What stands in a sequence.
Among(s) == {s[i] : i \in 1 .. Len(s)}

\* What waits in the queue, at the bus and before the pump.
Queued == Ranks(queue, out)
Unread == Ranks(unread, out)
Coming == Ranks(emitted, out)

\* Chunk k is within a seed ahead of the place i of the queue, or within the one that the
\* forwarder is to send.
SeedBefore(k, i) == \E j \in 1 .. Len(queue) : j < i /\ queue[j].kind = "replay" /\ k <= queue[j].at

ByForwarder(k) ==
  forwarder.kind = "resync" \/ (forwarder.kind = "replay" /\ k <= forwarder.at)

-----------------------------------------------------------------------------
(* Sequences of messages.                                                  *)

\* What appending to a sequence does.
LEMMA AppendShape ==
  ASSUME NEW S, NEW s \in Seq(S), NEW e \in S
  PROVE  /\ Append(s, e) \in Seq(S) /\ Len(Append(s, e)) = Len(s) + 1 /\ Len(s) \in Nat
         /\ \A i \in 1 .. Len(s) : Append(s, e)[i] = s[i]
         /\ Append(s, e)[Len(s) + 1] = e
  OBVIOUS

\* What taking the head off a sequence does.
LEMMA TailShape ==
  ASSUME NEW S, NEW s \in Seq(S), s # <<>>
  PROVE  /\ Tail(s) \in Seq(S) /\ Len(Tail(s)) = Len(s) - 1 /\ Len(s) \in Nat \ {0}
         /\ \A i \in 1 .. Len(s) - 1 : Tail(s)[i] = s[i + 1]
         /\ Head(s) = s[1] /\ Head(s) \in S
  OBVIOUS

\* Appending adds a message to those that stand in a sequence, and taking the head off
\* removes no other.
LEMMA AmongAppend ==
  ASSUME NEW S, NEW s \in Seq(S), NEW e \in S
  PROVE  Among(Append(s, e)) = Among(s) \cup {e}
<1> DEFINE t == Append(s, e)
<1>1. /\ Len(t) = Len(s) + 1 /\ Len(s) \in Nat
      /\ \A i \in 1 .. Len(s) : t[i] = s[i]
      /\ t[Len(s) + 1] = e
  BY AppendShape
<1>2. 1 .. Len(t) = 1 .. Len(s) \cup {Len(s) + 1}
  BY <1>1
<1> HIDE DEF t
<1>3. Among(t) = Among(s) \cup {e}
  BY <1>1, <1>2 DEF Among
<1> QED BY <1>3 DEF t

LEMMA AmongTail ==
  ASSUME NEW S, NEW s \in Seq(S), s # <<>>
  PROVE  Among(s) = {Head(s)} \cup Among(Tail(s))
<1> DEFINE t == Tail(s)
           e == Head(s)
<1>1. /\ Len(t) = Len(s) - 1 /\ Len(s) \in Nat \ {0}
      /\ \A i \in 1 .. Len(s) - 1 : t[i] = s[i + 1]
      /\ e = s[1]
  BY TailShape
<1> HIDE DEF t, e
<1>2. \A i \in 1 .. Len(s) : i = 1 \/ (i - 1 \in 1 .. Len(t) /\ s[i] = t[i - 1])
  BY <1>1
<1>3. \A i \in 1 .. Len(t) : i + 1 \in 1 .. Len(s) /\ t[i] = s[i + 1]
  BY <1>1
<1>4. 1 \in 1 .. Len(s)
  BY <1>1
<1>5. Among(s) = {e} \cup Among(t)
  BY <1>1, <1>2, <1>3, <1>4 DEF Among
<1> QED BY <1>5 DEF t, e

\* What stands in a sequence is of its set, and nothing stands in an empty one.
LEMMA AmongIs ==
  ASSUME NEW S, NEW s \in Seq(S)
  PROVE  /\ Among(s) \subseteq S
         /\ s = <<>> <=> Among(s) = {}
         /\ Among(<<>>) = {}
<1>1. Among(<<>>) = {}
  BY DEF Among
<1>2. s # <<>> => 1 \in 1 .. Len(s)
  OBVIOUS
<1> QED BY <1>1, <1>2 DEF Among

\* What is on its way stays so as the session outputs more.
LEMMA MsgsGrow ==
  ASSUME NEW o \in Nat, NEW p \in Nat, o <= p, NEW kinds
  PROVE  Msgs(kinds, o) \subseteq Msgs(kinds, p) /\ Seq(Msgs(kinds, o)) \subseteq Seq(Msgs(kinds, p))
<1>1. Msgs(kinds, o) \subseteq Msgs(kinds, p)
  BY DEF Msgs
<1> HIDE DEF Msgs
<1> QED BY <1>1

\* What a message of given kinds may be.
LEMMA MsgKinds ==
  ASSUME NEW o \in Nat, NEW kinds, NEW m \in Msgs(kinds, o)
  PROVE  /\ m.kind \in kinds /\ m.at \in -1 .. o
         /\ m.kind \notin {"changed", "sessions"} => m.at \in 0 .. o
         /\ m.kind = "data" => m.at \in 1 .. o
         /\ m.kind \notin {"data", "replay", "changed", "sessions"} => m = Item(m.kind, 0)
         /\ m = Item(m.kind, m.at)
         /\ \A more : kinds \subseteq more => m \in Msgs(more, o)
         /\ \A fewer : m.kind \in fewer => m \in Msgs(fewer, o)
  BY DEF Msgs, Item

\* The messages of each kind.
LEMMA MsgIs ==
  ASSUME NEW o \in Nat, NEW kinds
  PROVE  /\ \A n \in 1 .. o : "data" \in kinds => Data(n) \in Msgs(kinds, o)
         /\ \A n \in 0 .. o : "replay" \in kinds => Replay(n) \in Msgs(kinds, o)
         /\ \A n \in -1 .. o : \A k \in kinds \cap {"changed", "sessions"} : Item(k, n) \in Msgs(kinds, o)
         /\ \A k \in kinds \ {"data", "replay"} : Item(k, 0) \in Msgs(kinds, o)
         /\ \A k, n : Item(k, n).kind = k /\ Item(k, n).at = n
  BY DEF Msgs, Item, Data, Replay

\* Appending adds the place of what is appended.
LEMMA RanksAppend ==
  ASSUME NEW S, NEW s \in Seq(S), NEW e \in S, NEW o
  PROVE  Ranks(Append(s, e), o) = Ranks(s, o) \cup RankOf(e, o)
<1> DEFINE t == Append(s, e)
<1>1. /\ Len(t) = Len(s) + 1 /\ Len(s) \in Nat
      /\ \A i \in 1 .. Len(s) : t[i] = s[i]
      /\ t[Len(s) + 1] = e
  BY AppendShape
<1>2. 1 .. Len(t) = 1 .. Len(s) \cup {Len(s) + 1}
  BY <1>1
<1> HIDE DEF t
<1>3. \A x : x \in Ranks(t, o) <=> \E i \in 1 .. Len(t) : Ranked(t[i]) /\ x = Rank(t[i], o)
  BY DEF Ranks
<1>4. \A x : x \in Ranks(s, o) <=> \E i \in 1 .. Len(s) : Ranked(s[i]) /\ x = Rank(s[i], o)
  BY DEF Ranks
<1>5. \A x : x \in RankOf(e, o) <=> Ranked(e) /\ x = Rank(e, o)
  BY DEF RankOf
<1>6. Ranks(t, o) = Ranks(s, o) \cup RankOf(e, o)
  BY <1>1, <1>2, <1>3, <1>4, <1>5
<1> QED BY <1>6 DEF t

\* Taking the head off removes its place.
LEMMA RanksTail ==
  ASSUME NEW S, NEW s \in Seq(S), s # <<>>, NEW o
  PROVE  Ranks(s, o) = RankOf(Head(s), o) \cup Ranks(Tail(s), o)
<1> DEFINE t == Tail(s)
           e == Head(s)
<1>1. /\ Len(t) = Len(s) - 1 /\ Len(s) \in Nat \ {0}
      /\ \A i \in 1 .. Len(s) - 1 : t[i] = s[i + 1]
      /\ e = s[1]
  BY TailShape
<1> HIDE DEF t, e
<1>3. \A x : x \in Ranks(t, o) <=> \E i \in 1 .. Len(t) : Ranked(t[i]) /\ x = Rank(t[i], o)
  BY DEF Ranks
<1>4. \A x : x \in Ranks(s, o) <=> \E i \in 1 .. Len(s) : Ranked(s[i]) /\ x = Rank(s[i], o)
  BY DEF Ranks
<1>5. \A x : x \in RankOf(e, o) <=> Ranked(e) /\ x = Rank(e, o)
  BY DEF RankOf
<1>6. \A i \in 1 .. Len(s) : i = 1 \/ i - 1 \in 1 .. Len(t)
  BY <1>1
<1>7. \A i \in 1 .. Len(t) : i + 1 \in 1 .. Len(s) /\ t[i] = s[i + 1]
  BY <1>1
<1>8. \A i \in 1 .. Len(s) : s[i] = IF i = 1 THEN e ELSE t[i - 1]
  BY <1>1, <1>6
<1>9. 1 \in 1 .. Len(s)
  BY <1>1
<1>10. ASSUME NEW x \in Ranks(s, o) PROVE x \in RankOf(e, o) \cup Ranks(t, o)
  <2> PICK i \in 1 .. Len(s) : Ranked(s[i]) /\ x = Rank(s[i], o)
    BY <1>4
  <2> QED BY <1>3, <1>5, <1>6, <1>8
<1>11. ASSUME NEW x \in Ranks(t, o) PROVE x \in Ranks(s, o)
  <2> PICK i \in 1 .. Len(t) : Ranked(t[i]) /\ x = Rank(t[i], o)
    BY <1>3
  <2> QED BY <1>4, <1>7
<1>12. ASSUME NEW x \in RankOf(e, o) PROVE x \in Ranks(s, o)
  BY <1>1, <1>4, <1>5, <1>9, <1>12
<1> QED BY <1>10, <1>11, <1>12 DEF t, e

\* A sequence stays in order when what is appended comes after all of it.
LEMMA RisingAppend ==
  ASSUME NEW S, NEW s \in Seq(S), NEW e \in S, NEW o, Rising(s, o),
         AllBefore(Ranks(s, o), RankOf(e, o))
  PROVE  Rising(Append(s, e), o)
<1> DEFINE t == Append(s, e)
<1>1. /\ Len(t) = Len(s) + 1 /\ Len(s) \in Nat
      /\ \A i \in 1 .. Len(s) : t[i] = s[i]
      /\ t[Len(s) + 1] = e
  BY AppendShape
<1> HIDE DEF t
<1> SUFFICES ASSUME NEW i \in 1 .. Len(t), NEW j \in 1 .. Len(t), i < j, Ranked(t[i]), Ranked(t[j])
             PROVE  Rank(t[i], o) < Rank(t[j], o)
  BY DEF Rising, t
<1>2. i \in 1 .. Len(s) /\ t[i] = s[i]
  BY <1>1
<1>3. CASE j \in 1 .. Len(s)
  BY <1>1, <1>2, <1>3 DEF Rising
<1>4. CASE j = Len(s) + 1
  <2>1. Rank(t[i], o) \in Ranks(s, o)
    BY <1>2 DEF Ranks
  <2>2. Rank(t[j], o) \in RankOf(e, o)
    BY <1>1, <1>4 DEF RankOf
  <2> QED BY <2>1, <2>2 DEF AllBefore
<1> QED BY <1>1, <1>3, <1>4

\* What is behind the head stays in order and comes after it.
LEMMA RisingTail ==
  ASSUME NEW S, NEW s \in Seq(S), s # <<>>, NEW o, Rising(s, o)
  PROVE  Rising(Tail(s), o) /\ AllBefore(RankOf(Head(s), o), Ranks(Tail(s), o))
<1> DEFINE t == Tail(s)
           e == Head(s)
<1>1. /\ Len(t) = Len(s) - 1 /\ Len(s) \in Nat \ {0}
      /\ \A i \in 1 .. Len(s) - 1 : t[i] = s[i + 1]
      /\ e = s[1]
  BY TailShape
<1> HIDE DEF t, e
<1>2. \A i \in 1 .. Len(t) : i + 1 \in 1 .. Len(s) /\ t[i] = s[i + 1]
  BY <1>1
<1>3. Rising(t, o)
  <2> SUFFICES ASSUME NEW i \in 1 .. Len(t), NEW j \in 1 .. Len(t), i < j, Ranked(t[i]), Ranked(t[j])
               PROVE  Rank(t[i], o) < Rank(t[j], o)
    BY DEF Rising
  <2>1. i + 1 < j + 1
    BY <1>1
  <2> QED BY <1>2, <2>1 DEF Rising
<1>4. ASSUME NEW x \in RankOf(e, o), NEW y \in Ranks(t, o) PROVE x < y
  <2>1. Ranked(e) /\ x = Rank(e, o)
    BY DEF RankOf
  <2>2. PICK i \in 1 .. Len(t) : Ranked(t[i]) /\ y = Rank(t[i], o)
    BY DEF Ranks
  <2>3. 1 \in 1 .. Len(s) /\ 1 < i + 1
    BY <1>1
  <2> QED BY <1>1, <1>2, <2>1, <2>2, <2>3 DEF Rising
<1> QED BY <1>3, <1>4 DEF AllBefore, t, e

\* The end of a sequence.
LEMMA EndShape ==
  ASSUME NEW S, NEW s \in Seq(S), NEW n \in Nat, n <= Len(s), NEW o, Rising(s, o)
  PROVE  LET t == SubSeq(s, Len(s) - n + 1, Len(s))
         IN  /\ t \in Seq(S) /\ Rising(t, o) /\ Ranks(t, o) \subseteq Ranks(s, o)
             /\ \A i \in 1 .. Len(s) : (\E j \in 1 .. Len(t) : t[j] = s[i]) \/ i <= Len(s) - n
<1> DEFINE t == SubSeq(s, Len(s) - n + 1, Len(s))
           d == Len(s) - n
<1>1. Len(s) \in Nat /\ d \in Nat /\ d + 1 \in 1 .. Len(s) + 1 /\ d = Len(s) - n
  OBVIOUS
<1>2. t \in Seq(S) /\ Len(t) = n /\ \A i \in 1 .. n : t[i] = s[d + i]
  <2>1. \A i \in d + 1 .. Len(s) : s[i] \in S
    BY <1>1
  <2> QED BY <1>1, <2>1, SubSeqProperties
<1> HIDE DEF t, d
<1>3. \A i \in 1 .. Len(t) : d + i \in 1 .. Len(s) /\ t[i] = s[d + i]
  BY <1>1, <1>2
<1>4. Rising(t, o)
  <2> SUFFICES ASSUME NEW i \in 1 .. Len(t), NEW j \in 1 .. Len(t), i < j, Ranked(t[i]), Ranked(t[j])
               PROVE  Rank(t[i], o) < Rank(t[j], o)
    BY DEF Rising
  <2>1. d + i < d + j
    BY <1>1, <1>2
  <2> QED BY <1>3, <2>1 DEF Rising
<1>5. Ranks(t, o) \subseteq Ranks(s, o)
  BY <1>3 DEF Ranks
<1>6. ASSUME NEW i \in 1 .. Len(s), i > d PROVE \E j \in 1 .. Len(t) : t[j] = s[i]
  <2>1. i - d \in 1 .. Len(t) /\ d + (i - d) = i
    BY <1>1, <1>2, <1>6
  <2> QED BY <1>3, <2>1
<1>7. \A i \in 1 .. Len(s) : (\E j \in 1 .. Len(t) : t[j] = s[i]) \/ i <= Len(s) - n
  <2>1. \A i \in 1 .. Len(s) : i > d \/ i <= Len(s) - n
    BY <1>1
  <2> QED BY <1>6, <2>1
<1> QED BY <1>2, <1>4, <1>5, <1>7 DEF t

\* Ranks are chunks that have been output, but for the exit's.
LEMMA RanksBound ==
  ASSUME NEW o \in Nat, NEW kinds, NEW s \in Seq(Msgs(kinds, o))
  PROVE  /\ Ranks(s, o) \subseteq 1 .. o + 1
         /\ o + 1 \in Ranks(s, o) <=> \E i \in 1 .. Len(s) : s[i].kind = "exit"
<1>1. \A i \in 1 .. Len(s) : s[i] \in Msgs(kinds, o)
  OBVIOUS
<1>2. ASSUME NEW i \in 1 .. Len(s), Ranked(s[i])
      PROVE  Rank(s[i], o) \in 1 .. o + 1 /\ (Rank(s[i], o) = o + 1 <=> s[i].kind = "exit")
  <2>1. s[i].kind = "data" => s[i].at \in 1 .. o
    BY <1>1, MsgKinds
  <2> QED BY <1>2, <2>1 DEF Ranked, Rank
<1>3. \A i \in 1 .. Len(s) : s[i].kind = "exit" => Ranked(s[i])
  BY DEF Ranked
<1> QED BY <1>2, <1>3 DEF Ranks

\* While no exit is among them, ranks do not change when the session outputs more.
LEMMA RanksGrow ==
  ASSUME NEW o \in Nat, NEW kinds, NEW s \in Seq(Msgs(kinds, o)), o + 1 \notin Ranks(s, o), NEW p
  PROVE  Ranks(s, p) = Ranks(s, o) /\ (Rising(s, o) => Rising(s, p))
<1>1. \A i \in 1 .. Len(s) : Rank(s[i], p) = Rank(s[i], o)
  BY RanksBound DEF Rank
<1> QED BY <1>1 DEF Ranks, Rising

\* What a seed repaints, and the chunk after it.
LEMMA UpToIs ==
  ASSUME NEW n \in Nat
  PROVE  /\ UpTo(n) \in Seq(1 .. n) /\ Len(UpTo(n)) = n
         /\ \A i \in 1 .. n : UpTo(n)[i] = i
         /\ Append(UpTo(n), n + 1) = UpTo(n + 1)
<1>1. UpTo(n) \in Seq(1 .. n) /\ Len(UpTo(n)) = n
  BY DEF UpTo
<1>2. Append(UpTo(n), n + 1) = UpTo(n + 1)
  BY DEF UpTo
<1> QED BY <1>1, <1>2 DEF UpTo

\* Sequences over a larger set.
LEMMA SeqGrow ==
  ASSUME NEW S, NEW T, S \subseteq T
  PROVE  Seq(S) \subseteq Seq(T)
  OBVIOUS

\* The kinds of messages apart.
LEMMA KindsApart ==
  /\ Exit = Item("exit", 0) /\ Other = Item("other", 0) /\ Idle = Item("idle", 0) /\ NoSeed = Item("noSeed", 0)
  /\ \A k, l, n : Item(k, n) = Item(l, n) => k = l
  /\ \A n, p : Data(n) = Data(p) => n = p
  /\ \A k, n : Item(k, n).kind = k /\ Item(k, n).at = n
  /\ \A n : Data(n) = Item("data", n) /\ Replay(n) = Item("replay", n)
  BY DEF Exit, Other, Idle, NoSeed, Data, Replay, Item

\* The head of one sequence moves to the end of the one ahead of it.
LEMMA MoveShape ==
  ASSUME NEW S, NEW s \in Seq(S), s # <<>>, NEW T, NEW t \in Seq(T), Head(s) \in T, NEW o,
         Rising(s, o), Rising(t, o), AllBefore(Ranks(t, o), Ranks(s, o))
  PROVE  LET r == RankOf(Head(s), o)
         IN  /\ Rising(Tail(s), o) /\ Rising(Append(t, Head(s)), o)
             /\ Ranks(s, o) = r \cup Ranks(Tail(s), o)
             /\ Ranks(Append(t, Head(s)), o) = Ranks(t, o) \cup r
             /\ AllBefore(r, Ranks(Tail(s), o))
<1>1. Ranks(s, o) = RankOf(Head(s), o) \cup Ranks(Tail(s), o)
  BY RanksTail
<1>2. Ranks(Append(t, Head(s)), o) = Ranks(t, o) \cup RankOf(Head(s), o)
  BY RanksAppend
<1>3. Rising(Tail(s), o) /\ AllBefore(RankOf(Head(s), o), Ranks(Tail(s), o))
  BY RisingTail
<1>4. AllBefore(Ranks(t, o), RankOf(Head(s), o))
  BY <1>1 DEF AllBefore
<1>5. Rising(Append(t, Head(s)), o)
  BY <1>4, RisingAppend
<1> QED BY <1>1, <1>2, <1>3, <1>5
=============================================================================
