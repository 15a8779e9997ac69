--------------------------- MODULE ClaimTableProofs ---------------------------
(***************************************************************************)
(* Proofs about the claim on a session, for any number of processes,       *)
(* connections and moves.                                                  *)
(***************************************************************************)
EXTENDS ClaimTable, FiniteSetTheorems, SequenceTheorems, TLAPS

Reply == [to : Requests, is : Answers]
Copy == [by : Conns \cup {Pump}, owner : Conns \cup {Nobody}]
Link == [id : Conns, is : {"up", "down", "syncing", "reclaiming", "dead"}]

ClaimDataTyped ==
  /\ owner \in Conns \cup {Nobody} /\ minted \in Conns /\ alive \in BOOLEAN
  /\ requests \in [Conns -> Seq(Requests)]
  /\ gated \subseteq Conns /\ closing \subseteq Conns /\ drafts \subseteq Copy
  /\ link \in [Procs -> Link]
  /\ replies \in [Procs -> Seq(Reply)] /\ notices \in [Procs -> Seq(Conns \cup {Nobody})]
  /\ table \in [Procs -> Conns \cup {Nobody}]
  /\ shows \subseteq Procs /\ published \subseteq Procs /\ asking \subseteq Procs
  /\ moves \in 0 .. MaxMoves /\ lapses \subseteq ClaimLapses

\* No connection is spoken of that has yet to be opened.
Opened ==
  /\ owner <= minted /\ \A d \in drafts : d.owner <= minted
  /\ \A k \in gated \cup closing : k <= minted
  /\ \A c \in Procs : /\ link[c].id <= minted /\ table[c] <= minted
                      /\ \A i \in DOMAIN notices[c] : notices[c][i] <= minted

InUse(k) == k \in closing \/ \E c \in Procs : Connected(c) /\ link[c].id = k

\* A connection is one process's, and has ended or has not; only one of those has
\* requests to read, or the claim.
ConnsApart ==
  /\ \A c, e \in Procs : link[c].id = link[e].id => c = e
  /\ \A c \in Procs : Connected(c) => link[c].id \notin closing
  /\ \A k \in Conns : requests[k] # <<>> \/ owner = k => InUse(k)
  /\ \A d, e \in drafts : d.by = e.by => d = e

\* A process that is not connected waits for nothing; a dead one has no window.
WindowsApart ==
  /\ \A c \in Procs : ~Connected(c) => replies[c] = <<>> /\ notices[c] = <<>> /\ c \notin asking
  /\ \A c \in Procs : link[c].is = "dead" => c \notin shows \cup published
  /\ asking \cap shows = {}

ClaimTyped == ClaimDataTyped /\ Opened /\ ConnsApart /\ WindowsApart

Has(q, what) == \E i \in DOMAIN q : q[i] \in what
Single(q, what) == \A i, j \in DOMAIN q : q[i] \in what /\ q[j] \in what => i = j
LastOf(q, x) == IF q = <<>> THEN x ELSE q[Len(q)]

\* An announcement that is not followed by a release.
Firm(q) ==
  \E i \in DOMAIN q : q[i] = "announce" /\ \A j \in DOMAIN q : j > i => q[j] # "release"

ToAdopt == [to : {"adopt"}, is : Answers]
GrantedIt == {[to |-> "adopt", is |-> "granted"]}
NotThere == [to : {"list"}, is : Answers \ {"there"}]
Queue(c) == requests[link[c].id]

\* The last copy on its way to a process is of the owner, or a thread is about to send
\* one; a process that has not been let in will be.
TableFor(c) ==
  Connected(c) =>
    IF link[c].id \in gated
    THEN (\E d \in drafts : d.owner = owner) \/ LastOf(notices[c], table[c]) = owner
    ELSE Has(Queue(c), {"hello"})
InStep == lapses \cap {"outrun", "dropped"} = {}
TableInv == InStep => \A c \in Procs : TableFor(c)

\* What a process has published as its own it has, or its announcement is still to be
\* read, and no release after it.
ThereFor(c) == alive => ~Has(replies[c], NotThere)
PublishedFor(c) ==
  c \in published /\ link[c].is = "up" =>
    Firm(Queue(c)) \/ (owner = link[c].id /\ ~Has(Queue(c), {"release"}))
Heeded == alive /\ lapses \cap {"refused", "mistold"} = {}
PublishedInv == (\A c \in Procs : ThereFor(c)) /\ (Heeded => \A c \in Procs : PublishedFor(c))

\* A process waits for the answer to one adoption at a time, and for no other.
AnswerFor(c) ==
  Connected(c) =>
    /\ Has(Queue(c), {"adopt"}) \/ Has(replies[c], ToAdopt) => c \in asking
    /\ Single(Queue(c), {"adopt"}) /\ Single(replies[c], ToAdopt)
    /\ ~(Has(Queue(c), {"adopt"}) /\ Has(replies[c], ToAdopt))
Heard == lapses \cap {"abandoned", "misread"} = {}
AnswerInv == Heard => \A c \in Procs : AnswerFor(c)

\* A process that has published nothing as its own has nothing, or gives it up, or
\* shows what it was granted, or is going to.
UnpublishedFor(c) ==
  c \notin published /\ Connected(c) =>
    /\ ~Firm(Queue(c))
    /\ owner = link[c].id =>
         Has(Queue(c), {"release"}) \/ Has(replies[c], GrantedIt) \/ c \in shows
Tidy == lapses \cap {"mistold", "abandoned", "unpublished", "misread"} = {}
UnpublishedInv == Tidy => \A c \in Procs : UnpublishedFor(c)

ClaimInv == ClaimTyped /\ TableInv /\ PublishedInv /\ AnswerInv /\ UnpublishedInv
-----------------------------------------------------------------------------
(* Queues.                                                                 *)

\* What is in a queue is what comes first or what follows.
LEMMA HasTail ==
  ASSUME NEW A, NEW q \in Seq(A), q # <<>>, NEW what
  PROVE  /\ Tail(q) \in Seq(A) /\ Head(q) \in A
         /\ Has(q, what) <=> Head(q) \in what \/ Has(Tail(q), what)
         /\ Single(q, what) => Single(Tail(q), what) /\ ~(Head(q) \in what /\ Has(Tail(q), what))
<1>1. /\ Tail(q) \in Seq(A) /\ Head(q) = q[1] /\ 1 \in DOMAIN q /\ Head(q) \in A
      /\ \A i \in DOMAIN Tail(q) : i + 1 \in DOMAIN q /\ Tail(q)[i] = q[i + 1] /\ i \in Nat \ {0}
      /\ \A i \in DOMAIN q : i # 1 => i - 1 \in DOMAIN Tail(q) /\ Tail(q)[i - 1] = q[i]
  OBVIOUS
<1>2. Has(q, what) <=> Head(q) \in what \/ Has(Tail(q), what)
  BY <1>1 DEF Has
<1>3. ASSUME Single(q, what)
      PROVE  Single(Tail(q), what) /\ ~(Head(q) \in what /\ Has(Tail(q), what))
  <2>1. Single(Tail(q), what)
    <3> SUFFICES ASSUME NEW i \in DOMAIN Tail(q), NEW j \in DOMAIN Tail(q), Tail(q)[i] \in what,
                        Tail(q)[j] \in what
                 PROVE  i = j
      BY DEF Single
    <3>1. i + 1 = j + 1
      BY <1>1, <1>3 DEF Single
    <3> QED
      BY <1>1, <3>1
  <2>2. ASSUME Head(q) \in what, NEW i \in DOMAIN Tail(q), Tail(q)[i] \in what PROVE FALSE
    <3>1. i + 1 = 1
      BY <1>1, <1>3, <2>2 DEF Single
    <3> QED
      BY <1>1, <3>1
  <2> QED
    BY <2>1, <2>2 DEF Has
<1> QED
  BY <1>1, <1>2, <1>3

\* And what is put last.
LEMMA HasAppend ==
  ASSUME NEW A, NEW q \in Seq(A), NEW x \in A, NEW what
  PROVE  /\ Append(q, x) \in Seq(A) /\ Append(q, x) # <<>>
         /\ Has(Append(q, x), what) <=> x \in what \/ Has(q, what)
         /\ Single(q, what) /\ ~(x \in what /\ Has(q, what)) => Single(Append(q, x), what)
<1>1. /\ Append(q, x) \in Seq(A) /\ Append(q, x)[Len(q) + 1] = x /\ Append(q, x) # <<>>
      /\ Len(q) + 1 \in DOMAIN Append(q, x)
      /\ \A i \in DOMAIN q : i \in DOMAIN Append(q, x) /\ Append(q, x)[i] = q[i]
      /\ \A i \in DOMAIN Append(q, x) : i = Len(q) + 1 \/ i \in DOMAIN q
  OBVIOUS
<1>2. Has(Append(q, x), what) <=> x \in what \/ Has(q, what)
  BY <1>1 DEF Has
<1>3. ASSUME Single(q, what), ~(x \in what /\ Has(q, what)) PROVE Single(Append(q, x), what)
  BY <1>1, <1>3 DEF Single, Has
<1> QED
  BY <1>1, <1>2, <1>3

\* Answers that are thrown away unread leave the later ones.
LEMMA HasRest ==
  ASSUME NEW A, NEW q \in Seq(A), NEW n \in 0 .. Len(q), NEW what
  PROVE  /\ SubSeq(q, n + 1, Len(q)) \in Seq(A)
         /\ Has(SubSeq(q, n + 1, Len(q)), what) => Has(q, what)
<1> DEFINE r == SubSeq(q, n + 1, Len(q))
<1>1. r \in Seq(A) /\ \A i \in DOMAIN r : n + i \in DOMAIN q /\ r[i] = q[n + i]
  OBVIOUS
<1> QED
  BY <1>1 DEF Has

\* Nothing is in an empty queue.
LEMMA HasNone == \A what : ~Has(<<>>, what) /\ Single(<<>>, what) /\ ~Firm(<<>>)
BY DEF Has, Single, Firm

\* An announcement stands until the release that follows it.
LEMMA FirmTail ==
  ASSUME NEW q \in Seq(Requests), q # <<>>
  PROVE  /\ Firm(Tail(q)) => Firm(q)
         /\ Firm(q) => Firm(Tail(q)) \/ (Head(q) = "announce" /\ ~Has(Tail(q), {"release"}))
         /\ ~Firm(q) /\ Head(q) = "announce" => Has(Tail(q), {"release"})
<1>1. /\ Head(q) = q[1] /\ 1 \in DOMAIN q
      /\ \A i \in DOMAIN Tail(q) : i + 1 \in DOMAIN q /\ Tail(q)[i] = q[i + 1] /\ i \in Nat /\ i + 1 > 1
      /\ \A i \in DOMAIN q : i \in Nat
      /\ \A i \in DOMAIN q : i # 1 => i - 1 \in DOMAIN Tail(q) /\ Tail(q)[i - 1] = q[i]
      /\ \A i \in DOMAIN q : ~(1 > i)
  OBVIOUS
<1>2. ASSUME Firm(Tail(q)) PROVE Firm(q)
  <2>1. PICK i \in DOMAIN Tail(q) :
          Tail(q)[i] = "announce" /\ \A j \in DOMAIN Tail(q) : j > i => Tail(q)[j] # "release"
    BY <1>2 DEF Firm
  <2>2. \A j \in DOMAIN q : j > i + 1 => j # 1 /\ j - 1 > i
    BY <1>1
  <2>3. \A j \in DOMAIN q : j > i + 1 => q[j] # "release"
    BY <1>1, <2>1, <2>2
  <2> QED
    BY <1>1, <2>1, <2>3 DEF Firm
<1>3. ASSUME Firm(q)
      PROVE  Firm(Tail(q)) \/ (Head(q) = "announce" /\ ~Has(Tail(q), {"release"}))
  <2>1. PICK i \in DOMAIN q : q[i] = "announce" /\ \A j \in DOMAIN q : j > i => q[j] # "release"
    BY <1>3 DEF Firm
  <2>2. CASE i = 1
    BY <1>1, <2>1, <2>2 DEF Has
  <2>3. CASE i # 1
    <3>1. \A j \in DOMAIN Tail(q) : j > i - 1 => j + 1 > i
      BY <1>1
    <3>2. \A j \in DOMAIN Tail(q) : j > i - 1 => Tail(q)[j] # "release"
      BY <1>1, <2>1, <3>1
    <3> QED
      BY <1>1, <2>1, <2>3, <3>2 DEF Firm
  <2> QED
    BY <2>2, <2>3
<1>4. ASSUME ~Firm(q), Head(q) = "announce" PROVE Has(Tail(q), {"release"})
  <2>1. PICK j \in DOMAIN q : j > 1 /\ q[j] = "release"
    BY <1>1, <1>4 DEF Firm
  <2> QED
    BY <1>1, <2>1 DEF Has
<1> QED
  BY <1>2, <1>3, <1>4

\* A request that is put last makes an announcement, or ends it.
LEMMA FirmAppend ==
  ASSUME NEW q \in Seq(Requests), NEW x \in Requests
  PROVE  Firm(Append(q, x)) <=> x = "announce" \/ (x # "release" /\ Firm(q))
<1>1. /\ Append(q, x)[Len(q) + 1] = x
      /\ Len(q) + 1 \in DOMAIN Append(q, x)
      /\ \A i \in DOMAIN q : i \in DOMAIN Append(q, x) /\ Append(q, x)[i] = q[i] /\ Len(q) + 1 > i
      /\ \A i \in DOMAIN Append(q, x) : i = Len(q) + 1 \/ i \in DOMAIN q
      /\ \A i \in DOMAIN Append(q, x) : ~(i > Len(q) + 1)
  OBVIOUS
<1>2. ASSUME x = "announce" PROVE Firm(Append(q, x))
  BY <1>1, <1>2 DEF Firm
<1>3. ASSUME x # "announce" PROVE Firm(Append(q, x)) <=> x # "release" /\ Firm(q)
  BY <1>1, <1>3 DEF Firm
<1> QED
  BY <1>2, <1>3

\* Reading a copy does not change which is the last; sending one does.
LEMMA LastCopy ==
  ASSUME NEW A, NEW q \in Seq(A), NEW x
  PROVE  /\ q # <<>> => LastOf(Tail(q), Head(q)) = LastOf(q, x)
         /\ \A y \in A : LastOf(Append(q, y), x) = y
<1>1. ASSUME q # <<>> PROVE LastOf(Tail(q), Head(q)) = LastOf(q, x)
  <2>1. /\ Tail(q) \in Seq(A) /\ Len(Tail(q)) = Len(q) - 1 /\ Len(q) \in Nat /\ Head(q) = q[1]
        /\ \A i \in 1 .. Len(Tail(q)) : Tail(q)[i] = q[i + 1]
    BY <1>1, HeadTailProperties
  <2>2. CASE Tail(q) = <<>>
    <3>1. Len(Tail(q)) = 0
      BY <2>2, EmptySeq
    <3>2. Len(q) = 1
      <4>1. Len(q) - 1 = 0
        BY <2>1, <3>1, Zenon
      <4>2. \A n \in Nat : n - 1 = 0 => n = 1
        OBVIOUS
      <4> QED
        BY <2>1, <4>1, <4>2, Zenon
    <3> QED
      BY <1>1, <2>1, <2>2, <3>2 DEF LastOf
  <2>3. CASE Tail(q) # <<>>
    <3>1. Len(Tail(q)) \in Nat \ {0}
      BY <2>1, <2>3, EmptySeq
    <3>2. Tail(q)[Len(Tail(q))] = q[Len(q)]
      BY <2>1, <3>1
    <3> QED
      BY <1>1, <2>3, <3>2 DEF LastOf
  <2> QED
    BY <2>2, <2>3
<1>2. \A y \in A : Append(q, y) # <<>> /\ Append(q, y)[Len(Append(q, y))] = y
  OBVIOUS
<1> QED
  BY <1>1, <1>2 DEF LastOf
-----------------------------------------------------------------------------
(* What a step must leave of the invariant of one process, and what leaves *)
(* all of it.                                                              *)

Kept(c) ==
  /\ ThereFor(c) => ThereFor(c)'
  /\ InStep' /\ TableFor(c) => TableFor(c)'
  /\ Heeded' /\ ThereFor(c) /\ PublishedFor(c) => PublishedFor(c)'
  /\ Heard' /\ AnswerFor(c) => AnswerFor(c)'
  /\ Tidy' /\ AnswerFor(c) /\ UnpublishedFor(c) => UnpublishedFor(c)'

Alike(c) ==
  /\ link'[c] = link[c] /\ replies'[c] = replies[c] /\ notices'[c] = notices[c]
  /\ table'[c] = table[c] /\ Queue(c)' = Queue(c)
  /\ (c \in shows' <=> c \in shows) /\ (c \in published' <=> c \in published)
  /\ (c \in asking' <=> c \in asking)

\* A step that keeps it for each process keeps the invariant.
LEMMA KeptByAll ==
  ASSUME ClaimInv, ClaimTyped', lapses \subseteq lapses', alive' => alive, \A c \in Procs : Kept(c)
  PROVE  ClaimInv'
<1>1. /\ InStep' => InStep /\ \A c \in Procs : TableFor(c)
      /\ Heeded' => Heeded /\ \A c \in Procs : PublishedFor(c)
      /\ Heard' => Heard /\ \A c \in Procs : AnswerFor(c)
      /\ Tidy' => Tidy /\ Heard /\ \A c \in Procs : AnswerFor(c) /\ UnpublishedFor(c)
      /\ \A c \in Procs : ThereFor(c)
  BY DEF ClaimInv, TableInv, PublishedInv, AnswerInv, UnpublishedInv, InStep, Heeded, Heard, Tidy
<1>2. TableInv'
  BY <1>1 DEF TableInv, Kept
<1>3. PublishedInv'
  BY <1>1 DEF PublishedInv, Kept
<1>4. AnswerInv'
  BY <1>1 DEF AnswerInv, Kept
<1>5. UnpublishedInv'
  BY <1>1 DEF UnpublishedInv, Kept
<1> QED
  BY <1>2, <1>3, <1>4, <1>5 DEF ClaimInv

\* A process for which nothing changes keeps what it has.
LEMMA AlikeKept ==
  ASSUME NEW c \in Procs, Alike(c), UNCHANGED <<owner, gated, drafts, alive>>
  PROVE  Kept(c)
BY DEF Alike, Kept, ThereFor, TableFor, PublishedFor, AnswerFor, UnpublishedFor, Connected, Queue

\* What the types say of each process.
LEMMA Basics ==
  ASSUME ClaimTyped
  PROVE  /\ Nobody \notin Conns /\ Pump \notin Conns /\ \A k \in Conns : k \in Nat
         /\ \A c \in Procs :
              /\ link[c].id \in Conns /\ link[c].is \in {"up", "down", "syncing", "reclaiming", "dead"}
              /\ Queue(c) \in Seq(Requests) /\ Queue(c) = requests[link[c].id]
              /\ replies[c] \in Seq(Reply) /\ notices[c] \in Seq(Conns \cup {Nobody})
         /\ \A c, e \in Procs : link[c].id = link[e].id => c = e
BY DEF ClaimTyped, ClaimDataTyped, ConnsApart, Link, Conns, Nobody, Pump, Queue

\* A request goes to the end of the process's own connection.
LEMMA SentOne ==
  ASSUME ClaimTyped, NEW c \in Procs, NEW x \in Requests, requests' = Sent(c, x)
  PROVE  /\ requests' \in [Conns -> Seq(Requests)]
         /\ Connected(c) => requests'[link[c].id] = Append(requests[link[c].id], x)
         /\ ~Connected(c) => requests' = requests
         /\ \A k \in Conns : k # link[c].id => requests'[k] = requests[k]
BY Basics DEF ClaimTyped, ClaimDataTyped, Sent

\* A connection ends for its process, which hears nothing more from it.
LEMMA CutOff ==
  ASSUME ClaimTyped, NEW c \in Procs, NEW state \in {"down", "dead"}, Cut(c, state)
  PROVE  /\ requests' \in [Conns -> Seq(Requests)] /\ link' \in [Procs -> Link]
         /\ replies' \in [Procs -> Seq(Reply)] /\ notices' \in [Procs -> Seq(Conns \cup {Nobody})]
         /\ link'[c].id = link[c].id /\ link'[c].is = state
         /\ \A e \in Procs : e # c =>
              link'[e] = link[e] /\ replies'[e] = replies[e] /\ notices'[e] = notices[e]
         /\ replies'[c] = <<>> /\ notices'[c] = <<>>
         /\ asking' = asking \ {c} /\ closing' = closing \cup {link[c].id}
         /\ \A k \in Conns : /\ requests'[k] \in {requests[k], <<>>}
                             /\ k # link[c].id => requests'[k] = requests[k]
<1>1. /\ requests \in [Conns -> Seq(Requests)] /\ link \in [Procs -> Link] /\ link[c].id \in Conns
      /\ replies \in [Procs -> Seq(Reply)] /\ notices \in [Procs -> Seq(Conns \cup {Nobody})]
  BY Basics DEF ClaimTyped, ClaimDataTyped
<1>2. PICK read \in {requests[link[c].id], <<>>} : requests' = [requests EXCEPT ![link[c].id] = read]
  BY DEF Cut
<1>3. read \in Seq(Requests)
  <2>1. requests[link[c].id] \in Seq(Requests) /\ <<>> \in Seq(Requests)
    BY <1>1, EmptySeq
  <2> QED
    BY <1>2, <2>1
<1>4. /\ requests' \in [Conns -> Seq(Requests)]
      /\ \A k \in Conns : /\ requests'[k] \in {requests[k], <<>>}
                          /\ k # link[c].id => requests'[k] = requests[k]
  BY <1>1, <1>2, <1>3
<1>5. /\ link' \in [Procs -> Link] /\ link'[c].id = link[c].id /\ link'[c].is = state
      /\ \A e \in Procs : e # c => link'[e] = link[e]
  <2>1. link' = [link EXCEPT ![c].is = state]
    BY DEF Cut
  <2>2. [link[c] EXCEPT !.is = state] \in Link
    BY <1>1 DEF Link
  <2>3. link'[c] = [link[c] EXCEPT !.is = state]
    BY <1>1, <2>1
  <2> QED
    BY <1>1, <2>1, <2>2, <2>3 DEF Link
<1> QED
  BY <1>1, <1>4, <1>5 DEF Cut
-----------------------------------------------------------------------------
(* The moves of a process.                                                 *)

\* Moves are counted up to their bound.
LEMMA MoveTyped ==
  ASSUME ClaimTyped, Move \/ UNCHANGED moves
  PROVE  moves' \in 0 .. MaxMoves
<1>1. MaxMoves \in Nat /\ moves \in 0 .. MaxMoves
  BY ClaimAssumption DEF ClaimTyped, ClaimDataTyped
<1> QED
  BY <1>1 DEF Move

\* A process reads the next copy of the table.
LEMMA ReadNoticeKeeps ==
  ASSUME ClaimTyped, NEW c \in Procs, ReadNotice(c)
  PROVE  ClaimTyped' /\ \A e \in Procs : Kept(e)
<1>0. /\ Nobody \notin Conns /\ \A k \in Conns : k \in Nat
      /\ \A e \in Procs :
           /\ link[e].id \in Conns /\ link[e].is \in {"up", "down", "syncing", "reclaiming", "dead"}
           /\ Queue(e) \in Seq(Requests) /\ Queue(e) = requests[link[e].id]
           /\ replies[e] \in Seq(Reply) /\ notices[e] \in Seq(Conns \cup {Nobody})
      /\ \A e, f \in Procs : link[e].id = link[f].id => e = f
  BY Basics
<1>1. /\ Connected(c) /\ notices[c] # <<>>
      /\ notices' \in [Procs -> Seq(Conns \cup {Nobody})] /\ table' \in [Procs -> Conns \cup {Nobody}]
      /\ notices'[c] = Tail(notices[c]) /\ table'[c] = Head(notices[c])
      /\ \A e \in Procs : e # c => notices'[e] = notices[e] /\ table'[e] = table[e]
  <2>1. Tail(notices[c]) \in Seq(Conns \cup {Nobody}) /\ Head(notices[c]) \in Conns \cup {Nobody}
    BY <1>0, HeadTailProperties DEF ReadNotice
  <2> QED
    BY <2>1 DEF ReadNotice, ClaimTyped, ClaimDataTyped
<1>2. ASSUME NEW e \in Procs, e # c PROVE Alike(e)
  BY <1>0, <1>1, <1>2 DEF Alike, Queue, ReadNotice
<1>3. ClaimDataTyped'
  BY <1>1 DEF ReadNotice, ClaimTyped, ClaimDataTyped
<1>4. Opened'
  <2>1. /\ \A i \in DOMAIN notices'[c] : \E j \in DOMAIN notices[c] : notices'[c][i] = notices[c][j]
        /\ \E j \in DOMAIN notices[c] : table'[c] = notices[c][j]
    <3> DEFINE q == notices[c]
    <3>1. /\ q \in Seq(Conns \cup {Nobody}) /\ q # <<>> /\ 1 \in DOMAIN q /\ Head(q) = q[1]
          /\ \A i \in DOMAIN Tail(q) : i + 1 \in DOMAIN q /\ Tail(q)[i] = q[i + 1]
      BY <1>0, <1>1
    <3> QED
      BY <1>1, <3>1
  <2> QED
    BY <1>1, <2>1 DEF ReadNotice, ClaimTyped, Opened
<1>5. ConnsApart'
  BY DEF ReadNotice, ClaimTyped, ConnsApart, InUse, Connected
<1>6. WindowsApart'
  BY <1>1 DEF ReadNotice, ClaimTyped, WindowsApart, Connected
<1>7. Kept(c)
  <2>1. LastOf(notices'[c], table'[c]) = LastOf(notices[c], table[c])
    BY <1>0, <1>1, LastCopy
  <2> QED
    BY <2>1 DEF ReadNotice, Kept, ThereFor, TableFor, PublishedFor, AnswerFor, UnpublishedFor, Connected, Queue
<1>8. UNCHANGED <<owner, gated, drafts, alive>>
  BY DEF ReadNotice
<1> QED
  BY <1>2, <1>3, <1>4, <1>5, <1>6, <1>7, <1>8, AlikeKept DEF ClaimTyped

\* A process publishes what has changed of its windows.
LEMMA PublishKeeps ==
  ASSUME ClaimTyped, NEW c \in Procs, Publish(c)
  PROVE  ClaimTyped' /\ \A e \in Procs : Kept(e)
<1>0. /\ Nobody \notin Conns /\ \A k \in Conns : k \in Nat
      /\ \A e \in Procs :
           /\ link[e].id \in Conns /\ link[e].is \in {"up", "down", "syncing", "reclaiming", "dead"}
           /\ Queue(e) \in Seq(Requests) /\ Queue(e) = requests[link[e].id]
           /\ replies[e] \in Seq(Reply) /\ notices[e] \in Seq(Conns \cup {Nobody})
      /\ \A e, f \in Procs : link[e].id = link[f].id => e = f
  BY Basics
<1>1. /\ c \notin asking /\ link[c].is # "dead"
      /\ requests' \in [Conns -> Seq(Requests)]
      /\ \A k \in Conns : k # link[c].id => requests'[k] = requests[k]
      /\ \/ /\ c \in shows /\ c \notin published /\ published' = published \cup {c}
            /\ Connected(c) => requests'[link[c].id] = Append(Queue(c), "announce")
         \/ /\ c \notin shows /\ c \in published /\ published' = published \ {c}
            /\ Connected(c) => requests'[link[c].id] = Append(Queue(c), "release")
      /\ ~Connected(c) => requests' = requests
  <2>1. {"announce", "release"} \subseteq Requests
    BY DEF Requests
  <2>2. CASE c \in shows
    <3>1. requests' = Sent(c, "announce")
      BY <2>2 DEF Publish
    <3> QED
      BY <1>0, <2>1, <2>2, <3>1, SentOne DEF Publish
  <2>3. CASE c \notin shows
    <3>1. requests' = Sent(c, "release")
      BY <2>3 DEF Publish
    <3> QED
      BY <1>0, <2>1, <2>3, <3>1, SentOne DEF Publish
  <2> QED
    BY <2>2, <2>3
<1>2. ASSUME NEW e \in Procs, e # c PROVE Alike(e)
  BY <1>0, <1>1, <1>2 DEF Alike, Queue, Publish
<1>3. ClaimDataTyped'
  BY <1>1 DEF Publish, ClaimTyped, ClaimDataTyped
<1>4. Opened'
  BY DEF Publish, ClaimTyped, Opened
<1>5. ConnsApart'
  BY <1>0, <1>1 DEF Publish, ClaimTyped, ConnsApart, InUse, Connected
<1>6. WindowsApart'
  BY <1>1 DEF Publish, ClaimTyped, WindowsApart, Connected
<1>7. Kept(c)
  <2>1. CASE Connected(c) /\ c \in shows
    <3>1. /\ Firm(Queue(c)') /\ \A what : Has(Queue(c)', {what}) <=> what = "announce" \/ Has(Queue(c), {what})
          /\ Single(Queue(c), {"adopt"}) => Single(Queue(c)', {"adopt"})
      <4>1. Queue(c)' = Append(Queue(c), "announce") /\ "announce" \in Requests
        BY <1>1, <2>1 DEF Publish, Queue, Requests
      <4>2. Firm(Queue(c)')
        BY <1>0, <4>1, FirmAppend
      <4>3. \A what : Has(Queue(c)', {what}) <=> "announce" \in {what} \/ Has(Queue(c), {what})
        BY <1>0, <4>1, HasAppend
      <4>4. Single(Queue(c), {"adopt"}) => Single(Queue(c)', {"adopt"})
        BY <1>0, <4>1, HasAppend
      <4> QED
        BY <4>2, <4>3, <4>4
    <3>2. c \in published'
      BY <1>1, <2>1
    <3> QED
      BY <2>1, <3>1, <3>2 DEF Publish, Kept, ThereFor, TableFor, PublishedFor, AnswerFor, UnpublishedFor, Connected
  <2>2. CASE Connected(c) /\ c \notin shows
    <3>1. /\ ~Firm(Queue(c)') /\ \A what : Has(Queue(c)', {what}) <=> what = "release" \/ Has(Queue(c), {what})
          /\ Single(Queue(c), {"adopt"}) => Single(Queue(c)', {"adopt"})
      <4>1. Queue(c)' = Append(Queue(c), "release") /\ "release" \in Requests
        BY <1>1, <2>2 DEF Publish, Queue, Requests
      <4>2. ~Firm(Queue(c)')
        BY <1>0, <4>1, FirmAppend
      <4>3. \A what : Has(Queue(c)', {what}) <=> "release" \in {what} \/ Has(Queue(c), {what})
        BY <1>0, <4>1, HasAppend
      <4>4. Single(Queue(c), {"adopt"}) => Single(Queue(c)', {"adopt"})
        BY <1>0, <4>1, HasAppend
      <4> QED
        BY <4>2, <4>3, <4>4
    <3>2. c \notin published'
      BY <1>1, <2>2
    <3> QED
      BY <2>2, <3>1, <3>2 DEF Publish, Kept, ThereFor, TableFor, PublishedFor, AnswerFor, UnpublishedFor, Connected
  <2>3. CASE ~Connected(c)
    BY <1>1, <2>3 DEF Publish, Kept, ThereFor, TableFor, PublishedFor, AnswerFor, UnpublishedFor, Connected, Queue
  <2> QED
    BY <2>1, <2>2, <2>3
<1>8. UNCHANGED <<owner, gated, drafts, alive>>
  BY DEF Publish
<1> QED
  BY <1>2, <1>3, <1>4, <1>5, <1>6, <1>7, <1>8, AlikeKept DEF ClaimTyped

\* A pane is closed.
LEMMA ClosePaneKeeps ==
  ASSUME ClaimTyped, NEW c \in Procs, ClosePane(c)
  PROVE  ClaimTyped' /\ \A e \in Procs : Kept(e)
<1>0. /\ Nobody \notin Conns /\ \A k \in Conns : k \in Nat
      /\ \A e \in Procs :
           /\ link[e].id \in Conns /\ link[e].is \in {"up", "down", "syncing", "reclaiming", "dead"}
           /\ Queue(e) \in Seq(Requests) /\ Queue(e) = requests[link[e].id]
           /\ replies[e] \in Seq(Reply) /\ notices[e] \in Seq(Conns \cup {Nobody})
      /\ \A e, f \in Procs : link[e].id = link[f].id => e = f
  BY Basics
<1>1. /\ c \in shows /\ c \notin asking /\ shows' = shows \ {c}
      /\ moves' \in 0 .. MaxMoves /\ lapses' \subseteq ClaimLapses
      /\ c \notin published /\ owner = link[c].id => "unpublished" \in lapses'
  <2>1. moves' \in 0 .. MaxMoves
    BY MoveTyped DEF ClosePane
  <2>2. /\ lapses' = lapses \cup {m \in {"unpublished"} : c \notin published /\ owner = link[c].id}
        /\ lapses \subseteq ClaimLapses /\ "unpublished" \in ClaimLapses
    BY DEF ClosePane, Lapse, ClaimTyped, ClaimDataTyped, ClaimLapses
  <2> QED
    BY <2>1, <2>2 DEF ClosePane
<1>2. ASSUME NEW e \in Procs, e # c PROVE Alike(e)
  BY <1>0, <1>1, <1>2 DEF Alike, Queue, ClosePane
<1>3. ClaimDataTyped'
  BY <1>1 DEF ClosePane, ClaimTyped, ClaimDataTyped
<1>4. Opened'
  BY DEF ClosePane, ClaimTyped, Opened
<1>5. ConnsApart'
  BY <1>1 DEF ClosePane, ClaimTyped, ConnsApart, InUse, Connected
<1>6. WindowsApart'
  BY <1>1 DEF ClosePane, ClaimTyped, WindowsApart, Connected
<1>7. Kept(c)
  BY <1>1 DEF ClosePane, Tidy, Kept, ThereFor, TableFor, PublishedFor, AnswerFor, UnpublishedFor, Connected, Queue
<1>8. UNCHANGED <<owner, gated, drafts, alive>>
  BY DEF ClosePane
<1> QED
  BY <1>2, <1>3, <1>4, <1>5, <1>6, <1>7, <1>8, AlikeKept DEF ClaimTyped

\* A process asks for a session; the answers it has are drained.
LEMMA AskToAdoptKeeps ==
  ASSUME ClaimTyped, NEW c \in Procs, AskToAdopt(c)
  PROVE  ClaimTyped' /\ \A e \in Procs : Kept(e)
<1>0. /\ Nobody \notin Conns /\ \A k \in Conns : k \in Nat
      /\ \A e \in Procs :
           /\ link[e].id \in Conns /\ link[e].is \in {"up", "down", "syncing", "reclaiming", "dead"}
           /\ Queue(e) \in Seq(Requests) /\ Queue(e) = requests[link[e].id]
           /\ replies[e] \in Seq(Reply) /\ notices[e] \in Seq(Conns \cup {Nobody})
      /\ \A e, f \in Procs : link[e].id = link[f].id => e = f
  BY Basics
<1>1. /\ c \notin shows /\ c \notin asking /\ Connected(c) /\ asking' = asking \cup {c}
      /\ moves' \in 0 .. MaxMoves
      /\ requests' \in [Conns -> Seq(Requests)]
      /\ \A k \in Conns : k # link[c].id => requests'[k] = requests[k]
      /\ requests'[link[c].id] = Append(Queue(c), "adopt")
      /\ replies' \in [Procs -> Seq(Reply)]
      /\ \A e \in Procs : e # c => replies'[e] = replies[e]
      /\ \A what : Has(replies'[c], what) => Has(replies[c], what)
  <2>1. "adopt" \in Requests /\ requests' = Sent(c, "adopt") /\ Connected(c)
    BY DEF Requests, AskToAdopt
  <2>2. PICK n \in 0 .. Len(replies[c]) :
          replies' = [replies EXCEPT ![c] = SubSeq(replies[c], n + 1, Len(replies[c]))]
    <3>1. PICK n \in IF link[c].is = "up" THEN 0 .. Len(replies[c]) ELSE {0} :
            replies' = [replies EXCEPT ![c] = SubSeq(@, n + 1, Len(@))]
      BY DEF AskToAdopt
    <3>2. replies' = [replies EXCEPT ![c] = SubSeq(replies[c], n + 1, Len(replies[c]))]
      BY <3>1
    <3>3. n \in 0 .. Len(replies[c])
      <4>1. Len(replies[c]) \in Nat
        BY <1>0, LenProperties
      <4> QED
        BY <3>1, <4>1
    <3> QED
      BY <3>2, <3>3
  <2>3. /\ SubSeq(replies[c], n + 1, Len(replies[c])) \in Seq(Reply)
        /\ \A what : Has(SubSeq(replies[c], n + 1, Len(replies[c])), what) => Has(replies[c], what)
    BY <1>0, HasRest
  <2>4. /\ replies' \in [Procs -> Seq(Reply)] /\ \A e \in Procs : e # c => replies'[e] = replies[e]
        /\ replies'[c] = SubSeq(replies[c], n + 1, Len(replies[c]))
    BY <2>2, <2>3 DEF ClaimTyped, ClaimDataTyped
  <2>5. moves' \in 0 .. MaxMoves
    BY MoveTyped DEF AskToAdopt
  <2>6. /\ requests' \in [Conns -> Seq(Requests)]
        /\ \A k \in Conns : k # link[c].id => requests'[k] = requests[k]
        /\ requests'[link[c].id] = Append(Queue(c), "adopt")
    BY <1>0, <2>1, SentOne
  <2>7. c \notin shows /\ c \notin asking /\ asking' = asking \cup {c}
    BY DEF AskToAdopt
  <2> QED
    BY <2>1, <2>3, <2>4, <2>5, <2>6, <2>7
<1>2. ASSUME NEW e \in Procs, e # c PROVE Alike(e)
  BY <1>0, <1>1, <1>2 DEF Alike, Queue, AskToAdopt
<1>3. ClaimDataTyped'
  BY <1>1 DEF AskToAdopt, ClaimTyped, ClaimDataTyped
<1>4. Opened'
  BY DEF AskToAdopt, ClaimTyped, Opened
<1>5. ConnsApart'
  <2>1. \A k \in Conns : requests'[k] # <<>> => requests[k] # <<>> \/ InUse(k)
    BY <1>1 DEF InUse
  <2>2. \A k : InUse(k)' <=> InUse(k)
    BY DEF AskToAdopt, InUse, Connected
  <2> QED
    BY <1>0, <2>1, <2>2 DEF AskToAdopt, ClaimTyped, ConnsApart, Connected
<1>6. WindowsApart'
  BY <1>1 DEF AskToAdopt, ClaimTyped, WindowsApart, Connected
<1>7. Kept(c)
  <2>1. Queue(c)' = Append(Queue(c), "adopt") /\ "adopt" \in Requests
    BY <1>1 DEF AskToAdopt, Queue, Requests
  <2>2. \A what : Has(Queue(c)', {what}) <=> "adopt" \in {what} \/ Has(Queue(c), {what})
    BY <1>0, <2>1, HasAppend
  <2>3. Single(Queue(c), {"adopt"}) /\ ~Has(Queue(c), {"adopt"}) => Single(Queue(c)', {"adopt"})
    BY <1>0, <2>1, HasAppend
  <2>4. Firm(Queue(c)') <=> Firm(Queue(c))
    BY <1>0, <2>1, FirmAppend
  <2>5. ~Has(replies[c], ToAdopt) => ~Has(replies'[c], ToAdopt) /\ ~Has(replies[c], GrantedIt) /\ Single(replies'[c], ToAdopt)
    <3>1. Has(replies[c], GrantedIt) => Has(replies[c], ToAdopt)
      BY DEF Has, ToAdopt, GrantedIt, Answers
    <3>2. ~Has(replies'[c], ToAdopt) => Single(replies'[c], ToAdopt)
      BY DEF Has, Single
    <3> QED
      BY <1>1, <3>1, <3>2
  <2>6. /\ link' = link /\ UNCHANGED <<notices, table, owner, gated, drafts, alive, shows, published, lapses>>
        /\ ~Has(replies[c], NotThere) => ~Has(replies'[c], NotThere)
        /\ (\A what : Has(Queue(c)', {what}) <=> what = "adopt" \/ Has(Queue(c), {what}))
        /\ c \notin asking /\ c \in asking' /\ c \notin shows /\ Connected(c)
    BY <1>1, <2>2 DEF AskToAdopt
  <2> QED
    BY <2>3, <2>4, <2>5, <2>6 DEF Kept, ThereFor, TableFor, PublishedFor, AnswerFor, UnpublishedFor, Connected
<1>8. UNCHANGED <<owner, gated, drafts, alive>>
  BY DEF AskToAdopt
<1> QED
  BY <1>2, <1>3, <1>4, <1>5, <1>6, <1>7, <1>8, AlikeKept DEF ClaimTyped

\* A process takes the next answer for that to its adoption.
LEMMA HearAnswerKeeps ==
  ASSUME ClaimTyped, NEW c \in Procs, HearAnswer(c)
  PROVE  ClaimTyped' /\ \A e \in Procs : Kept(e)
<1>0. /\ Nobody \notin Conns /\ \A k \in Conns : k \in Nat
      /\ \A e \in Procs :
           /\ link[e].id \in Conns /\ link[e].is \in {"up", "down", "syncing", "reclaiming", "dead"}
           /\ Queue(e) \in Seq(Requests) /\ Queue(e) = requests[link[e].id]
           /\ replies[e] \in Seq(Reply) /\ notices[e] \in Seq(Conns \cup {Nobody})
      /\ \A e, f \in Procs : link[e].id = link[f].id => e = f
  BY Basics
<1>1. /\ c \in asking /\ Connected(c) /\ replies[c] # <<>> /\ Head(replies[c]) \in Reply
      /\ Head(replies[c]).to # "list" /\ asking' = asking \ {c} /\ replies'[c] = Tail(replies[c])
      /\ replies' \in [Procs -> Seq(Reply)] /\ lapses' \subseteq ClaimLapses
      /\ \A e \in Procs : e # c => replies'[e] = replies[e]
      /\ shows' \in {shows, shows \cup {c}} /\ (Head(replies[c]).is = "granted" => c \in shows')
      /\ Head(replies[c]).to # "adopt" => "misread" \in lapses'
  <2>1. Tail(replies[c]) \in Seq(Reply) /\ Head(replies[c]) \in Reply
    BY <1>0, HeadTailProperties DEF HearAnswer
  <2>2. /\ replies' \in [Procs -> Seq(Reply)] /\ replies'[c] = Tail(replies[c])
        /\ \A e \in Procs : e # c => replies'[e] = replies[e]
    BY <2>1 DEF HearAnswer, ClaimTyped, ClaimDataTyped
  <2>3. /\ lapses' = lapses \cup {m \in {"misread"} : Head(replies[c]).to # "adopt"}
        /\ lapses \subseteq ClaimLapses /\ "misread" \in ClaimLapses
    BY DEF HearAnswer, Lapse, ClaimTyped, ClaimDataTyped, ClaimLapses
  <2>4. Connected(c)
    BY DEF HearAnswer, ClaimTyped, WindowsApart
  <2> QED
    BY <2>1, <2>2, <2>3, <2>4 DEF HearAnswer
<1>2. ASSUME NEW e \in Procs, e # c PROVE Alike(e)
  BY <1>0, <1>1, <1>2 DEF Alike, Queue, HearAnswer
<1>3. ClaimDataTyped'
  BY <1>1 DEF HearAnswer, ClaimTyped, ClaimDataTyped
<1>4. Opened'
  BY DEF HearAnswer, ClaimTyped, Opened
<1>5. ConnsApart'
  BY DEF HearAnswer, ClaimTyped, ConnsApart, InUse, Connected
<1>6. WindowsApart'
  BY <1>1 DEF HearAnswer, ClaimTyped, WindowsApart, Connected
<1>7. Kept(c)
  <2>1. \A what : /\ Has(replies[c], what) <=> Head(replies[c]) \in what \/ Has(replies'[c], what)
                  /\ Single(replies[c], what) =>
                       Single(replies'[c], what) /\ ~(Head(replies[c]) \in what /\ Has(replies'[c], what))
    BY <1>0, <1>1, HasTail
  <2>2. Heard' \/ Tidy' => Head(replies[c]) \in ToAdopt
    BY <1>1 DEF Heard, Tidy, Reply, ToAdopt
  <2>3. Head(replies[c]) \in GrantedIt => c \in shows'
    BY <1>1 DEF GrantedIt
  <2>4. UNCHANGED <<owner, minted, alive, requests, gated, drafts, link, notices, table, published>>
    BY DEF HearAnswer
  <2>5. AnswerFor(c) /\ Heard' => AnswerFor(c)'
    BY <1>1, <2>1, <2>2, <2>4 DEF AnswerFor, Connected, Queue
  <2>6. UnpublishedFor(c) /\ Tidy' => UnpublishedFor(c)'
    BY <1>1, <2>1, <2>2, <2>3, <2>4 DEF UnpublishedFor, Connected, Queue
  <2>7. ThereFor(c) => ThereFor(c)'
    BY <2>1, <2>4 DEF ThereFor
  <2> QED
    BY <2>4, <2>5, <2>6, <2>7 DEF Kept, TableFor, PublishedFor, Connected, Queue
<1>8. UNCHANGED <<owner, gated, drafts, alive>>
  BY DEF HearAnswer
<1> QED
  BY <1>2, <1>3, <1>4, <1>5, <1>6, <1>7, <1>8, AlikeKept DEF ClaimTyped

\* A process no longer waits for the answer.
LEMMA GiveUpKeeps ==
  ASSUME ClaimTyped, NEW c \in Procs, GiveUp(c)
  PROVE  ClaimTyped' /\ \A e \in Procs : Kept(e)
<1>0. /\ Nobody \notin Conns /\ \A k \in Conns : k \in Nat
      /\ \A e \in Procs :
           /\ link[e].id \in Conns /\ link[e].is \in {"up", "down", "syncing", "reclaiming", "dead"}
           /\ Queue(e) \in Seq(Requests) /\ Queue(e) = requests[link[e].id]
           /\ replies[e] \in Seq(Reply) /\ notices[e] \in Seq(Conns \cup {Nobody})
      /\ \A e, f \in Procs : link[e].id = link[f].id => e = f
  BY Basics
<1>1. /\ asking' = asking \ {c} /\ "abandoned" \in lapses' /\ lapses' \subseteq ClaimLapses
  BY DEF GiveUp, Lapse, ClaimTyped, ClaimDataTyped, ClaimLapses
<1>2. ASSUME NEW e \in Procs, e # c PROVE Alike(e)
  BY <1>0, <1>1, <1>2 DEF Alike, Queue, GiveUp
<1>3. ClaimDataTyped'
  BY <1>1 DEF GiveUp, ClaimTyped, ClaimDataTyped
<1>4. Opened'
  BY DEF GiveUp, ClaimTyped, Opened
<1>5. ConnsApart'
  BY DEF GiveUp, ClaimTyped, ConnsApart, InUse, Connected
<1>6. WindowsApart'
  BY <1>1 DEF GiveUp, ClaimTyped, WindowsApart, Connected
<1>7. Kept(c)
  BY <1>1 DEF GiveUp, Heard, Tidy, Kept, ThereFor, TableFor, PublishedFor, Connected, Queue
<1>8. UNCHANGED <<owner, gated, drafts, alive>>
  BY DEF GiveUp
<1> QED
  BY <1>2, <1>3, <1>4, <1>5, <1>6, <1>7, <1>8, AlikeKept DEF ClaimTyped

\* A process loses its connection.
LEMMA LoseConnKeeps ==
  ASSUME ClaimTyped, NEW c \in Procs, LoseConn(c)
  PROVE  ClaimTyped' /\ \A e \in Procs : Kept(e)
<1>0. /\ Nobody \notin Conns /\ \A k \in Conns : k \in Nat
      /\ \A e \in Procs :
           /\ link[e].id \in Conns /\ link[e].is \in {"up", "down", "syncing", "reclaiming", "dead"}
           /\ Queue(e) \in Seq(Requests) /\ Queue(e) = requests[link[e].id]
           /\ replies[e] \in Seq(Reply) /\ notices[e] \in Seq(Conns \cup {Nobody})
      /\ \A e, f \in Procs : link[e].id = link[f].id => e = f
  BY Basics
<1>1. /\ Connected(c)
      /\ requests' \in [Conns -> Seq(Requests)] /\ link' \in [Procs -> Link]
      /\ replies' \in [Procs -> Seq(Reply)] /\ notices' \in [Procs -> Seq(Conns \cup {Nobody})]
      /\ link'[c].id = link[c].id /\ link'[c].is = "down"
      /\ \A e \in Procs : e # c =>
           link'[e] = link[e] /\ replies'[e] = replies[e] /\ notices'[e] = notices[e]
      /\ replies'[c] = <<>> /\ notices'[c] = <<>>
      /\ asking' = asking \ {c} /\ closing' = closing \cup {link[c].id}
      /\ \A k \in Conns : /\ requests'[k] \in {requests[k], <<>>}
                          /\ k # link[c].id => requests'[k] = requests[k]
      /\ moves' \in 0 .. MaxMoves /\ lapses' \subseteq ClaimLapses
  <2>1. moves' \in 0 .. MaxMoves
    BY MoveTyped DEF LoseConn
  <2>2. lapses' \subseteq ClaimLapses
    BY DEF LoseConn, Lapse, ClaimTyped, ClaimDataTyped, ClaimLapses
  <2>3. Cut(c, "down") /\ Connected(c) /\ "down" \in {"down", "dead"}
    BY DEF LoseConn
  <2> QED
    BY <2>1, <2>2, <2>3, CutOff
<1>2. ASSUME NEW e \in Procs, e # c PROVE Alike(e)
  BY <1>0, <1>1, <1>2 DEF Alike, Queue, LoseConn
<1>3. ClaimDataTyped'
  BY <1>0, <1>1 DEF LoseConn, ClaimTyped, ClaimDataTyped
<1>4. Opened'
  <2>1. \A e \in Procs : link'[e].id = link[e].id
    BY <1>1
  <2>2. \A e \in Procs : \A i \in DOMAIN notices'[e] : notices'[e][i] <= minted
    <3> SUFFICES ASSUME NEW e \in Procs, NEW i \in DOMAIN notices'[e] PROVE notices'[e][i] <= minted
      OBVIOUS
    <3>1. CASE e = c
      BY <1>1, <3>1
    <3>2. CASE e # c
      BY <1>1, <3>2 DEF ClaimTyped, Opened
    <3> QED
      BY <3>1, <3>2
  <2>3. /\ owner <= minted /\ \A d \in drafts : d.owner <= minted
        /\ \A k \in gated \cup closing' : k <= minted
    BY <1>1 DEF ClaimTyped, Opened
  <2>4. \A e \in Procs : link'[e].id <= minted /\ table[e] <= minted
    BY <2>1 DEF ClaimTyped, Opened
  <2> QED
    BY <2>2, <2>3, <2>4 DEF LoseConn, Opened
<1>5. ConnsApart'
  <2>1. \A e \in Procs : link'[e].id = link[e].id /\ (Connected(e)' <=> e # c /\ Connected(e))
    BY <1>1 DEF Connected
  <2>2. \A k : InUse(k) => InUse(k)'
    BY <1>1, <2>1 DEF InUse
  <2>3. \A k \in Conns : requests'[k] # <<>> => requests[k] # <<>>
    BY <1>1
  <2>4. \A k \in Conns : requests'[k] # <<>> \/ owner = k => InUse(k)'
    BY <2>2, <2>3 DEF ClaimTyped, ConnsApart
  <2>5. \A e, f \in Procs : link'[e].id = link'[f].id => e = f
    BY <1>0, <2>1
  <2>6. \A e \in Procs : Connected(e)' => link'[e].id \notin closing'
    <3> SUFFICES ASSUME NEW e \in Procs, Connected(e)' PROVE link'[e].id \notin closing'
      OBVIOUS
    <3>1. e # c /\ Connected(e) /\ link'[e].id = link[e].id
      BY <2>1
    <3>2. link[e].id # link[c].id
      BY <1>0, <3>1
    <3>3. link[e].id \notin closing
      BY <3>1 DEF ClaimTyped, ConnsApart
    <3> QED
      BY <1>1, <3>1, <3>2, <3>3
  <2>7. \A d, e \in drafts : d.by = e.by => d = e
    BY DEF ClaimTyped, ConnsApart
  <2> QED
    BY <2>4, <2>5, <2>6, <2>7 DEF LoseConn, ConnsApart
<1>6. WindowsApart'
  <2>1. \A e \in Procs : Connected(e)' <=> e # c /\ Connected(e)
    BY <1>1 DEF Connected
  <2> QED
    BY <1>1, <2>1 DEF LoseConn, ClaimTyped, WindowsApart
<1>7. Kept(c)
  BY <1>1, HasNone DEF Kept, ThereFor, TableFor, PublishedFor, AnswerFor, UnpublishedFor, Connected, Queue
<1>8. UNCHANGED <<owner, gated, drafts, alive>>
  BY DEF LoseConn
<1> QED
  BY <1>2, <1>3, <1>4, <1>5, <1>6, <1>7, <1>8, AlikeKept DEF ClaimTyped

\* A process dies, and its windows with it.
LEMMA DieKeeps ==
  ASSUME ClaimTyped, NEW c \in Procs, Die(c)
  PROVE  ClaimTyped' /\ \A e \in Procs : Kept(e)
<1>0. /\ Nobody \notin Conns /\ \A k \in Conns : k \in Nat
      /\ \A e \in Procs :
           /\ link[e].id \in Conns /\ link[e].is \in {"up", "down", "syncing", "reclaiming", "dead"}
           /\ Queue(e) \in Seq(Requests) /\ Queue(e) = requests[link[e].id]
           /\ replies[e] \in Seq(Reply) /\ notices[e] \in Seq(Conns \cup {Nobody})
      /\ \A e, f \in Procs : link[e].id = link[f].id => e = f
  BY Basics
<1>1. /\ Connected(c)
      /\ requests' \in [Conns -> Seq(Requests)] /\ link' \in [Procs -> Link]
      /\ replies' \in [Procs -> Seq(Reply)] /\ notices' \in [Procs -> Seq(Conns \cup {Nobody})]
      /\ link'[c].id = link[c].id /\ link'[c].is = "dead"
      /\ \A e \in Procs : e # c =>
           link'[e] = link[e] /\ replies'[e] = replies[e] /\ notices'[e] = notices[e]
      /\ replies'[c] = <<>> /\ notices'[c] = <<>>
      /\ asking' = asking \ {c} /\ closing' = closing \cup {link[c].id}
      /\ \A k \in Conns : /\ requests'[k] \in {requests[k], <<>>}
                          /\ k # link[c].id => requests'[k] = requests[k]
      /\ moves' \in 0 .. MaxMoves /\ lapses' \subseteq ClaimLapses
  <2>1. moves' \in 0 .. MaxMoves
    BY MoveTyped DEF Die
  <2>2. lapses' \subseteq ClaimLapses
    BY DEF Die, Lapse, ClaimTyped, ClaimDataTyped, ClaimLapses
  <2>3. Cut(c, "dead") /\ Connected(c) /\ "dead" \in {"down", "dead"}
    BY DEF Die
  <2> QED
    BY <2>1, <2>2, <2>3, CutOff
<1>2. ASSUME NEW e \in Procs, e # c PROVE Alike(e)
  BY <1>0, <1>1, <1>2 DEF Alike, Queue, Die
<1>3. ClaimDataTyped'
  BY SMTT(30), <1>0, <1>1 DEF Die, ClaimTyped, ClaimDataTyped
<1>4. Opened'
  <2>1. \A e \in Procs : link'[e].id = link[e].id
    BY <1>1
  <2>2. \A e \in Procs : \A i \in DOMAIN notices'[e] : notices'[e][i] <= minted
    <3> SUFFICES ASSUME NEW e \in Procs, NEW i \in DOMAIN notices'[e] PROVE notices'[e][i] <= minted
      OBVIOUS
    <3>1. CASE e = c
      BY <1>1, <3>1
    <3>2. CASE e # c
      BY <1>1, <3>2 DEF ClaimTyped, Opened
    <3> QED
      BY <3>1, <3>2
  <2>3. /\ owner <= minted /\ \A d \in drafts : d.owner <= minted
        /\ \A k \in gated \cup closing' : k <= minted
    BY <1>1 DEF ClaimTyped, Opened
  <2>4. \A e \in Procs : link'[e].id <= minted /\ table[e] <= minted
    BY <2>1 DEF ClaimTyped, Opened
  <2> QED
    BY <2>2, <2>3, <2>4 DEF Die, Opened
<1>5. ConnsApart'
  <2>1. \A e \in Procs : link'[e].id = link[e].id /\ (Connected(e)' <=> e # c /\ Connected(e))
    BY <1>1 DEF Connected
  <2>2. \A k : InUse(k) => InUse(k)'
    BY <1>1, <2>1 DEF InUse
  <2>3. \A k \in Conns : requests'[k] # <<>> => requests[k] # <<>>
    BY <1>1
  <2>4. \A k \in Conns : requests'[k] # <<>> \/ owner = k => InUse(k)'
    BY <2>2, <2>3 DEF ClaimTyped, ConnsApart
  <2>5. \A e, f \in Procs : link'[e].id = link'[f].id => e = f
    BY <1>0, <2>1
  <2>6. \A e \in Procs : Connected(e)' => link'[e].id \notin closing'
    <3> SUFFICES ASSUME NEW e \in Procs, Connected(e)' PROVE link'[e].id \notin closing'
      OBVIOUS
    <3>1. e # c /\ Connected(e) /\ link'[e].id = link[e].id
      BY <2>1
    <3>2. link[e].id # link[c].id
      BY <1>0, <3>1
    <3>3. link[e].id \notin closing
      BY <3>1 DEF ClaimTyped, ConnsApart
    <3> QED
      BY <1>1, <3>1, <3>2, <3>3
  <2>7. \A d, e \in drafts : d.by = e.by => d = e
    BY DEF ClaimTyped, ConnsApart
  <2> QED
    BY <2>4, <2>5, <2>6, <2>7 DEF Die, ConnsApart
<1>6. WindowsApart'
  <2>1. \A e \in Procs : Connected(e)' <=> e # c /\ Connected(e)
    BY <1>1 DEF Connected
  <2> QED
    BY <1>1, <2>1 DEF Die, ClaimTyped, WindowsApart
<1>7. Kept(c)
  BY <1>1, HasNone DEF Kept, ThereFor, TableFor, PublishedFor, AnswerFor, UnpublishedFor, Connected, Queue
<1>8. UNCHANGED <<owner, gated, drafts, alive>>
  BY DEF Die
<1> QED
  BY <1>2, <1>3, <1>4, <1>5, <1>6, <1>7, <1>8, AlikeKept DEF ClaimTyped

\* A process dials again, on a connection of its own.
LEMMA RedialKeeps ==
  ASSUME ClaimTyped, NEW c \in Procs, Redial(c)
  PROVE  ClaimTyped' /\ \A e \in Procs : Kept(e)
<1>0. /\ Nobody \notin Conns /\ \A k \in Conns : k \in Nat
      /\ \A e \in Procs :
           /\ link[e].id \in Conns /\ link[e].is \in {"up", "down", "syncing", "reclaiming", "dead"}
           /\ Queue(e) \in Seq(Requests) /\ Queue(e) = requests[link[e].id]
           /\ replies[e] \in Seq(Reply) /\ notices[e] \in Seq(Conns \cup {Nobody})
      /\ \A e, f \in Procs : link[e].id = link[f].id => e = f
  BY Basics
<1>1. /\ link[c].is = "down" /\ minted' = minted + 1 /\ minted' \in Conns /\ minted \in Nat
      /\ link' \in [Procs -> Link] /\ link'[c].id = minted' /\ link'[c].is \in {"syncing", "reclaiming"}
      /\ \A e \in Procs : e # c => link'[e] = link[e]
      /\ requests' \in [Conns -> Seq(Requests)] /\ requests'[minted'] = <<"hello", "list">>
      /\ \A k \in Conns : k # minted' => requests'[k] = requests[k]
      /\ \A e \in Procs : link[e].id # minted'
  <2>1. minted \in Conns /\ minted < LastConn /\ LastConn \in Nat /\ minted' = minted + 1
    BY ClaimAssumption DEF Redial, ClaimTyped, ClaimDataTyped
  <2>2. minted' \in Conns /\ minted \in Nat
    BY <2>1 DEF Conns
  <2>3. <<"hello", "list">> \in Seq(Requests)
    BY DEF Requests
  <2>4. /\ requests' \in [Conns -> Seq(Requests)] /\ requests'[minted'] = <<"hello", "list">>
        /\ \A k \in Conns : k # minted' => requests'[k] = requests[k]
    BY <2>2, <2>3 DEF Redial, ClaimTyped, ClaimDataTyped
  <2>5. link' = [link EXCEPT ![c] = [id |-> minted', is |-> IF Owned(c) THEN "reclaiming" ELSE "syncing"]]
    BY DEF Redial
  <2>6. /\ link' \in [Procs -> Link] /\ link'[c].id = minted' /\ link'[c].is \in {"syncing", "reclaiming"}
        /\ \A e \in Procs : e # c => link'[e] = link[e]
    BY <2>2, <2>5 DEF Link, ClaimTyped, ClaimDataTyped
  <2>7. \A e \in Procs : link[e].id # minted'
    BY <1>0, <2>1, <2>2 DEF ClaimTyped, Opened
  <2> QED
    BY <2>1, <2>2, <2>4, <2>6, <2>7 DEF Redial
<1>2. ASSUME NEW e \in Procs, e # c PROVE Alike(e)
  BY <1>0, <1>1, <1>2 DEF Alike, Queue, Redial
<1>3. ClaimDataTyped'
  BY <1>1 DEF Redial, ClaimTyped, ClaimDataTyped
<1>4. Opened'
  <2>1. \A n \in Conns \cup {Nobody} : n <= minted => n <= minted'
    BY <1>0, <1>1 DEF Nobody
  <2>2. \A e \in Procs : link'[e].id <= minted'
    <3> SUFFICES ASSUME NEW e \in Procs PROVE link'[e].id <= minted'
      OBVIOUS
    <3>1. CASE e = c
      BY <1>0, <1>1, <3>1
    <3>2. CASE e # c
      BY <1>0, <1>1, <2>1, <3>2 DEF ClaimTyped, Opened
    <3> QED
      BY <3>1, <3>2
  <2>3. owner <= minted' /\ (\A k \in gated \cup closing : k <= minted') /\ \A d \in drafts : d.owner <= minted'
    BY <1>0, <2>1 DEF ClaimTyped, ClaimDataTyped, Opened, Copy
  <2>4. \A e \in Procs : table[e] <= minted' /\ \A i \in DOMAIN notices[e] : notices[e][i] <= minted'
    <3> SUFFICES ASSUME NEW e \in Procs
                 PROVE  table[e] <= minted' /\ \A i \in DOMAIN notices[e] : notices[e][i] <= minted'
      OBVIOUS
    <3>1. table[e] \in Conns \cup {Nobody} /\ \A i \in DOMAIN notices[e] : notices[e][i] \in Conns \cup {Nobody}
      BY <1>0 DEF ClaimTyped, ClaimDataTyped
    <3> QED
      BY <2>1, <3>1 DEF ClaimTyped, Opened
  <2> QED
    BY <2>2, <2>3, <2>4 DEF Redial, Opened
<1>5. ConnsApart'
  <2>1. \A k \in Conns : InUse(k) => InUse(k)' /\ k # minted'
    <3>1. \A k \in gated \cup closing : k # minted'
      BY <1>0, <1>1 DEF ClaimTyped, ClaimDataTyped, Opened
    <3> QED
      BY <1>1, <3>1 DEF Redial, InUse, Connected
  <2>2. (\A k \in Conns : k = minted' => InUse(k)') /\ minted' \notin closing
    <3>1. \A k \in closing : k # minted'
      BY <1>0, <1>1 DEF ClaimTyped, ClaimDataTyped, Opened
    <3> QED
      BY <1>1, <3>1 DEF InUse, Connected
  <2>3. \A e, f \in Procs : link'[e].id = link'[f].id => e = f
    <3>1. \A e, f \in Procs : e = c /\ f # c => link'[e].id # link'[f].id
      BY <1>1
    <3>2. \A e, f \in Procs : e # c /\ f # c /\ link'[e].id = link'[f].id => e = f
      <4> SUFFICES ASSUME NEW e \in Procs, NEW f \in Procs, e # c, f # c, link'[e].id = link'[f].id PROVE e = f
        OBVIOUS
      <4>1. link'[e] = link[e] /\ link'[f] = link[f]
        BY <1>1
      <4> QED
        BY <1>0, <4>1
    <3> QED
      BY <3>1, <3>2
  <2> QED
    BY <1>1, <2>1, <2>2, <2>3 DEF Redial, ClaimTyped, ConnsApart, Connected
<1>6. WindowsApart'
  BY <1>1 DEF Redial, ClaimTyped, WindowsApart, Connected
<1>7. Kept(c)
  <2>1. replies[c] = <<>> /\ Queue(c)' = <<"hello", "list">>
    BY <1>1 DEF Redial, ClaimTyped, WindowsApart, Connected, Queue
  <2>2. Has(<<"hello", "list">>, {"hello"})
    <3>1. 1 \in DOMAIN <<"hello", "list">> /\ <<"hello", "list">>[1] = "hello"
      OBVIOUS
    <3> QED
      BY <3>1 DEF Has
  <2>3. \A i \in DOMAIN <<"hello", "list">> : <<"hello", "list">>[i] \in {"hello", "list"}
    OBVIOUS
  <2>4. ~Firm(<<"hello", "list">>) /\ ~Has(<<"hello", "list">>, {"adopt"}) /\ Single(<<"hello", "list">>, {"adopt"})
    BY <2>3 DEF Firm, Has, Single
  <2>5. minted' \notin gated /\ owner # minted'
    BY <1>0, <1>1 DEF ClaimTyped, ClaimDataTyped, Opened, Nobody
  <2> QED
    BY <1>1, <2>1, <2>2, <2>4, <2>5, HasNone
    DEF Redial, Kept, ThereFor, TableFor, PublishedFor, AnswerFor, UnpublishedFor
<1>8. UNCHANGED <<owner, gated, drafts, alive>>
  BY DEF Redial
<1> QED
  BY <1>2, <1>3, <1>4, <1>5, <1>6, <1>7, <1>8, AlikeKept DEF ClaimTyped

\* A process that has dialled learns whether the session is there, and claims it again.
LEMMA ResyncKeeps ==
  ASSUME ClaimTyped, NEW c \in Procs, Resync(c)
  PROVE  ClaimTyped' /\ \A e \in Procs : Kept(e)
<1>0. /\ Nobody \notin Conns /\ \A k \in Conns : k \in Nat
      /\ \A e \in Procs :
           /\ link[e].id \in Conns /\ link[e].is \in {"up", "down", "syncing", "reclaiming", "dead"}
           /\ Queue(e) \in Seq(Requests) /\ Queue(e) = requests[link[e].id]
           /\ replies[e] \in Seq(Reply) /\ notices[e] \in Seq(Conns \cup {Nobody})
      /\ \A e, f \in Procs : link[e].id = link[f].id => e = f
  BY Basics
<1>1. /\ Connected(c) /\ link[c].is # "up" /\ replies[c] # <<>> /\ Head(replies[c]) \in Reply
      /\ Head(replies[c]).to = "list" /\ replies'[c] = Tail(replies[c])
      /\ replies' \in [Procs -> Seq(Reply)] /\ lapses' \subseteq ClaimLapses
      /\ link' \in [Procs -> Link] /\ link'[c].id = link[c].id /\ link'[c].is = "up"
      /\ \A e \in Procs : e # c => replies'[e] = replies[e] /\ link'[e] = link[e]
      /\ (c \in published) # (link[c].is = "reclaiming") => "mistold" \in lapses'
      /\ requests' \in [Conns -> Seq(Requests)]
      /\ \A k \in Conns : k # link[c].id => requests'[k] = requests[k]
      /\ requests'[link[c].id] = IF link[c].is = "reclaiming" /\ Head(replies[c]).is = "there"
                                 THEN Append(Queue(c), "announce") ELSE Queue(c)
  <2>1. Tail(replies[c]) \in Seq(Reply) /\ Head(replies[c]) \in Reply
    BY <1>0, HeadTailProperties DEF Resync
  <2>2. /\ replies' \in [Procs -> Seq(Reply)] /\ replies'[c] = Tail(replies[c])
        /\ \A e \in Procs : e # c => replies'[e] = replies[e]
    BY <2>1 DEF Resync, ClaimTyped, ClaimDataTyped
  <2>3. /\ lapses' = lapses \cup {m \in {"mistold"} : (c \in published) # (link[c].is = "reclaiming")}
        /\ lapses \subseteq ClaimLapses /\ "mistold" \in ClaimLapses
    BY DEF Resync, Lapse, ClaimTyped, ClaimDataTyped, ClaimLapses
  <2>4. Connected(c) /\ link[c].is # "up" /\ Head(replies[c]).to = "list" /\ replies[c] # <<>>
    BY DEF Resync, Connected
  <2>5. link' = [link EXCEPT ![c].is = "up"]
    BY DEF Resync
  <2>6. /\ link' \in [Procs -> Link] /\ link'[c].id = link[c].id /\ link'[c].is = "up"
        /\ \A e \in Procs : e # c => link'[e] = link[e]
    <3>1. link \in [Procs -> Link]
      BY DEF ClaimTyped, ClaimDataTyped
    <3>2. [link[c] EXCEPT !.is = "up"] \in Link
      BY <3>1 DEF Link
    <3>3. link'[c] = [link[c] EXCEPT !.is = "up"]
      BY <2>5, <3>1
    <3> QED
      BY <2>5, <3>1, <3>2, <3>3 DEF Link
  <2>7. CASE link[c].is = "reclaiming" /\ Head(replies[c]).is = "there"
    <3>1. requests' = Sent(c, "announce") /\ "announce" \in Requests
      BY <2>7 DEF Resync, Requests
    <3>2. /\ requests' \in [Conns -> Seq(Requests)]
          /\ \A k \in Conns : k # link[c].id => requests'[k] = requests[k]
          /\ requests'[link[c].id] = Append(Queue(c), "announce")
      BY <1>0, <2>4, <3>1, SentOne
    <3> QED
      BY <2>1, <2>2, <2>3, <2>4, <2>6, <2>7, <3>2
  <2>8. CASE ~(link[c].is = "reclaiming" /\ Head(replies[c]).is = "there")
    <3>1. requests' = requests /\ requests \in [Conns -> Seq(Requests)]
      BY <2>8 DEF Resync, ClaimTyped, ClaimDataTyped
    <3> QED
      BY <1>0, <2>1, <2>2, <2>3, <2>4, <2>6, <2>8, <3>1
  <2> QED
    BY <2>7, <2>8
<1>2. ASSUME NEW e \in Procs, e # c PROVE Alike(e)
  BY <1>0, <1>1, <1>2 DEF Alike, Queue, Resync
<1>3. ClaimDataTyped'
  BY <1>1 DEF Resync, ClaimTyped, ClaimDataTyped
<1>4. Opened'
  <2>1. \A e \in Procs : link'[e].id = link[e].id
    BY <1>1
  <2> QED
    BY <2>1 DEF Resync, ClaimTyped, Opened
<1>5. ConnsApart'
  <2>1. \A e \in Procs : link'[e].id = link[e].id /\ (Connected(e)' <=> Connected(e))
    BY <1>1 DEF Connected
  <2>2. \A k : InUse(k)' <=> InUse(k)
    BY <2>1 DEF Resync, InUse
  <2>3. \A k \in Conns : requests'[k] # <<>> => requests[k] # <<>> \/ InUse(k)
    BY <1>1 DEF InUse
  <2> QED
    BY <1>0, <2>1, <2>2, <2>3 DEF Resync, ClaimTyped, ConnsApart
<1>6. WindowsApart'
  <2>1. \A e \in Procs : (Connected(e)' <=> Connected(e)) /\ (link'[e].is = "dead" => link[e].is = "dead")
    BY <1>1 DEF Connected
  <2> QED
    BY <1>1, <2>1 DEF Resync, ClaimTyped, WindowsApart
<1>7. Kept(c)
  <2>1. \A what : /\ Has(replies[c], what) <=> Head(replies[c]) \in what \/ Has(replies'[c], what)
                  /\ Single(replies[c], what) => Single(replies'[c], what)
    BY <1>0, <1>1, HasTail
  <2>2. /\ Head(replies[c]) \notin ToAdopt /\ Head(replies[c]) \notin GrantedIt
        /\ Head(replies[c]) \in NotThere \/ Head(replies[c]).is = "there"
    BY <1>1 DEF ToAdopt, GrantedIt, NotThere, Reply
  <2>3. /\ UNCHANGED <<owner, gated, drafts, alive, shows, published, asking, notices, table>>
        /\ Connected(c)' /\ Connected(c) /\ Queue(c)' = requests'[link[c].id] /\ Queue(c) \in Seq(Requests)
    BY <1>0, <1>1 DEF Resync, Connected, Queue
  <2>4. ThereFor(c) => ThereFor(c)'
    BY <2>1, <2>3 DEF ThereFor
  <2>5. CASE link[c].is = "reclaiming" /\ Head(replies[c]).is = "there"
    <3>1. /\ Firm(Queue(c)') /\ \A what : Has(Queue(c)', {what}) <=> what = "announce" \/ Has(Queue(c), {what})
          /\ Single(Queue(c), {"adopt"}) => Single(Queue(c)', {"adopt"})
      <4>1. Queue(c)' = Append(Queue(c), "announce") /\ "announce" \in Requests
        BY <1>1, <2>3, <2>5 DEF Requests
      <4>2. Firm(Queue(c)')
        BY <2>3, <4>1, FirmAppend
      <4>3. \A what : Has(Queue(c)', {what}) <=> "announce" \in {what} \/ Has(Queue(c), {what})
        BY <2>3, <4>1, HasAppend
      <4>4. Single(Queue(c), {"adopt"}) => Single(Queue(c)', {"adopt"})
        BY <2>3, <4>1, HasAppend
      <4> QED
        BY <4>2, <4>3, <4>4
    <3>2. TableFor(c) => TableFor(c)'
      BY <1>1, <2>3, <3>1 DEF TableFor
    <3>3. AnswerFor(c) => AnswerFor(c)'
      BY <2>1, <2>2, <2>3, <3>1 DEF AnswerFor
    <3>4. Tidy' => c \in published'
      BY <1>1, <2>3, <2>5 DEF Tidy
    <3> QED
      BY <2>4, <3>1, <3>2, <3>3, <3>4 DEF Kept, PublishedFor, UnpublishedFor
  <2>6. CASE ~(link[c].is = "reclaiming" /\ Head(replies[c]).is = "there")
    <3>1. Queue(c)' = Queue(c)
      BY <1>1, <2>3, <2>6
    <3>2. TableFor(c) => TableFor(c)'
      BY <1>1, <2>3, <3>1 DEF TableFor
    <3>3. AnswerFor(c) => AnswerFor(c)'
      BY <2>1, <2>2, <2>3, <3>1 DEF AnswerFor
    <3>4. Heeded' /\ ThereFor(c) => c \notin published'
      BY <1>1, <2>1, <2>2, <2>3, <2>6 DEF Heeded, ThereFor
    <3>5. UnpublishedFor(c) => UnpublishedFor(c)'
      BY <1>1, <2>1, <2>2, <2>3, <3>1 DEF UnpublishedFor
    <3> QED
      BY <2>4, <3>2, <3>3, <3>4, <3>5 DEF Kept, PublishedFor
  <2> QED
    BY <2>5, <2>6
<1>8. UNCHANGED <<owner, gated, drafts, alive>>
  BY DEF Resync
<1> QED
  BY <1>2, <1>3, <1>4, <1>5, <1>6, <1>7, <1>8, AlikeKept DEF ClaimTyped
-----------------------------------------------------------------------------
(* The steps of the daemon.                                                *)

\* A process without a connection has nothing to keep.
LEMMA IdleKept ==
  ASSUME ClaimTyped, NEW c \in Procs, ~Connected(c), link'[c] = link[c], replies'[c] = replies[c]
  PROVE  Kept(c)
<1>1. replies[c] = <<>> /\ ~Connected(c)' /\ link'[c].is # "up"
  BY DEF ClaimTyped, WindowsApart, Connected
<1> QED
  BY <1>1, HasNone DEF Kept, ThereFor, TableFor, PublishedFor, AnswerFor, UnpublishedFor

\* Nor is it anything to a process what is done for the connection of another, as long as
\* its own claim stands and a change of the table is about to be sent.
LEMMA OtherKept ==
  ASSUME ClaimTyped, NEW k \in Conns, NEW c \in Procs, link[c].id # k, Alike(c), UNCHANGED alive,
         gated \subseteq gated', gated' \subseteq gated \cup {k}, drafts \subseteq drafts',
         owner' = owner \/ /\ {owner, owner'} \subseteq {k, Nobody}
                           /\ \E d \in drafts' : d.owner = owner'
  PROVE  Kept(c)
<1>1. link[c].id # Nobody /\ (link[c].id \in gated' <=> link[c].id \in gated)
  BY Basics
<1>2. (owner' = link[c].id <=> owner = link[c].id)
  BY <1>1
<1>3. TableFor(c) => TableFor(c)'
  BY <1>1 DEF Alike, TableFor, Connected, Queue
<1> QED
  BY <1>2, <1>3 DEF Alike, Kept, ThereFor, PublishedFor, AnswerFor, UnpublishedFor, Connected, Queue

\* A request that is read comes off its connection, which is some process's or has ended.
LEMMA ReadOne ==
  ASSUME ClaimTyped, NEW k \in Conns, ReadRequest(k)
  PROVE  /\ requests[k] \in Seq(Requests) /\ requests[k] # <<>> /\ Head(requests[k]) \in Requests
         /\ requests' \in [Conns -> Seq(Requests)] /\ requests'[k] = Tail(requests[k])
         /\ \A j \in Conns : j # k => requests'[j] = requests[j]
         /\ InUse(k) /\ (\A j : InUse(j)' <=> InUse(j))
         /\ k \in Nat /\ k <= minted /\ (\A d \in drafts : d.by # k)
         /\ UNCHANGED <<minted, alive, closing, link, notices, table, shows, published, asking, moves>>
<1>1. requests \in [Conns -> Seq(Requests)] /\ requests[k] # <<>>
  BY DEF ReadRequest, ClaimTyped, ClaimDataTyped
<1>2. requests[k] \in Seq(Requests) /\ Tail(requests[k]) \in Seq(Requests) /\ Head(requests[k]) \in Requests
  BY <1>1, HeadTailProperties
<1>3. requests' = [requests EXCEPT ![k] = Tail(@)]
  BY DEF ReadRequest
<1>4. /\ requests' \in [Conns -> Seq(Requests)] /\ requests'[k] = Tail(requests[k])
      /\ \A j \in Conns : j # k => requests'[j] = requests[j]
  BY <1>1, <1>2, <1>3
<1>5. InUse(k)
  BY <1>1 DEF ClaimTyped, ConnsApart
<1>6. k \in Nat /\ k <= minted
  BY <1>5, Basics DEF InUse, ClaimTyped, Opened
<1>7. UNCHANGED <<minted, alive, closing, link, notices, table, shows, published, asking, moves>>
  BY DEF ReadRequest
<1> QED
  BY <1>1, <1>2, <1>4, <1>5, <1>6, <1>7 DEF ReadRequest, Busy, InUse, Connected

\* The answer goes to the process that holds the connection, if one does.
LEMMA AnswerOne ==
  ASSUME ClaimTyped, NEW k, NEW to \in Requests, NEW is \in Answers, AnswerTo(k, to, is)
  PROVE  /\ replies' \in [Procs -> Seq(Reply)] /\ [to |-> to, is |-> is] \in Reply
         /\ \A c \in Procs :
              replies'[c] = IF link[c].id = k /\ Connected(c)
                            THEN Append(replies[c], [to |-> to, is |-> is]) ELSE replies[c]
<1>1. replies \in [Procs -> Seq(Reply)] /\ [to |-> to, is |-> is] \in Reply
  BY DEF ClaimTyped, ClaimDataTyped, Reply
<1>2. \A c \in Procs : Append(replies[c], [to |-> to, is |-> is]) \in Seq(Reply)
  BY <1>1
<1> QED
  BY <1>1, <1>2 DEF AnswerTo

\* What a reader of requests changes besides leaves the types.
LEMMA ReadTyped ==
  ASSUME ClaimTyped, NEW k \in Conns, ReadRequest(k),
         owner' \in {owner, k, Nobody}, gated' \in {gated, gated \cup {k}},
         drafts' \in {drafts, drafts \cup {[by |-> k, owner |-> owner']}},
         replies' \in [Procs -> Seq(Reply)], \A c \in Procs : ~Connected(c) => replies'[c] = replies[c],
         lapses' \subseteq ClaimLapses
  PROVE  ClaimTyped'
<1>1. /\ requests' \in [Conns -> Seq(Requests)] /\ InUse(k) /\ (\A j : InUse(j)' <=> InUse(j))
      /\ \A j \in Conns : requests'[j] # <<>> => InUse(j)
      /\ k \in Nat /\ k <= minted /\ (\A d \in drafts : d.by # k)
      /\ UNCHANGED <<minted, alive, closing, link, notices, table, shows, published, asking, moves>>
  BY ReadOne DEF ClaimTyped, ConnsApart
<1>2. ClaimDataTyped'
  <2>1. owner' \in Conns \cup {Nobody}
    BY DEF ClaimTyped, ClaimDataTyped
  <2>2. [by |-> k, owner |-> owner'] \in Copy
    BY <2>1 DEF Copy
  <2>3. drafts' \subseteq Copy /\ gated' \subseteq Conns
    BY <2>2 DEF ClaimTyped, ClaimDataTyped
  <2> QED
    BY <1>1, <2>1, <2>3 DEF ClaimTyped, ClaimDataTyped
<1>3. Opened'
  <2>1. owner' <= minted
    BY <1>1, Basics DEF ClaimTyped, ClaimDataTyped, Opened, Nobody
  <2>2. \A d \in drafts' : d.owner <= minted
    BY <2>1 DEF ClaimTyped, Opened
  <2>3. \A j \in gated' \cup closing : j <= minted
    BY <1>1 DEF ClaimTyped, Opened
  <2> QED
    BY <1>1, <2>1, <2>2, <2>3 DEF ClaimTyped, Opened
<1>4. ConnsApart'
  <2>1. \A j \in Conns : requests'[j] # <<>> \/ owner' = j => InUse(j)'
    BY <1>1, Basics DEF ClaimTyped, ConnsApart
  <2>2. \A d, e \in drafts' : d.by = e.by => d = e
    BY <1>1 DEF ClaimTyped, ConnsApart
  <2> QED
    BY <1>1, <2>1, <2>2 DEF ClaimTyped, ConnsApart, Connected
<1>5. WindowsApart'
  BY <1>1 DEF ClaimTyped, WindowsApart, Connected
<1> QED
  BY <1>2, <1>3, <1>4, <1>5 DEF ClaimTyped

\* Hello opens the gate of a connection, and the table goes to everyone.
LEMMA ReadHelloKeeps ==
  ASSUME ClaimTyped, NEW k \in Conns, ReadRequest(k), ReadHello(k)
  PROVE  ClaimTyped' /\ (\A c \in Procs : Kept(c)) /\ lapses \subseteq lapses'
<1>1. /\ requests[k] \in Seq(Requests) /\ requests[k] # <<>> /\ Head(requests[k]) \in Requests
      /\ requests'[k] = Tail(requests[k]) /\ \A j \in Conns : j # k => requests'[j] = requests[j]
      /\ UNCHANGED <<minted, alive, closing, link, notices, table, shows, published, asking, moves>>
  BY ReadOne
<1>2. /\ owner' = owner /\ gated' = gated \cup {k}
      /\ drafts' = drafts \cup {[by |-> k, owner |-> owner']}
      /\ replies' \in [Procs -> Seq(Reply)] /\ (\A c \in Procs : replies'[c] = replies[c])
      /\ lapses' \subseteq ClaimLapses /\ drafts \subseteq drafts' /\ gated \subseteq gated'
  BY DEF ReadHello, Seeded, Draft, ClaimTyped, ClaimDataTyped
<1>3. /\ \A c \in Procs : link[c].id # k => replies'[c] = replies[c]
      /\ Head(requests[k]) = "hello" /\ lapses' = lapses
      /\ \E d \in drafts' : d.owner = owner'
  <2>1. [by |-> k, owner |-> owner'] \in drafts' /\ [by |-> k, owner |-> owner'].owner = owner'
    BY <1>2
  <2> QED
    BY <1>2, <2>1 DEF ReadHello
<1>4. ClaimTyped'
  BY <1>2, ReadTyped
<1>5. ASSUME NEW c \in Procs PROVE Kept(c)
  <2>1. /\ link[c].id \in Conns /\ Queue(c) = requests[link[c].id] /\ Queue(c)' = requests'[link[c].id]
        /\ replies[c] \in Seq(Reply)
    BY <1>1, Basics DEF Queue
  <2>2. CASE ~Connected(c)
    BY <1>1, <1>2, <2>2, IdleKept
  <2>3. CASE link[c].id # k
    <3>1. Alike(c)
      BY <1>1, <1>3, <2>1, <2>3 DEF Alike
    <3> QED
      BY <1>1, <1>2, <2>3, <3>1, OtherKept
  <2>4. CASE link[c].id = k /\ Connected(c)
    <3>1. /\ Queue(c) = requests[k] /\ Queue(c)' = Tail(requests[k]) /\ Connected(c) /\ Connected(c)'
          /\ link[c].id = k /\ link'[c].id = k
      BY <1>1, <2>1, <2>4 DEF Connected
    <3>2. \A what : /\ Has(Queue(c), what) <=> Head(requests[k]) \in what \/ Has(Queue(c)', what)
                    /\ Single(Queue(c), what) =>
                         Single(Queue(c)', what) /\ ~(Head(requests[k]) \in what /\ Has(Queue(c)', what))
      BY <1>1, <3>1, HasTail
    <3>3. /\ Firm(Queue(c)') => Firm(Queue(c))
          /\ Firm(Queue(c)) =>
               Firm(Queue(c)') \/ (Head(requests[k]) = "announce" /\ ~Has(Queue(c)', {"release"}))
          /\ ~Firm(Queue(c)) /\ Head(requests[k]) = "announce" => Has(Queue(c)', {"release"})
      BY <1>1, <3>1, FirmTail
    <3>11. ThereFor(c) => ThereFor(c)'
      BY <1>1, <1>2 DEF ThereFor
    <3>12. TableFor(c)'
      BY <1>2, <1>3, <3>1 DEF TableFor
    <3>13. PublishedFor(c) => PublishedFor(c)'
      BY <1>1, <1>2, <1>3, <3>1, <3>2, <3>3 DEF PublishedFor
    <3>14. AnswerFor(c) => AnswerFor(c)'
      BY <1>1, <1>2, <1>3, <3>1, <3>2 DEF AnswerFor
    <3>15. UnpublishedFor(c) => UnpublishedFor(c)'
      BY <1>1, <1>2, <1>3, <3>1, <3>2, <3>3 DEF UnpublishedFor
    <3> QED
      BY <3>11, <3>12, <3>13, <3>14, <3>15 DEF Kept
  <2> QED
    BY <2>2, <2>3, <2>4
<1> QED
  BY <1>3, <1>4, <1>5

\* A process is told whether the session is there.
LEMMA ReadListKeeps ==
  ASSUME ClaimTyped, NEW k \in Conns, ReadRequest(k), ReadList(k)
  PROVE  ClaimTyped' /\ (\A c \in Procs : Kept(c)) /\ lapses \subseteq lapses'
<1>1. /\ requests[k] \in Seq(Requests) /\ requests[k] # <<>> /\ Head(requests[k]) \in Requests
      /\ requests'[k] = Tail(requests[k]) /\ \A j \in Conns : j # k => requests'[j] = requests[j]
      /\ UNCHANGED <<minted, alive, closing, link, notices, table, shows, published, asking, moves>>
  BY ReadOne
<1>2. /\ owner' = owner /\ gated' = gated /\ drafts' = drafts
      /\ replies' \in [Procs -> Seq(Reply)] /\ (\A c \in Procs : ~Connected(c) => replies'[c] = replies[c])
      /\ lapses' \subseteq ClaimLapses /\ Head(requests[k]) = "list" /\ lapses' = lapses
      /\ \A c \in Procs : link[c].id # k => replies'[c] = replies[c]
      /\ \E is \in {"there", "missing"} :
           /\ alive => is = "there"
           /\ [to |-> "list", is |-> is] \in Reply
           /\ \A c \in Procs : link[c].id = k /\ Connected(c) =>
                replies'[c] = Append(replies[c], [to |-> "list", is |-> is])
  <2>1. PICK is \in {"there", "missing"} : (alive => is = "there") /\ AnswerTo(k, "list", is)
    BY DEF ReadList
  <2>2. "list" \in Requests /\ is \in Answers
    BY <2>1 DEF Requests, Answers
  <2>3. /\ replies' \in [Procs -> Seq(Reply)] /\ [to |-> "list", is |-> is] \in Reply
        /\ \A c \in Procs :
             replies'[c] = IF link[c].id = k /\ Connected(c)
                           THEN Append(replies[c], [to |-> "list", is |-> is]) ELSE replies[c]
    BY <2>1, <2>2, AnswerOne
  <2> QED
    BY <2>1, <2>2, <2>3 DEF ReadList, ClaimTyped, ClaimDataTyped
<1>3. (\A c \in Procs : link[c].id # k => replies'[c] = replies[c]) /\ lapses' = lapses
  BY <1>2
<1>4. ClaimTyped'
  BY <1>2, ReadTyped
<1>5. ASSUME NEW c \in Procs PROVE Kept(c)
  <2>1. /\ link[c].id \in Conns /\ Queue(c) = requests[link[c].id] /\ Queue(c)' = requests'[link[c].id]
        /\ replies[c] \in Seq(Reply)
    BY <1>1, Basics DEF Queue
  <2>2. CASE ~Connected(c)
    BY <1>1, <1>2, <2>2, IdleKept
  <2>3. CASE link[c].id # k
    <3>1. Alike(c)
      BY <1>1, <1>3, <2>1, <2>3 DEF Alike
    <3> QED
      BY <1>1, <1>2, <2>3, <3>1, OtherKept
  <2>4. CASE link[c].id = k /\ Connected(c)
    <3>1. /\ Queue(c) = requests[k] /\ Queue(c)' = Tail(requests[k]) /\ Connected(c) /\ Connected(c)'
          /\ link[c].id = k /\ link'[c].id = k
      BY <1>1, <2>1, <2>4 DEF Connected
    <3>2. \A what : /\ Has(Queue(c), what) <=> Head(requests[k]) \in what \/ Has(Queue(c)', what)
                    /\ Single(Queue(c), what) =>
                         Single(Queue(c)', what) /\ ~(Head(requests[k]) \in what /\ Has(Queue(c)', what))
      BY <1>1, <3>1, HasTail
    <3>3. /\ Firm(Queue(c)') => Firm(Queue(c))
          /\ Firm(Queue(c)) =>
               Firm(Queue(c)') \/ (Head(requests[k]) = "announce" /\ ~Has(Queue(c)', {"release"}))
          /\ ~Firm(Queue(c)) /\ Head(requests[k]) = "announce" => Has(Queue(c)', {"release"})
      BY <1>1, <3>1, FirmTail
    <3>4. PICK is \in {"there", "missing"} :
            /\ alive => is = "there"
            /\ [to |-> "list", is |-> is] \in Reply
            /\ replies'[c] = Append(replies[c], [to |-> "list", is |-> is])
      BY <1>2, <2>4
    <3>5. \A what : /\ Has(replies'[c], what) <=> [to |-> "list", is |-> is] \in what \/ Has(replies[c], what)
                    /\ Single(replies[c], what) /\ [to |-> "list", is |-> is] \notin what => Single(replies'[c], what)
      BY <2>1, <3>4, HasAppend
    <3>6. /\ [to |-> "list", is |-> is] \notin ToAdopt /\ [to |-> "list", is |-> is] \notin GrantedIt
          /\ alive => [to |-> "list", is |-> is] \notin NotThere
      BY <3>4 DEF ToAdopt, GrantedIt, NotThere
    <3>11. ThereFor(c) => ThereFor(c)'
      BY <1>1, <3>5, <3>6 DEF ThereFor
    <3>12. TableFor(c) => TableFor(c)'
      BY <1>1, <1>2, <3>1, <3>2 DEF TableFor
    <3>13. PublishedFor(c) => PublishedFor(c)'
      BY <1>1, <1>2, <3>1, <3>2, <3>3 DEF PublishedFor
    <3>14. AnswerFor(c) => AnswerFor(c)'
      BY <1>1, <1>2, <3>1, <3>2, <3>5, <3>6 DEF AnswerFor
    <3>15. UnpublishedFor(c) => UnpublishedFor(c)'
      BY <1>1, <1>2, <3>1, <3>2, <3>3, <3>5, <3>6 DEF UnpublishedFor
    <3> QED
      BY <3>11, <3>12, <3>13, <3>14, <3>15 DEF Kept
  <2> QED
    BY <2>2, <2>3, <2>4
<1> QED
  BY <1>3, <1>4, <1>5

\* A claim is granted when nobody else has the session.
LEMMA ReadClaimKeeps ==
  ASSUME ClaimTyped, NEW k \in Conns, ReadRequest(k), ReadClaim(k)
  PROVE  ClaimTyped' /\ (\A c \in Procs : Kept(c)) /\ lapses \subseteq lapses'
<1>1. /\ requests[k] \in Seq(Requests) /\ requests[k] # <<>> /\ Head(requests[k]) \in Requests
      /\ requests'[k] = Tail(requests[k]) /\ \A j \in Conns : j # k => requests'[j] = requests[j]
      /\ UNCHANGED <<minted, alive, closing, link, notices, table, shows, published, asking, moves>>
  BY ReadOne
<1>2. /\ owner' \in {owner, k, Nobody} /\ gated' = gated /\ Head(requests[k]) \in {"announce", "adopt"}
      /\ drafts' \in {drafts, drafts \cup {[by |-> k, owner |-> owner']}}
      /\ replies' \in [Procs -> Seq(Reply)] /\ (\A c \in Procs : ~Connected(c) => replies'[c] = replies[c])
      /\ lapses' \subseteq ClaimLapses /\ lapses \subseteq lapses' /\ drafts \subseteq drafts'
      /\ owner' = owner \/ (owner = Nobody /\ owner' = k)
      /\ owner' = k => \E d \in drafts' : d.owner = owner'
      /\ owner = k => owner' = k
      /\ \A c \in Procs : link[c].id # k => replies'[c] = replies[c]
      /\ \E is \in {"granted", "denied"} :
           /\ is = "granted" <=> owner' = k
           /\ is = "denied" /\ Head(requests[k]) = "announce" => "refused" \in lapses'
           /\ [to |-> Head(requests[k]), is |-> is] \in Reply
           /\ \A c \in Procs : link[c].id = k /\ Connected(c) =>
                replies'[c] = Append(replies[c], [to |-> Head(requests[k]), is |-> is])
  <2>1. PICK is \in {"granted", "denied"} :
          (is = "granted" <=> owner' = k) /\ AnswerTo(k, Head(requests[k]), is)
    BY DEF ReadClaim
  <2>2. is \in Answers
    BY <2>1 DEF Answers
  <2>3. /\ replies' \in [Procs -> Seq(Reply)] /\ [to |-> Head(requests[k]), is |-> is] \in Reply
        /\ \A c \in Procs :
             replies'[c] = IF link[c].id = k /\ Connected(c)
                           THEN Append(replies[c], [to |-> Head(requests[k]), is |-> is]) ELSE replies[c]
    BY <1>1, <2>1, <2>2, AnswerOne
  <2>4. /\ lapses' \subseteq ClaimLapses /\ lapses \subseteq lapses'
        /\ owner' # k /\ Head(requests[k]) = "announce" => "refused" \in lapses'
    BY DEF ReadClaim, Lapse, ClaimTyped, ClaimDataTyped, ClaimLapses
  <2>5. /\ drafts' = IF owner' = k THEN drafts \cup {[by |-> k, owner |-> k]} ELSE drafts
        /\ gated' = gated /\ Head(requests[k]) \in {"announce", "adopt"}
        /\ owner' = owner \/ (owner = Nobody /\ owner' = k)
    BY DEF ReadClaim, Draft, ClaimedBy
  <2>6. /\ drafts' \in {drafts, drafts \cup {[by |-> k, owner |-> owner']}} /\ drafts \subseteq drafts'
        /\ owner' = k => \E d \in drafts' : d.owner = owner'
    <3>1. CASE owner' = k
      <4>1. [by |-> k, owner |-> k] \in drafts' /\ [by |-> k, owner |-> k].owner = k
        BY <2>5, <3>1
      <4> QED
        BY <2>5, <3>1, <4>1
    <3>2. CASE owner' # k
      BY <2>5, <3>2
    <3> QED
      BY <3>1, <3>2
  <2>7. owner = k => owner' = k
    BY <2>5, Basics
  <2> QED
    BY <2>1, <2>3, <2>4, <2>5, <2>6, <2>7
<1>3. (\A c \in Procs : link[c].id # k => replies'[c] = replies[c]) /\ lapses \subseteq lapses'
  BY <1>2
<1>4. ClaimTyped'
  BY <1>2, ReadTyped
<1>5. ASSUME NEW c \in Procs PROVE Kept(c)
  <2>1. /\ link[c].id \in Conns /\ Queue(c) = requests[link[c].id] /\ Queue(c)' = requests'[link[c].id]
        /\ replies[c] \in Seq(Reply)
    BY <1>1, Basics DEF Queue
  <2>2. CASE ~Connected(c)
    BY <1>1, <1>2, <2>2, IdleKept
  <2>3. CASE link[c].id # k
    <3>1. Alike(c)
      BY <1>1, <1>3, <2>1, <2>3 DEF Alike
    <3> QED
      BY <1>1, <1>2, <2>3, <3>1, OtherKept
  <2>4. CASE link[c].id = k /\ Connected(c)
    <3>1. /\ Queue(c) = requests[k] /\ Queue(c)' = Tail(requests[k]) /\ Connected(c) /\ Connected(c)'
          /\ link[c].id = k /\ link'[c].id = k
      BY <1>1, <2>1, <2>4 DEF Connected
    <3>2. \A what : /\ Has(Queue(c), what) <=> Head(requests[k]) \in what \/ Has(Queue(c)', what)
                    /\ Single(Queue(c), what) =>
                         Single(Queue(c)', what) /\ ~(Head(requests[k]) \in what /\ Has(Queue(c)', what))
      BY <1>1, <3>1, HasTail
    <3>3. /\ Firm(Queue(c)') => Firm(Queue(c))
          /\ Firm(Queue(c)) =>
               Firm(Queue(c)') \/ (Head(requests[k]) = "announce" /\ ~Has(Queue(c)', {"release"}))
          /\ ~Firm(Queue(c)) /\ Head(requests[k]) = "announce" => Has(Queue(c)', {"release"})
      BY <1>1, <3>1, FirmTail
    <3>4. PICK is \in {"granted", "denied"} :
            /\ is = "granted" <=> owner' = k
            /\ is = "denied" /\ Head(requests[k]) = "announce" => "refused" \in lapses'
            /\ [to |-> Head(requests[k]), is |-> is] \in Reply
            /\ replies'[c] = Append(replies[c], [to |-> Head(requests[k]), is |-> is])
      BY <1>2, <2>4
    <3> DEFINE r == [to |-> Head(requests[k]), is |-> is]
    <3> HIDE DEF r
    <3>5. \A what : /\ Has(replies'[c], what) <=> r \in what \/ Has(replies[c], what)
                    /\ Single(replies[c], what) /\ ~(r \in what /\ Has(replies[c], what)) => Single(replies'[c], what)
      <4>1. r \in Reply /\ replies'[c] = Append(replies[c], r)
        BY <3>4 DEF r
      <4> QED
        BY <2>1, <4>1, HasAppend
    <3>6. /\ r \in ToAdopt <=> Head(requests[k]) = "adopt"
          /\ r \in GrantedIt <=> Head(requests[k]) = "adopt" /\ owner' = k
          /\ r \notin NotThere
      BY <1>2, <3>4 DEF ToAdopt, GrantedIt, NotThere, Answers, r
    <3>11. ThereFor(c) => ThereFor(c)'
      BY <1>1, <3>5, <3>6 DEF ThereFor
    <3>12. TableFor(c) => TableFor(c)'
      <4>1. (\E d \in drafts : d.owner = owner) => \E d \in drafts' : d.owner = owner'
        BY <1>2
      <4> QED
        BY <1>1, <1>2, <3>1, <3>2, <4>1 DEF TableFor
    <3>13. Heeded' /\ PublishedFor(c) => PublishedFor(c)'
      <4>1. Heeded' => "refused" \notin lapses'
        BY DEF Heeded
      <4>2. Heeded' /\ Head(requests[k]) = "announce" => owner' = k
        BY <3>4, <4>1
      <4> QED
        BY <1>1, <1>2, <3>1, <3>2, <3>3, <4>2 DEF PublishedFor
    <3>14. AnswerFor(c) => AnswerFor(c)'
      <4>1. Has(Queue(c), {"adopt"}) <=> Head(requests[k]) = "adopt" \/ Has(Queue(c)', {"adopt"})
        BY <3>2
      <4>2. Single(Queue(c), {"adopt"}) =>
              Single(Queue(c)', {"adopt"}) /\ ~(Head(requests[k]) = "adopt" /\ Has(Queue(c)', {"adopt"}))
        BY <3>2
      <4>3. Has(replies'[c], ToAdopt) <=> Head(requests[k]) = "adopt" \/ Has(replies[c], ToAdopt)
        BY <3>5, <3>6
      <4>4. Single(replies[c], ToAdopt) /\ ~(Head(requests[k]) = "adopt" /\ Has(replies[c], ToAdopt))
              => Single(replies'[c], ToAdopt)
        BY <3>5, <3>6
      <4> QED
        BY <1>1, <3>1, <4>1, <4>2, <4>3, <4>4 DEF AnswerFor
    <3>15. UnpublishedFor(c) => UnpublishedFor(c)'
      <4>1. owner' = k /\ Head(requests[k]) = "adopt" => Has(replies'[c], GrantedIt)
        BY <3>5, <3>6
      <4> QED
        BY <1>1, <1>2, <3>1, <3>3, <4>1 DEF UnpublishedFor
    <3> QED
      BY <3>11, <3>12, <3>13, <3>14, <3>15 DEF Kept
  <2> QED
    BY <2>2, <2>3, <2>4
<1> QED
  BY <1>3, <1>4, <1>5

\* A release gives the claim up, if it was held.
LEMMA ReadReleaseKeeps ==
  ASSUME ClaimTyped, NEW k \in Conns, ReadRequest(k), ReadRelease(k)
  PROVE  ClaimTyped' /\ (\A c \in Procs : Kept(c)) /\ lapses \subseteq lapses'
<1>1. /\ requests[k] \in Seq(Requests) /\ requests[k] # <<>> /\ Head(requests[k]) \in Requests
      /\ requests'[k] = Tail(requests[k]) /\ \A j \in Conns : j # k => requests'[j] = requests[j]
      /\ UNCHANGED <<minted, alive, closing, link, notices, table, shows, published, asking, moves>>
  BY ReadOne
<1>2. /\ owner' \in {owner, k, Nobody} /\ gated' = gated /\ Head(requests[k]) = "release"
      /\ drafts' \in {drafts, drafts \cup {[by |-> k, owner |-> owner']}} /\ drafts \subseteq drafts'
      /\ replies' \in [Procs -> Seq(Reply)] /\ (\A c \in Procs : replies'[c] = replies[c])
      /\ lapses' \subseteq ClaimLapses /\ owner' # k
      /\ owner' = owner \/ (owner = k /\ owner' = Nobody /\ \E d \in drafts' : d.owner = owner')
  <2>1. CASE owner = k
    <3>1. owner' = Nobody /\ owner' # k
      BY <2>1, Basics DEF ReadRelease, ReleasedBy
    <3>2. drafts' = drafts \cup {[by |-> k, owner |-> owner']}
      BY <2>1, <3>1 DEF ReadRelease, Draft
    <3>3. \E d \in drafts' : d.owner = owner'
      <4>1. [by |-> k, owner |-> owner'] \in drafts' /\ [by |-> k, owner |-> owner'].owner = owner'
        BY <3>2
      <4> QED
        BY <4>1
    <3> QED
      BY <2>1, <3>1, <3>2, <3>3 DEF ReadRelease, ClaimTyped, ClaimDataTyped
  <2>2. CASE owner # k
    BY <2>2 DEF ReadRelease, ReleasedBy, ClaimTyped, ClaimDataTyped
  <2> QED
    BY <2>1, <2>2
<1>3. (\A c \in Procs : link[c].id # k => replies'[c] = replies[c]) /\ lapses' = lapses
  BY <1>2 DEF ReadRelease
<1>4. ClaimTyped'
  BY <1>2, ReadTyped
<1>5. ASSUME NEW c \in Procs PROVE Kept(c)
  <2>1. /\ link[c].id \in Conns /\ Queue(c) = requests[link[c].id] /\ Queue(c)' = requests'[link[c].id]
        /\ replies[c] \in Seq(Reply)
    BY <1>1, Basics DEF Queue
  <2>2. CASE ~Connected(c)
    BY <1>1, <1>2, <2>2, IdleKept
  <2>3. CASE link[c].id # k
    <3>1. Alike(c)
      BY <1>1, <1>3, <2>1, <2>3 DEF Alike
    <3> QED
      BY <1>1, <1>2, <2>3, <3>1, OtherKept
  <2>4. CASE link[c].id = k /\ Connected(c)
    <3>1. /\ Queue(c) = requests[k] /\ Queue(c)' = Tail(requests[k]) /\ Connected(c) /\ Connected(c)'
          /\ link[c].id = k /\ link'[c].id = k
      BY <1>1, <2>1, <2>4 DEF Connected
    <3>2. \A what : /\ Has(Queue(c), what) <=> Head(requests[k]) \in what \/ Has(Queue(c)', what)
                    /\ Single(Queue(c), what) =>
                         Single(Queue(c)', what) /\ ~(Head(requests[k]) \in what /\ Has(Queue(c)', what))
      BY <1>1, <3>1, HasTail
    <3>3. /\ Firm(Queue(c)') => Firm(Queue(c))
          /\ Firm(Queue(c)) =>
               Firm(Queue(c)') \/ (Head(requests[k]) = "announce" /\ ~Has(Queue(c)', {"release"}))
          /\ ~Firm(Queue(c)) /\ Head(requests[k]) = "announce" => Has(Queue(c)', {"release"})
      BY <1>1, <3>1, FirmTail
    <3>11. ThereFor(c) => ThereFor(c)'
      BY <1>1, <1>2 DEF ThereFor
    <3>12. TableFor(c) => TableFor(c)'
      <4>1. (\E d \in drafts : d.owner = owner) => \E d \in drafts' : d.owner = owner'
        BY <1>2
      <4> QED
        BY <1>1, <1>2, <3>1, <3>2, <4>1 DEF TableFor
    <3>13. PublishedFor(c) => PublishedFor(c)'
      BY <1>1, <1>2, <3>1, <3>2, <3>3 DEF PublishedFor
    <3>14. AnswerFor(c) => AnswerFor(c)'
      BY <1>1, <1>2, <3>1, <3>2 DEF AnswerFor
    <3>15. UnpublishedFor(c) => UnpublishedFor(c)'
      BY <1>1, <1>2, <3>1, <3>3 DEF UnpublishedFor
    <3> QED
      BY <3>11, <3>12, <3>13, <3>14, <3>15 DEF Kept
  <2> QED
    BY <2>2, <2>3, <2>4
<1> QED
  BY <1>3, <1>4, <1>5

\* A connection that has ended takes its claim with it.
LEMMA LeaveConnKeeps ==
  ASSUME ClaimTyped, NEW k \in Conns, LeaveConn(k)
  PROVE  ClaimTyped' /\ \A c \in Procs : Kept(c)
<1>1. /\ k \in closing /\ requests[k] = <<>> /\ (\A d \in drafts : d.by # k) /\ closing' = closing \ {k}
      /\ UNCHANGED <<minted, alive, requests, gated, link, replies, notices, table,
                     shows, published, asking, moves, lapses>>
  BY DEF LeaveConn, Busy
<1>2. /\ owner' # k /\ drafts \subseteq drafts'
      /\ drafts' \in {drafts, drafts \cup {[by |-> k, owner |-> Nobody]}}
      /\ owner' = owner \/ (owner = k /\ owner' = Nobody /\ \E d \in drafts' : d.owner = owner')
  <2>1. CASE owner = k
    <3>1. owner' = Nobody /\ owner' # k
      BY <2>1, Basics DEF LeaveConn, ReleasedBy
    <3>2. drafts' = drafts \cup {[by |-> k, owner |-> Nobody]}
      BY <2>1, <3>1 DEF LeaveConn, Draft
    <3>3. [by |-> k, owner |-> Nobody] \in drafts' /\ [by |-> k, owner |-> Nobody].owner = owner'
      BY <3>1, <3>2
    <3> QED
      BY <2>1, <3>1, <3>2, <3>3
  <2>2. CASE owner # k
    BY <2>2 DEF LeaveConn, ReleasedBy
  <2> QED
    BY <2>1, <2>2
<1>3. ClaimDataTyped'
  <2>1. [by |-> k, owner |-> Nobody] \in Copy
    BY DEF Copy
  <2> QED
    BY <1>1, <1>2, <2>1 DEF ClaimTyped, ClaimDataTyped
<1>4. Opened'
  <2>1. Nobody <= minted
    BY Basics DEF ClaimTyped, ClaimDataTyped, Nobody, Conns
  <2>2. owner' <= minted /\ \A d \in drafts' : d.owner <= minted
    BY <1>2, <2>1 DEF ClaimTyped, Opened
  <2> QED
    BY <1>1, <2>2 DEF ClaimTyped, Opened
<1>5. ConnsApart'
  <2>1. \A j : j # k /\ InUse(j) => InUse(j)'
    BY <1>1 DEF InUse, Connected
  <2>2. \A j \in Conns : requests'[j] # <<>> \/ owner' = j => InUse(j)'
    BY <1>1, <1>2, <2>1, Basics DEF ClaimTyped, ConnsApart
  <2>3. \A d, e \in drafts' : d.by = e.by => d = e
    BY <1>1, <1>2 DEF ClaimTyped, ConnsApart
  <2> QED
    BY <1>1, <2>2, <2>3 DEF ClaimTyped, ConnsApart, Connected
<1>6. WindowsApart'
  BY <1>1 DEF ClaimTyped, WindowsApart, Connected
<1>7. ASSUME NEW c \in Procs PROVE Kept(c)
  <2>1. CASE ~Connected(c)
    BY <1>1, <2>1, IdleKept
  <2>2. CASE Connected(c)
    <3>1. link[c].id # k
      BY <1>1, <2>2 DEF ClaimTyped, ConnsApart
    <3>2. Alike(c)
      BY <1>1 DEF Alike, Queue
    <3> QED
      BY <1>1, <1>2, <3>1, <3>2, OtherKept
  <2> QED
    BY <2>1, <2>2
<1> QED
  BY <1>3, <1>4, <1>5, <1>6, <1>7 DEF ClaimTyped

\* The session ends, and whoever had the claim has it no more.
LEMMA EndSessionKeeps ==
  ASSUME ClaimTyped, EndSession
  PROVE  ClaimTyped' /\ \A c \in Procs : Kept(c)
<1>1. /\ (\A d \in drafts : d.by # Pump) /\ owner' = Nobody /\ alive' = FALSE
      /\ UNCHANGED <<minted, requests, gated, closing, link, replies, notices, table,
                     shows, published, asking, lapses>>
  BY DEF EndSession, Busy
<1>2. moves' \in 0 .. MaxMoves
  BY MoveTyped DEF EndSession
<1>3. /\ drafts \subseteq drafts' /\ drafts' \in {drafts, drafts \cup {[by |-> Pump, owner |-> Nobody]}}
      /\ owner' = owner \/ \E d \in drafts' : d.owner = owner'
  <2>1. CASE owner = Nobody
    BY <1>1, <2>1 DEF EndSession
  <2>2. CASE owner # Nobody
    <3>1. drafts' = drafts \cup {[by |-> Pump, owner |-> Nobody]}
      BY <2>2 DEF EndSession, Draft
    <3>2. [by |-> Pump, owner |-> Nobody] \in drafts' /\ [by |-> Pump, owner |-> Nobody].owner = owner'
      BY <1>1, <3>1
    <3> QED
      BY <3>1, <3>2
  <2> QED
    BY <2>1, <2>2
<1>4. ClaimDataTyped'
  <2>1. [by |-> Pump, owner |-> Nobody] \in Copy
    BY DEF Copy
  <2> QED
    BY <1>1, <1>2, <1>3, <2>1 DEF ClaimTyped, ClaimDataTyped
<1>5. Opened'
  <2>1. Nobody <= minted
    BY Basics DEF ClaimTyped, ClaimDataTyped, Nobody, Conns
  <2>2. owner' <= minted /\ \A d \in drafts' : d.owner <= minted
    BY <1>1, <1>3, <2>1 DEF ClaimTyped, Opened
  <2> QED
    BY <1>1, <2>2 DEF ClaimTyped, Opened
<1>6. ConnsApart'
  <2>1. \A j : InUse(j)' <=> InUse(j)
    BY <1>1 DEF InUse, Connected
  <2>2. \A d, e \in drafts' : d.by = e.by => d = e
    BY <1>1, <1>3 DEF ClaimTyped, ConnsApart
  <2> QED
    BY <1>1, <2>1, <2>2, Basics DEF ClaimTyped, ConnsApart, Connected
<1>7. WindowsApart'
  BY <1>1 DEF ClaimTyped, WindowsApart, Connected
<1>8. ASSUME NEW c \in Procs PROVE Kept(c)
  <2>1. link[c].id # Nobody
    BY Basics
  <2>2. TableFor(c) => TableFor(c)'
    BY <1>1, <1>3 DEF TableFor, Connected, Queue
  <2> QED
    BY <1>1, <2>1, <2>2
    DEF Kept, ThereFor, Heeded, PublishedFor, AnswerFor, UnpublishedFor, Connected, Queue
<1> QED
  BY <1>4, <1>5, <1>6, <1>7, <1>8 DEF ClaimTyped

\* A copy of the table goes to every process that has been let in.
LEMMA SendDraftKeeps ==
  ASSUME ClaimTyped, NEW d \in drafts, SendDraft(d)
  PROVE  ClaimTyped' /\ (\A c \in Procs : Kept(c)) /\ lapses \subseteq lapses'
<1>1. /\ drafts' = drafts \ {d}
      /\ UNCHANGED <<owner, minted, alive, requests, gated, closing, link, replies,
                     table, shows, published, asking, moves>>
  BY DEF SendDraft
<1>2. PICK full \in {{}} \cup {{c} : c \in Lagging} :
        /\ notices' = [c \in Procs |-> IF c \in Listening \ full
                                       THEN Append(notices[c], d.owner) ELSE notices[c]]
        /\ Lapse({m \in {"dropped"} : full # {}} \cup {m \in {"outrun"} : Outruns(d)})
  BY DEF SendDraft
<1>3. /\ lapses' \subseteq ClaimLapses /\ lapses \subseteq lapses'
      /\ InStep' => full = {} /\ ~Outruns(d)
  <2>1. lapses' = lapses \cup ({m \in {"dropped"} : full # {}} \cup {m \in {"outrun"} : Outruns(d)})
    BY <1>2 DEF Lapse
  <2>2. lapses \subseteq ClaimLapses /\ {"dropped", "outrun"} \subseteq ClaimLapses
    BY DEF ClaimTyped, ClaimDataTyped, ClaimLapses
  <2> QED
    BY <2>1, <2>2 DEF InStep
<1>4. d.owner \in Conns \cup {Nobody} /\ d.owner <= minted
  BY DEF ClaimTyped, ClaimDataTyped, Copy, Opened
<1>5. \A c \in Procs : /\ notices'[c] = IF c \in Listening \ full
                                        THEN Append(notices[c], d.owner) ELSE notices[c]
                       /\ notices[c] \in Seq(Conns \cup {Nobody})
                       /\ Append(notices[c], d.owner) \in Seq(Conns \cup {Nobody})
  BY <1>2, <1>4, Basics
<1>6. ClaimDataTyped'
  <2>1. notices' \in [Procs -> Seq(Conns \cup {Nobody})]
    BY <1>2, <1>5
  <2> QED
    BY <1>1, <1>3, <2>1 DEF ClaimTyped, ClaimDataTyped
<1>7. Opened'
  <2>1. \A c \in Procs : \A i \in DOMAIN notices'[c] : notices'[c][i] <= minted
    <3> SUFFICES ASSUME NEW c \in Procs, NEW i \in DOMAIN notices'[c] PROVE notices'[c][i] <= minted
      OBVIOUS
    <3>1. \A j \in DOMAIN notices[c] : notices[c][j] <= minted
      BY DEF ClaimTyped, Opened
    <3>2. CASE notices'[c] = notices[c]
      BY <3>1, <3>2
    <3>3. CASE notices'[c] = Append(notices[c], d.owner)
      <4>1. (i \in DOMAIN notices[c] /\ notices'[c][i] = notices[c][i]) \/ notices'[c][i] = d.owner
        BY <1>5, <3>3
      <4> QED
        BY <1>4, <3>1, <4>1
    <3> QED
      BY <1>5, <3>2, <3>3
  <2> QED
    BY <1>1, <2>1 DEF ClaimTyped, Opened
<1>8. ConnsApart'
  BY <1>1 DEF ClaimTyped, ConnsApart, InUse, Connected
<1>9. WindowsApart'
  BY <1>1, <1>5 DEF ClaimTyped, WindowsApart, Listening, Connected
<1>10. ASSUME NEW c \in Procs PROVE Kept(c)
  <2>1. InStep' /\ TableFor(c) => TableFor(c)'
    <3> SUFFICES ASSUME InStep', TableFor(c), Connected(c) PROVE TableFor(c)'
      BY <1>1 DEF TableFor, Connected
    <3>1. CASE link[c].id \notin gated
      BY <1>1, <3>1 DEF TableFor, Connected, Queue
    <3>2. CASE link[c].id \in gated
      <4>1. notices'[c] = Append(notices[c], d.owner)
        BY <1>3, <1>5, <3>2 DEF Listening
      <4>2. LastOf(notices'[c], table[c]) = d.owner
        BY <1>4, <1>5, <4>1, LastCopy
      <4>3. CASE d.owner = owner
        BY <1>1, <3>2, <4>2, <4>3 DEF TableFor, Connected
      <4>4. CASE d.owner # owner
        <5>1. \E e \in drafts' : e.owner = owner
          BY <1>1, <1>3, <4>4 DEF Outruns
        <5> QED
          BY <1>1, <3>2, <5>1 DEF TableFor, Connected
      <4> QED
        BY <4>3, <4>4
    <3> QED
      BY <3>1, <3>2
  <2> QED
    BY <1>1, <2>1 DEF Kept, ThereFor, PublishedFor, AnswerFor, UnpublishedFor, Connected, Queue
<1> QED
  BY <1>3, <1>6, <1>7, <1>8, <1>9, <1>10 DEF ClaimTyped
-----------------------------------------------------------------------------
(* What holds of every behaviour.                                          *)

\* It holds of the first state: nothing has been sent, and process 1 has yet to publish.
LEMMA ClaimStarts == ClaimInit => ClaimInv
<1> SUFFICES ASSUME ClaimInit PROVE ClaimInv
  OBVIOUS
<1>1. /\ Procs = 1 .. Cardinality(Procs) /\ 1 \in Procs /\ Procs \subseteq 1 .. LastConn /\ LastConn \in Nat
      /\ MaxMoves \in Nat
  BY ClaimAssumption
<1>2. /\ owner = Nobody /\ minted = Cardinality(Procs) /\ alive = TRUE
      /\ requests = [k \in Conns |-> <<>>]
      /\ gated = Procs /\ drafts = {} /\ closing = {}
      /\ link = [c \in Procs |-> [id |-> c, is |-> "up"]]
      /\ replies = [c \in Procs |-> <<>>] /\ notices = [c \in Procs |-> <<>>]
      /\ table = [c \in Procs |-> Nobody]
      /\ published = {} /\ asking = {} /\ moves = 0 /\ lapses = {}
      /\ shows \in {{1}, {}}
  BY DEF ClaimInit
<1>3. /\ Cardinality(Procs) \in Procs /\ Procs \subseteq Conns /\ \A c \in Procs : c \in Nat /\ c <= minted
  <2>1. IsFiniteSet(1 .. LastConn)
    BY <1>1, FS_Interval
  <2>2. IsFiniteSet(Procs)
    BY <1>1, <2>1, FS_Subset
  <2> DEFINE n == Cardinality(Procs)
  <2> HIDE DEF n
  <2>3. n \in Nat /\ Procs = 1 .. n
    BY <1>1, <2>2, FS_CardinalityType DEF n
  <2>4. 1 \in 1 .. n
    BY <1>1, <2>3
  <2>5. n \in 1 .. n
    BY <2>3, <2>4
  <2> QED
    BY <1>1, <1>2, <2>3, <2>5 DEF Conns, n
<1>4. ClaimDataTyped
  <2>1. /\ \A c \in Procs : [id |-> c, is |-> "up"] \in Link
        /\ \A A : <<>> \in Seq(A)
    BY <1>3, EmptySeq DEF Link
  <2>2. link \in [Procs -> Link] /\ requests \in [Conns -> Seq(Requests)]
    BY <1>2, <2>1
  <2>3. replies \in [Procs -> Seq(Reply)] /\ notices \in [Procs -> Seq(Conns \cup {Nobody})]
    BY <1>2, <2>1
  <2>4. shows \subseteq Procs /\ moves \in 0 .. MaxMoves
    <3>1. 1 \in Procs
      BY <1>1
    <3>2. 0 \in 0 .. MaxMoves
      BY <1>1
    <3> QED
      BY <1>2, <3>1, <3>2
  <2> QED
    BY <1>2, <1>3, <2>2, <2>3, <2>4 DEF ClaimDataTyped
<1>5. \A c \in Procs : /\ link[c].id = c /\ link[c].is = "up" /\ Connected(c) /\ Queue(c) = <<>>
                       /\ replies[c] = <<>> /\ notices[c] = <<>> /\ table[c] = Nobody
  BY <1>2, <1>3 DEF Connected, Queue
<1>6. Opened
  <2>1. Nobody <= minted
    <3>1. minted \in Conns
      BY <1>2, <1>3
    <3> QED
      BY <3>1 DEF Nobody, Conns
  <2> QED
    BY <1>2, <1>3, <1>5, <2>1 DEF Opened
<1>7. ConnsApart
  <2>1. \A k \in Conns : ~(requests[k] # <<>> \/ owner = k)
    BY <1>1, <1>2 DEF Conns, Nobody
  <2> QED
    BY <1>2, <1>5, <2>1 DEF ConnsApart
<1>8. WindowsApart
  BY <1>2, <1>5 DEF WindowsApart
<1>9. \A c \in Procs : ThereFor(c) /\ TableFor(c) /\ AnswerFor(c) /\ UnpublishedFor(c)
  <2>1. \A c \in Procs : LastOf(notices[c], table[c]) = owner
    BY <1>2, <1>5 DEF LastOf
  <2>2. \A c \in Procs : owner # c
    BY <1>2, <1>3, <1>1 DEF Nobody
  <2> QED
    BY ZenonT(40), <1>2, <1>5, <2>1, <2>2, HasNone DEF ThereFor, TableFor, AnswerFor, UnpublishedFor
<1>10. \A c \in Procs : PublishedFor(c)
  BY <1>2 DEF PublishedFor
<1> QED
  BY <1>4, <1>6, <1>7, <1>8, <1>9, <1>10
  DEF ClaimInv, ClaimTyped, TableInv, PublishedInv, AnswerInv, UnpublishedInv

\* Each step of the daemon keeps it.
LEMMA DaemonKeeps ==
  ASSUME ClaimInv, DaemonMoves
  PROVE  ClaimInv'
<1>1. ClaimTyped
  BY DEF ClaimInv
<1>2. ASSUME NEW k \in Conns, ReadRequest(k) PROVE ClaimInv'
  <2>1. alive' = alive
    BY <1>2 DEF ReadRequest
  <2>2. ClaimTyped' /\ (\A c \in Procs : Kept(c)) /\ lapses \subseteq lapses'
    <3>1. ReadHello(k) \/ ReadList(k) \/ ReadClaim(k) \/ ReadRelease(k)
      BY <1>2 DEF ReadRequest
    <3> QED
      BY <1>1, <1>2, <3>1, ReadHelloKeeps, ReadListKeeps, ReadClaimKeeps, ReadReleaseKeeps
  <2> QED
    BY <2>1, <2>2, KeptByAll
<1>3. ASSUME NEW k \in Conns, LeaveConn(k) PROVE ClaimInv'
  <2>1. alive' = alive /\ lapses' = lapses
    BY <1>3 DEF LeaveConn
  <2> QED
    BY <1>1, <1>3, <2>1, LeaveConnKeeps, KeptByAll
<1>4. ASSUME NEW d \in drafts, SendDraft(d) PROVE ClaimInv'
  <2>1. alive' = alive
    BY <1>4 DEF SendDraft
  <2> QED
    BY <1>1, <1>4, <2>1, SendDraftKeeps, KeptByAll
<1>5. ASSUME EndSession PROVE ClaimInv'
  <2>1. alive' = FALSE /\ lapses' = lapses
    BY <1>5 DEF EndSession
  <2> QED
    BY <1>1, <1>5, <2>1, EndSessionKeeps, KeptByAll
<1> QED
  BY <1>2, <1>3, <1>4, <1>5 DEF DaemonMoves

\* And each move of a process.
LEMMA ProcKeeps ==
  ASSUME ClaimInv, NEW c \in Procs, ProcMoves(c)
  PROVE  ClaimInv'
<1>1. ClaimTyped
  BY DEF ClaimInv
<1>2. alive' = alive /\ lapses \subseteq lapses'
  BY DEF ProcMoves, ReadNotice, Publish, ClosePane, AskToAdopt, HearAnswer, GiveUp, LoseConn, Die,
         Redial, Resync, Lapse
<1>3. ClaimTyped' /\ \A e \in Procs : Kept(e)
  BY <1>1, ReadNoticeKeeps, PublishKeeps, ClosePaneKeeps, AskToAdoptKeeps, HearAnswerKeeps,
     GiveUpKeeps, LoseConnKeeps, DieKeeps, RedialKeeps, ResyncKeeps DEF ProcMoves
<1> QED
  BY <1>2, <1>3, KeptByAll

\* The invariant that the theorems below follow from.
LEMMA ClaimInvHolds == ClaimSpec => []ClaimInv
<1>1. ClaimInv /\ [ClaimNext]_claimVars => ClaimInv'
  <2> SUFFICES ASSUME ClaimInv, [ClaimNext]_claimVars PROVE ClaimInv'
    OBVIOUS
  <2>1. CASE DaemonMoves
    BY <2>1, DaemonKeeps
  <2>2. CASE \E c \in Procs : ProcMoves(c)
    BY <2>2, ProcKeeps
  <2>3. CASE UNCHANGED claimVars
    <3>1. \A c \in Procs : Kept(c)
      BY <2>3 DEF claimVars, Kept, ThereFor, TableFor, PublishedFor, AnswerFor, UnpublishedFor,
                  Connected, Queue
    <3>2. ClaimTyped'
      BY <2>3 DEF claimVars, ClaimInv, ClaimTyped, ClaimDataTyped, Opened, ConnsApart, WindowsApart,
                  InUse, Connected
    <3> QED
      BY <2>3, <3>1, <3>2, KeptByAll DEF claimVars
  <2> QED
    BY <2>1, <2>2, <2>3 DEF ClaimNext
<1> QED
  BY <1>1, ClaimStarts, PTL DEF ClaimSpec

\* The types of the claim table and its processes; what is claimed over a live link is
\* not about to be given up.
THEOREM ClaimTypes == ClaimSpec => []ClaimTypeOK
<1>1. ClaimInv => ClaimTypeOK
  <2> SUFFICES ASSUME ClaimInv PROVE ClaimTypeOK
    OBVIOUS
  <2>1. ClaimDataTyped /\ Opened /\ ConnsApart
    BY DEF ClaimInv, ClaimTyped
  <2>2. \A n \in Conns \cup {Nobody} : n <= minted => n \in 0 .. minted
    BY <2>1 DEF ClaimDataTyped, Conns, Nobody
  <2>3. \A n \in Conns : n <= minted => n \in 1 .. minted
    BY <2>1 DEF ClaimDataTyped, Conns
  <2>4. gated \subseteq 1 .. minted /\ closing \subseteq 1 .. minted
    BY <2>1, <2>3 DEF ClaimDataTyped, Opened
  <2>5. link \in [Procs -> [id : 1 .. minted, is : {"up", "down", "syncing", "reclaiming", "dead"}]]
    BY <2>1, <2>3 DEF ClaimDataTyped, Opened, Link
  <2>6. table \in [Procs -> 0 .. minted]
    BY <2>1, <2>2 DEF ClaimDataTyped, Opened
  <2>7. \A c \in Procs : \A i \in 1 .. Len(notices[c]) : notices[c][i] \in 0 .. minted
    <3> SUFFICES ASSUME NEW c \in Procs, NEW i \in 1 .. Len(notices[c])
                 PROVE  notices[c][i] \in 0 .. minted
      OBVIOUS
    <3>1. notices[c] \in Seq(Conns \cup {Nobody})
      BY <2>1 DEF ClaimDataTyped
    <3>2. i \in DOMAIN notices[c] /\ notices[c][i] \in Conns \cup {Nobody}
      BY <3>1
    <3> QED
      BY <2>1, <2>2, <3>2 DEF Opened
  <2>8. \A c \in Procs : \A i \in 1 .. Len(replies[c]) : replies[c][i] \in [to : Requests, is : Answers]
    <3> SUFFICES ASSUME NEW c \in Procs, NEW i \in 1 .. Len(replies[c]) PROVE replies[c][i] \in Reply
      BY DEF Reply
    <3>1. replies[c] \in Seq(Reply)
      BY <2>1 DEF ClaimDataTyped
    <3> QED
      BY <3>1
  <2>9. \A k \in Conns : \A i \in 1 .. Len(requests[k]) : requests[k][i] \in Requests
    BY <2>1 DEF ClaimDataTyped
  <2>10. \A d \in drafts : d \in [by : Conns \cup {Pump}, owner : Conns \cup {Nobody}]
    BY <2>1 DEF ClaimDataTyped, Copy
  <2>11. \A c \in Procs : owner # link[c].id \/ owner \notin closing \/ link[c].is # "up"
    BY <2>1 DEF ConnsApart, Connected
  <2> QED
    BY <2>1, <2>4, <2>5, <2>6, <2>7, <2>8, <2>9, <2>10, <2>11 DEF ClaimTypeOK, ClaimDataTyped, ConnsApart
<1> QED
  BY <1>1, ClaimInvHolds, PTL

\* When everything has settled, a process is up or dead, and a dead one has nothing.
LEMMA RestMeans ==
  ASSUME ClaimTyped, AtRest, NEW c \in Procs
  PROVE  /\ link[c].is \in {"up", "dead"} /\ (link[c].is = "up" <=> Connected(c))
         /\ Queue(c) = <<>> /\ notices[c] = <<>> /\ c \notin asking
         /\ c \in shows => Connected(c) /\ c \in published
BY Basics DEF AtRest, ClaimTyped, WindowsApart, Connected

\* For any number of processes: once everything has settled, each that is connected takes
\* the session to be owned by who owns it (broadcast_claims, forward_broadcasts).
THEOREM TablesFollow == ClaimSpec => []TablesAgree
<1>1. ClaimInv => TablesAgree
  <2> SUFFICES ASSUME ClaimInv, AtRest, lapses \cap {"outrun", "dropped"} = {},
                      NEW c \in Procs, link[c].is = "up"
               PROVE  table[c] = owner
    BY DEF TablesAgree
  <2>1. ClaimTyped /\ TableFor(c)
    BY DEF ClaimInv, TableInv, InStep
  <2>2. Queue(c) = <<>> /\ notices[c] = <<>> /\ Connected(c) /\ drafts = {}
    BY <2>1, RestMeans DEF AtRest
  <2> QED
    BY <2>1, <2>2, HasNone DEF TableFor, LastOf
<1> QED
  BY <1>1, ClaimInvHolds, PTL

\* For any number of processes: once everything has settled the session is shown by one
\* of them at most, unless a claim was refused that nobody waits for, or was not made
\* again after a reconnect (ClaimTable, publish_window_claims).
THEOREM NeverShownTwice == ClaimSpec => []ShownOnce
<1>1. ClaimInv => ShownOnce
  <2> SUFFICES ASSUME ClaimInv, AtRest, alive, lapses \cap {"refused", "mistold"} = {}
               PROVE  Cardinality(shows) <= 1
    BY DEF ShownOnce
  <2>1. ClaimTyped /\ shows \subseteq Procs
    BY DEF ClaimInv, ClaimTyped, ClaimDataTyped
  <2>2. \A c \in shows : owner = link[c].id
    <3> SUFFICES ASSUME NEW c \in shows PROVE owner = link[c].id
      OBVIOUS
    <3>1. c \in Procs /\ PublishedFor(c)
      BY <2>1 DEF ClaimInv, PublishedInv, Heeded
    <3>2. c \in published /\ link[c].is = "up" /\ Queue(c) = <<>>
      BY <2>1, <3>1, RestMeans
    <3> QED
      BY <3>1, <3>2, HasNone DEF PublishedFor
  <2>3. \A c, e \in shows : c = e
    BY <2>1, <2>2, Basics
  <2>4. CASE shows = {}
    BY <2>4, FS_EmptySet
  <2>5. CASE shows # {}
    <3>1. PICK c \in shows : TRUE
      BY <2>5
    <3>2. shows = {c}
      BY <2>3, <3>1
    <3>3. Cardinality({c}) = 1
      BY FS_Singleton
    <3> QED
      BY <3>2, <3>3
  <2> QED
    BY <2>4, <2>5
<1> QED
  BY <1>1, ClaimInvHolds, PTL

\* For any number of processes: once everything has settled the claim is that of the
\* process that shows the session, and nobody's when none does (ConnGuard, Release).
THEOREM ClaimFollowsWindow == ClaimSpec => []ClaimIsOfItsWindow
<1>1. ClaimInv => ClaimIsOfItsWindow
  <2> SUFFICES ASSUME ClaimInv, AtRest, alive, lapses \subseteq {"outrun", "dropped"}
               PROVE  owner \in {link[c].id : c \in shows} \cup {k \in {Nobody} : shows = {}}
    BY DEF ClaimIsOfItsWindow
  <2>1. ClaimTyped /\ shows \subseteq Procs /\ owner \in Conns \cup {Nobody}
    BY DEF ClaimInv, ClaimTyped, ClaimDataTyped
  <2>2. \A c \in Procs : PublishedFor(c) /\ AnswerFor(c) /\ UnpublishedFor(c)
    BY DEF ClaimInv, PublishedInv, AnswerInv, UnpublishedInv, Heeded, Heard, Tidy
  <2>3. CASE shows # {}
    <3>1. PICK c \in shows : c \in Procs
      BY <2>1, <2>3
    <3>2. c \in published /\ link[c].is = "up" /\ Queue(c) = <<>>
      BY <2>1, <3>1, RestMeans
    <3>3. owner = link[c].id
      BY <2>2, <3>1, <3>2, HasNone DEF PublishedFor
    <3> QED
      BY <3>1, <3>3
  <2>4. CASE shows = {}
    <3>1. owner = Nobody
      <4> SUFFICES ASSUME owner \in Conns PROVE FALSE
        BY <2>1
      <4>1. PICK c \in Procs : Connected(c) /\ link[c].id = owner
        BY <2>1 DEF ClaimTyped, ConnsApart, InUse, AtRest
      <4>2. c \notin published /\ Queue(c) = <<>> /\ c \notin asking
        BY <2>1, <2>4, RestMeans DEF AtRest
      <4>3. ~Has(replies[c], ToAdopt)
        BY <2>2, <4>1, <4>2 DEF AnswerFor
      <4>4. ~Has(replies[c], GrantedIt)
        BY <4>3 DEF Has, ToAdopt, GrantedIt, Answers
      <4> QED
        BY <2>2, <2>4, <4>1, <4>2, <4>4, HasNone DEF UnpublishedFor
    <3> QED
      BY <2>4, <3>1
  <2> QED
    BY <2>3, <2>4
<1> QED
  BY <1>1, ClaimInvHolds, PTL
=============================================================================
