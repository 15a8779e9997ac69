----------------------------- MODULE ClaimTable -----------------------------
(***************************************************************************)
(* Who shows a session: the claim table of the session daemon              *)
(* (core/src/session/claims.rs, daemon.rs), the processes of windows that  *)
(* announce, ask for and give up a claim (daemon_client.rs, app/src/       *)
(* leftpanel.rs), and the table each of them is sent.  One session; the    *)
(* threads of the daemon change the table and send a copy of it in two     *)
(* steps; a process loses its connection, dials again, or dies.            *)
(***************************************************************************)
EXTENDS Integers, Sequences, FiniteSets

CONSTANTS
  Procs,       \* the processes with windows: 1 .. their number
  LastConn,    \* bound: the last connection that is opened
  MaxMoves     \* bound: what users, processes and sockets do of themselves

ASSUME ClaimAssumption ==
  /\ {LastConn, MaxMoves} \subseteq Nat
  /\ Procs = 1 .. Cardinality(Procs) /\ 1 \in Procs /\ Procs \subseteq 1 .. LastConn

VARIABLES
  owner,       \* the connection that holds the claim, or Nobody
  minted,      \* next_conn - 1
  alive,       \* whether the daemon has the session
  requests,    \* what each connection has sent and its thread has not read
  gated,       \* the connections that have said Hello: notices_on
  drafts,      \* copies of the table that a thread has taken and not yet sent
  closing,     \* the connections at their end whose thread has not left
  link,        \* each process: the connection it had last, and its state
  replies,     \* answers on their way to each process
  notices,     \* copies of the table on their way to each process
  table,       \* what each process takes for the owner
  shows,       \* the processes that show the session in a pane
  published,   \* those of which the last publish said so
  asking,      \* the processes that wait for the answer to an adoption
  moves,       \* how many moves have been made
  lapses       \* history: what has gone wrong between claim and window

claimVars == <<owner, minted, alive, requests, gated, drafts, closing, link,
               replies, notices, table, shows, published, asking, moves, lapses>>

daemonVars == <<minted, alive, gated, closing>>
windowVars == <<shows, published, asking>>

Conns == 1 .. LastConn
Nobody == 0
Pump == 0      \* the thread of the daemon that handles the ends of sessions

\* refused     a claim was denied that nobody waits for
\* mistold     what is claimed after a reconnect is not what was published last
\* abandoned   an adoption was given up, after SCREEN_TIMEOUT or with its connection
\* unpublished an adopted pane was closed before the next publish
\* misread     the answer to an announcement was taken for that to an adoption
\* outrun      a copy of the table was sent after a newer one
\* dropped     a copy of the table found the queue of a connection full
ClaimLapses == {"refused", "mistold", "abandoned", "unpublished", "misread",
                "outrun", "dropped"}

Requests == {"hello", "list", "announce", "adopt", "release"}
Answers  == {"granted", "denied", "there", "missing"}

ClaimTypeOK ==
  /\ owner \in Conns \cup {Nobody} /\ minted \in Conns /\ alive \in BOOLEAN
  /\ \A k \in Conns : \A i \in 1 .. Len(requests[k]) : requests[k][i] \in Requests
  /\ gated \subseteq 1 .. minted /\ closing \subseteq 1 .. minted
  /\ \A d \in drafts : d \in [by : Conns \cup {Pump}, owner : Conns \cup {Nobody}]
  /\ \A d, e \in drafts : d.by = e.by => d = e
  /\ link \in [Procs -> [id : 1 .. minted,
                         is : {"up", "down", "syncing", "reclaiming", "dead"}]]
  /\ \A c \in Procs : \A i \in 1 .. Len(replies[c]) :
       replies[c][i] \in [to : Requests, is : Answers]
  /\ \A c \in Procs : \A i \in 1 .. Len(notices[c]) : notices[c][i] \in 0 .. minted
  /\ table \in [Procs -> 0 .. minted]
  /\ shows \subseteq Procs /\ published \subseteq Procs /\ asking \subseteq Procs
  /\ \A c \in Procs : owner # link[c].id \/ owner \notin closing \/ link[c].is # "up"
  /\ moves \in 0 .. MaxMoves /\ lapses \subseteq ClaimLapses

\* Process 1 has just created the session in a pane of its own, or a process
\* that is no more has left it.
ClaimInit ==
  /\ owner = Nobody /\ minted = Cardinality(Procs) /\ alive = TRUE
  /\ requests = [k \in Conns |-> <<>>]
  /\ gated = Procs /\ drafts = {} /\ closing = {}
  /\ link = [c \in Procs |-> [id |-> c, is |-> "up"]]
  /\ replies = [c \in Procs |-> <<>>] /\ notices = [c \in Procs |-> <<>>]
  /\ table = [c \in Procs |-> Nobody]
  /\ shows \in {{1}, {}} /\ published = {} /\ asking = {}
  /\ moves = 0 /\ lapses = {}

Lapse(names) == lapses' = lapses \cup names

Connected(c) == link[c].is \in {"up", "syncing", "reclaiming"}

Move == moves < MaxMoves /\ moves' = moves + 1

-----------------------------------------------------------------------------
(* The daemon.                                                             *)

\* Slip: a thread takes its next request before it has sent the copy.
BusyNever(thread) == FALSE

\* A thread sends its copy before it reads on.
Busy(thread) == \E d \in drafts : d.by = thread

\* broadcast_claims, first half: the copy is taken under the lock of the table.
Draft(thread, new) == drafts' = drafts \cup {[by |-> thread, owner |-> new]}

\* Slip: a claim is granted to whoever asks.
ClaimedAnyway(k) == k

ClaimedBy(k) == IF owner = Nobody THEN k ELSE owner

\* Slip: whoever releases frees the session.
ReleasedAnyway(k) == Nobody

ReleasedBy(k) == IF owner = k THEN Nobody ELSE owner

\* The process at the other end, as long as it is there.
AnswerTo(k, to, is) ==
  replies' = [c \in Procs |->
                IF link[c].id = k /\ Connected(c)
                THEN Append(replies[c], [to |-> to, is |-> is]) ELSE replies[c]]

\* Slip: a new connection is sent the table only when it changes.
SeededLater(k) == UNCHANGED drafts

Seeded(k) == Draft(k, owner)

\* The gate is opened first, and the seed goes to everyone.
ReadHello(k) ==
  /\ Head(requests[k]) = "hello"
  /\ gated' = gated \cup {k}
  /\ Seeded(k)
  /\ UNCHANGED <<owner, replies, lapses>>

ReadList(k) ==
  /\ Head(requests[k]) = "list"
  /\ AnswerTo(k, "list", IF alive THEN "there" ELSE "missing")
  /\ UNCHANGED <<owner, gated, drafts, lapses>>

\* Claim: whether there is such a session is not looked at.
ReadClaim(k) ==
  /\ Head(requests[k]) \in {"announce", "adopt"}
  /\ owner' = ClaimedBy(k)
  /\ IF owner' = k
     THEN /\ AnswerTo(k, Head(requests[k]), "granted")
          /\ Draft(k, k)
          /\ UNCHANGED lapses
     ELSE /\ AnswerTo(k, Head(requests[k]), "denied")
          /\ Lapse({m \in {"refused"} : Head(requests[k]) = "announce"})
          /\ UNCHANGED drafts
  /\ UNCHANGED gated

ReadRelease(k) ==
  /\ Head(requests[k]) = "release"
  /\ owner' = ReleasedBy(k)
  /\ IF owner' # owner THEN Draft(k, owner') ELSE UNCHANGED drafts
  /\ UNCHANGED <<gated, replies, lapses>>

\* handle_connection and dispatch.
ReadRequest(k) ==
  /\ requests[k] # <<>> /\ ~Busy(k)
  /\ ReadHello(k) \/ ReadList(k) \/ ReadClaim(k) \/ ReadRelease(k)
  /\ requests' = [requests EXCEPT ![k] = Tail(@)]
  /\ UNCHANGED <<minted, alive, closing, link, notices, table, shows, published,
                 asking, moves>>

\* ConnGuard, after the last request that could be read.
LeaveConn(k) ==
  /\ k \in closing /\ requests[k] = <<>> /\ ~Busy(k)
  /\ owner' = ReleasedBy(k)
  /\ IF owner' # owner THEN Draft(k, owner') ELSE UNCHANGED drafts
  /\ closing' = closing \ {k}
  /\ UNCHANGED <<minted, alive, requests, gated, link, replies, notices, table,
                 shows, published, asking, moves, lapses>>

\* The session exits; the pump forgets its claim.
EndSession ==
  /\ alive /\ ~Busy(Pump)
  /\ Move
  /\ alive' = FALSE
  /\ owner' = Nobody
  /\ IF owner # Nobody THEN Draft(Pump, Nobody) ELSE UNCHANGED drafts
  /\ UNCHANGED <<minted, requests, gated, closing, link, replies, notices, table,
                 shows, published, asking, lapses>>

Listening == {c \in Procs : Connected(c) /\ link[c].id \in gated}

\* A newer copy has been sent already, and none is to follow.
Outruns(d) == d.owner # owner /\ \A e \in drafts \ {d} : e.owner # owner

\* The processes one of whose queues may be full: one copy is dropped at most.
Lagging == IF "dropped" \in lapses THEN {} ELSE Listening

\* broadcast_claims, second half, and what forward_broadcasts makes of it.
SendDraft(d) ==
  /\ \E full \in {{}} \cup {{c} : c \in Lagging} :
       /\ notices' = [c \in Procs |-> IF c \in Listening \ full
                                      THEN Append(notices[c], d.owner) ELSE notices[c]]
       /\ Lapse({m \in {"dropped"} : full # {}} \cup {m \in {"outrun"} : Outruns(d)})
  /\ drafts' = drafts \ {d}
  /\ UNCHANGED <<owner, minted, alive, requests, gated, closing, link, replies,
                 table, shows, published, asking, moves>>

-----------------------------------------------------------------------------
(* A process.                                                              *)

\* reader_loop, Claims: the table is replaced.
ReadNotice(c) ==
  /\ Connected(c) /\ notices[c] # <<>>
  /\ table' = [table EXCEPT ![c] = Head(notices[c])]
  /\ notices' = [notices EXCEPT ![c] = Tail(@)]
  /\ UNCHANGED <<owner, minted, alive, requests, gated, drafts, closing, link,
                 replies, shows, published, asking, moves, lapses>>

Sent(c, request) ==
  IF Connected(c) THEN [requests EXCEPT ![link[c].id] = Append(@, request)]
  ELSE requests

\* publish_window_claims: only the difference from the last time is sent, and
\* whether it could be sent is not looked at.
Publish(c) ==
  /\ (c \in shows) # (c \in published)
  /\ c \notin asking /\ link[c].is # "dead"
  /\ requests' = Sent(c, IF c \in shows THEN "announce" ELSE "release")
  /\ published' = IF c \in shows THEN published \cup {c} ELSE published \ {c}
  /\ UNCHANGED <<owner, minted, alive, gated, drafts, closing, link, replies,
                 notices, table, shows, asking, moves, lapses>>

\* The pane is closed and its session left alone, or it has ended.
ClosePane(c) ==
  /\ c \in shows \ asking
  /\ IF alive THEN Move ELSE UNCHANGED moves
  /\ shows' = shows \ {c}
  /\ Lapse({m \in {"unpublished"} : c \notin published /\ owner = link[c].id})
  /\ UNCHANGED <<owner, minted, alive, requests, gated, drafts, closing, link,
                 replies, notices, table, published, asking>>

\* adopt_detached_session and request: the answers that have arrived are
\* drained.  The row that was clicked may be older than the table.
AskToAdopt(c) ==
  /\ c \notin shows \cup asking
  /\ Connected(c) /\ alive
  /\ Move
  /\ asking' = asking \cup {c}
  /\ requests' = Sent(c, "adopt")
  /\ \E n \in IF link[c].is = "up" THEN 0 .. Len(replies[c]) ELSE {0} :
       replies' = [replies EXCEPT ![c] = SubSeq(@, n + 1, Len(@))]
  /\ UNCHANGED <<owner, minted, alive, gated, drafts, closing, link, notices,
                 table, shows, published, lapses>>

\* Any ClaimResult for the session is taken for the answer.
HearAnswer(c) ==
  /\ c \in asking /\ replies[c] # <<>> /\ Head(replies[c]).to # "list"
  /\ shows' = IF Head(replies[c]).is = "granted" THEN shows \cup {c} ELSE shows
  /\ asking' = asking \ {c}
  /\ replies' = [replies EXCEPT ![c] = Tail(@)]
  /\ Lapse({m \in {"misread"} : Head(replies[c]).to # "adopt"})
  /\ UNCHANGED <<owner, minted, alive, requests, gated, drafts, closing, link,
                 notices, table, published, moves>>

GiveUp(c) ==
  /\ c \in asking
  /\ asking' = asking \ {c}
  /\ Lapse({"abandoned"})
  /\ UNCHANGED <<owner, minted, alive, requests, gated, drafts, closing, link,
                 replies, notices, table, shows, published, moves>>

-----------------------------------------------------------------------------
(* Connections.                                                            *)

\* The socket closes; what had been written may still be read.
Cut(c, state) ==
  /\ link' = [link EXCEPT ![c].is = state]
  /\ closing' = closing \cup {link[c].id}
  /\ \E read \in {requests[link[c].id], <<>>} :
       requests' = [requests EXCEPT ![link[c].id] = read]
  /\ replies' = [replies EXCEPT ![c] = <<>>]
  /\ notices' = [notices EXCEPT ![c] = <<>>]
  /\ asking' = asking \ {c}

LoseConn(c) ==
  /\ Connected(c)
  /\ Move
  /\ Cut(c, "down")
  /\ Lapse({m \in {"abandoned"} : c \in asking})
  /\ UNCHANGED <<owner, minted, alive, gated, drafts, table, shows, published>>

Die(c) ==
  /\ Connected(c)
  /\ Move
  /\ Cut(c, "dead")
  /\ shows' = shows \ {c}
  /\ published' = published \ {c}
  /\ UNCHANGED <<owner, minted, alive, gated, drafts, table, lapses>>

\* reconnect: what was claimed is told by the table, under the old connection.
Owned(c) == table[c] = link[c].id

\* reconnect and adopt.
Redial(c) ==
  /\ link[c].is = "down" /\ minted < LastConn
  /\ minted' = minted + 1
  /\ link' = [link EXCEPT ![c] = [id |-> minted', is |-> IF Owned(c) THEN "reclaiming"
                                                       ELSE "syncing"]]
  /\ requests' = [requests EXCEPT ![minted'] = <<"hello", "list">>]
  /\ UNCHANGED <<owner, alive, gated, drafts, closing, replies, notices, table,
                 shows, published, asking, moves, lapses>>

\* resync, when the answer to ListSessions is there.
Resync(c) ==
  /\ link[c].is \in {"syncing", "reclaiming"}
  /\ replies[c] # <<>> /\ Head(replies[c]).to = "list"
  /\ requests' = IF link[c].is = "reclaiming" /\ Head(replies[c]).is = "there"
                 THEN Sent(c, "announce") ELSE requests
  /\ link' = [link EXCEPT ![c].is = "up"]
  /\ replies' = [replies EXCEPT ![c] = Tail(@)]
  /\ Lapse({m \in {"mistold"} : (c \in published) # (link[c].is = "reclaiming")})
  /\ UNCHANGED <<owner, minted, alive, gated, drafts, closing, notices, table,
                 shows, published, asking, moves>>

-----------------------------------------------------------------------------

DaemonMoves ==
  \/ \E k \in Conns : ReadRequest(k) \/ LeaveConn(k)
  \/ \E d \in drafts : SendDraft(d)
  \/ EndSession

ProcMoves(c) ==
  \/ ReadNotice(c) \/ Publish(c) \/ ClosePane(c)
  \/ AskToAdopt(c) \/ HearAnswer(c) \/ GiveUp(c)
  \/ LoseConn(c) \/ Die(c) \/ Redial(c) \/ Resync(c)

ClaimNext == DaemonMoves \/ \E c \in Procs : ProcMoves(c)

ClaimSpec == ClaimInit /\ [][ClaimNext]_claimVars

-----------------------------------------------------------------------------

\* Nothing is under way between the daemon and the processes.
AtRest ==
  /\ \A k \in Conns : requests[k] = <<>>
  /\ drafts = {} /\ closing = {} /\ asking = {}
  /\ \A c \in Procs : link[c].is \in {"up", "dead"} /\ notices[c] = <<>>
  /\ published = shows

\* When everything has settled no two processes show the session, unless a claim
\* that nobody waits for was refused, or not made again after a reconnect.
ShownOnce ==
  AtRest /\ alive /\ lapses \cap {"refused", "mistold"} = {}
    => Cardinality(shows) <= 1

\* When everything has settled the claim on a session is that of the process
\* that shows it, and free when none does: the claim of a process that died, or
\* lost its connection, is gone with it.
ClaimIsOfItsWindow ==
  AtRest /\ alive /\ lapses \subseteq {"outrun", "dropped"} =>
    owner \in {link[c].id : c \in shows} \cup {k \in {Nobody} : shows = {}}

\* When everything has settled each process knows the owner, unless a copy of
\* the table was outrun or dropped.
TablesAgree ==
  AtRest /\ lapses \cap {"outrun", "dropped"} = {} =>
    \A c \in Procs : link[c].is = "up" => table[c] = owner
=============================================================================
