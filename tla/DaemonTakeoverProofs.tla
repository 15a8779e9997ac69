------------------------- MODULE DaemonTakeoverProofs -------------------------
(***************************************************************************)
(* Proofs about the upgrade of the daemon, for any number of daemons and   *)
(* sessions.  Whatever the environment does, a session is lost only with   *)
(* a process that a known disturbance has met.  While no time budget runs  *)
(* out on a peer that is still at work, a session is driven by one         *)
(* process; and with one successor and no user who kills the daemon, the   *)
(* socket path leads to every daemon that serves.  Crashes, races,         *)
(* descriptors and execs that fail and clients are in all three.           *)
(***************************************************************************)
EXTENDS DaemonTakeover, FiniteSetTheorems, TLAPS

-----------------------------------------------------------------------------
(* The invariant.                                                          *)

\* What d drives, has received, or is going to be sent while it reads.
Incoming(d) ==
  registry[d] \cup inherited[d]
  \cup (IF pc[d] = "receiving" THEN link[d].todo \cup UNION link[d].inbox ELSE {})

Born == {s \in Sessions : session[s] # "unborn"}

\* Only a process that serves drives sessions or has handed some off, and it
\* has adopted all it received.
OnlyServersDrive ==
  \A p \in Daemons :
    IF Serving(p) THEN inherited[p] = {} ELSE registry[p] = {} /\ drained[p] = {}

\* A connection has a daemon at its other end.
PeersAreDaemons ==
  \A d \in Daemons :
    link[d].stage # "none" \/ pc[d] = "receiving" => link[d].peer \in Daemons

TypeInv == TypeOK /\ OnlyServersDrive /\ PeersAreDaemons

\* One that asked a daemon reads on until that daemon is gone.
AskersWait ==
  \A d \in Daemons :
    link[d].stage # "none" =>
      pc[d] \in {"receiving"} \cup Gone \/ pc[link[d].peer] \in Gone

\* A master that one process has handed off and not closed can be with another
\* only if that other one asked it, and reads on or is gone.
HandedOffToReaders ==
  \A p, d \in Daemons :
    p # d /\ drained[p] \cap Incoming(d) # {} =>
      link[d].peer = p /\ pc[d] \in {"receiving"} \cup Gone

\* A session is on its way to one process only.
IncomingDisjoint ==
  \A d, e \in Daemons : d # e => Incoming(d) \cap Incoming(e) = {}

\* Sessions that were not created yet are nowhere.
UnbornNowhere == \A d \in Daemons : Incoming(d) \cup drained[d] \subseteq Born

IInv ==
  /\ TypeInv
  /\ AskersWait
  /\ HandedOffToReaders
  /\ IncomingDisjoint
  /\ UnbornNowhere

-----------------------------------------------------------------------------
(* Types.                                                                  *)

\* A process that leaves keeps every variable in its type.
LEMMA LeavesType ==
  ASSUME TypeOK, NEW p \in Daemons, NEW how \in Gone, Leaves(p, how)
  PROVE  /\ pc' \in [Daemons -> Pcs]
         /\ flock' \in Daemons \cup {Nobody}
         /\ registry' \in [Daemons -> SUBSET Sessions]
         /\ drained' \in [Daemons -> SUBSET Sessions]
         /\ inherited' \in [Daemons -> SUBSET Sessions]
  BY DEF TypeOK, Leaves, Pcs

\* The daemon that clients reach is one of the daemons, and it serves.
LEMMA ListenerServes ==
  ASSUME TypeOK, Listener # Nobody
  PROVE  Listener \in Daemons /\ Serving(Listener)
  BY DEF TypeOK, Listener, Serving

\* What becomes of a connection when its two ends move.
LEMMA ReadLink ==
  ASSUME NEW l \in Links, NEW batch \in l.inbox
  PROVE  LET r == [l EXCEPT !.inbox = @ \ {batch}, !.heard = TRUE]
         IN  /\ r \in Links
             /\ r.peer = l.peer /\ r.stage = l.stage /\ r.todo = l.todo
             /\ r.inbox = l.inbox \ {batch}
  BY DEF Links

LEMMA HandedLink ==
  ASSUME NEW l \in Links, NEW todo \in SUBSET Sessions
  PROVE  LET r == [l EXCEPT !.stage = "sending", !.todo = todo]
         IN  /\ r \in Links
             /\ r.peer = l.peer /\ r.stage = "sending" /\ r.todo = todo
             /\ r.inbox = l.inbox
  BY DEF Links

LEMMA SentLink ==
  ASSUME NEW l \in Links, NEW batch \in SUBSET Sessions
  PROVE  LET r == [l EXCEPT !.todo = @ \ batch, !.inbox = @ \cup {batch},
                     !.stage = IF l.todo = batch THEN "sent" ELSE "sending"]
         IN  /\ r \in Links
             /\ r.peer = l.peer /\ r.stage # "none" /\ r.todo = l.todo \ batch
             /\ r.inbox = l.inbox \cup {batch}
<1>1. l.todo \ batch \in SUBSET Sessions
  BY DEF Links
<1>2. l.inbox \cup {batch} \in SUBSET SUBSET Sessions
  BY DEF Links
<1> QED BY <1>1, <1>2 DEF Links

LEMMA StagedLink ==
  ASSUME NEW l \in Links, NEW stage \in {"broken", "parked"}
  PROVE  LET r == [l EXCEPT !.stage = stage]
         IN  /\ r \in Links
             /\ r.peer = l.peer /\ r.stage = stage /\ r.todo = l.todo
             /\ r.inbox = l.inbox
  BY DEF Links

LEMMA AskedLink ==
  ASSUME NEW p \in Daemons
  PROVE  LET r == [NoLink EXCEPT !.peer = p, !.stage = "asked"]
         IN  /\ r \in Links
             /\ r.peer = p /\ r.stage = "asked" /\ r.todo = {} /\ r.inbox = {}
  BY DEF Links, NoLink

\* The steps of a main thread keep the types.
LEMMA MainType ==
  ASSUME TypeInv, NEW d \in Daemons, MainStep(d)
  PROVE  TypeOK'
<1> USE DEF TypeOK, TypeInv
<1>1. CASE TryLock(d)
  BY <1>1 DEF TryLock, Pcs, Starting
<1>2. CASE Probe(d)
  <2>1. CASE Leaves(d, "exited")
    BY <1>2, <2>1, LeavesType DEF Probe, Gone
  <2>2. CASE ~Leaves(d, "exited")
    BY <1>2, <2>2 DEF Probe, Pcs, Starting
  <2> QED BY <2>1, <2>2
<1>3. CASE Ask(d)
  <2>1. CASE Listener = Nobody
    BY <1>3, <2>1, LeavesType DEF Ask, Gone
  <2>2. CASE Listener # Nobody
    <3>1. [NoLink EXCEPT !.peer = Listener, !.stage = "asked"] \in Links
      BY <2>2, ListenerServes, AskedLink
    <3> QED BY <1>3, <2>2, <3>1, ListenerServes DEF Ask, Pcs, Starting
  <2> QED BY <2>1, <2>2
<1>4. CASE Recv(d)
  <2>1. PICK batch \in link[d].inbox :
          /\ link' = [link EXCEPT ![d].inbox = @ \ {batch}, ![d].heard = TRUE]
          /\ inherited' = [inherited EXCEPT ![d] = @ \cup batch]
    BY <1>4 DEF Recv
  <2>2. link[d] \in Links
    OBVIOUS
  <2>3. batch \subseteq Sessions
    BY <2>2 DEF Links
  <2> DEFINE read == [link[d] EXCEPT !.inbox = @ \ {batch}, !.heard = TRUE]
  <2>4. read \in Links
    BY <2>2, ReadLink
  <2>5. link' = [link EXCEPT ![d] = read]
    BY <2>1
  <2>6. UNCHANGED <<pc, flock, socket, registry, drained, teardown, unlinked,
                    session, verdicts, disturbed>>
    BY <1>4 DEF Recv
  <2>7. link' \in [Daemons -> Links]
    BY <2>4, <2>5
  <2>8. inherited' \in [Daemons -> SUBSET Sessions]
    BY <2>1, <2>3
  <2> QED BY <2>6, <2>7, <2>8
<1>5. CASE RecvEof(d) \/ RecvTimeout(d)
  <2>1. disturbed' \in SUBSET Daemons
    <3>1. CASE RecvEof(d)
      BY <3>1 DEF RecvEof
    <3>2. CASE RecvTimeout(d)
      BY <3>2 DEF RecvTimeout, StopReading, PeersAreDaemons
    <3> QED BY <1>5, <3>1, <3>2
  <2>2. StopReading(d)
    BY <1>5 DEF RecvEof, RecvTimeout
  <2>3. CASE link[d].heard
    BY <2>1, <2>2, <2>3 DEF StopReading, Pcs, Starting
  <2>4. CASE ~link[d].heard
    BY <2>1, <2>2, <2>4, LeavesType DEF StopReading, Gone
  <2> QED BY <2>3, <2>4
<1>6. CASE AcquireFlock(d)
  BY <1>6 DEF AcquireFlock, Pcs, Starting
<1>7. CASE LockTimeout(d)
  <2>1. CASE inherited[d] = {}
    BY <1>7, <2>1, LeavesType DEF LockTimeout, Gone
  <2>2. CASE inherited[d] # {}
    BY <1>7, <2>2 DEF LockTimeout, Pcs, Starting
  <2> QED BY <2>1, <2>2
<1>8. CASE Reap(d)
  BY <1>8 DEF Reap, Pcs, Starting
<1>9. CASE Bind(d)
  <2>1. PICK bad \in SUBSET (IF "descriptor" \in Events THEN inherited[d] ELSE {}) :
          /\ registry' = [registry EXCEPT ![d] = inherited[d] \ bad]
          /\ disturbed' = IF bad = {} THEN disturbed ELSE disturbed \cup {d}
    BY <1>9 DEF Bind
  <2> QED BY <1>9, <2>1 DEF Bind, Pcs
<1>10. CASE BindFails(d)
  <2>1. CASE inherited[d] = {}
    BY <1>10, <2>1, LeavesType DEF BindFails, Gone
  <2>2. CASE inherited[d] # {}
    BY <1>10, <2>2 DEF BindFails
  <2> QED BY <2>1, <2>2
<1> QED
  BY <1>1, <1>2, <1>3, <1>4, <1>5, <1>6, <1>7, <1>8, <1>9, <1>10 DEF MainStep

\* The steps of a hand-over keep the types.
LEMMA HandOverType ==
  ASSUME TypeInv, NEW d \in Daemons, HandOverStep(d)
  PROVE  TypeOK'
<1> USE DEF TypeOK, TypeInv
<1>1. link[d] \in Links
  OBVIOUS
<1>2. link[d].peer \in Daemons
  BY DEF PeersAreDaemons, HandOverStep, HandOff, SendBatch, SendFails, Retire
<1>3. CASE HandOff(d)
  <2> DEFINE handed ==
        [link[d] EXCEPT !.stage = "sending", !.todo = registry[link[d].peer]]
  <2>1. registry[link[d].peer] \in SUBSET Sessions
    BY <1>2
  <2>3. handed \in Links
    BY <1>1, <2>1, HandedLink
  <2>2. link' = [link EXCEPT ![d] = handed]
    BY <1>3 DEF HandOff
  <2> HIDE DEF handed
  <2>4. link' \in [Daemons -> Links]
    BY <2>2, <2>3
  <2>5. /\ registry' \in [Daemons -> SUBSET Sessions]
        /\ drained' \in [Daemons -> SUBSET Sessions]
    BY <1>2, <1>3, <2>1 DEF HandOff
  <2> QED BY <1>3, <2>4, <2>5 DEF HandOff
<1>4. CASE SendBatch(d)
  <2>1. PICK batch \in Batches(link[d].todo) :
          link' = [link EXCEPT ![d].todo = @ \ batch, ![d].inbox = @ \cup {batch},
                     ![d].stage = IF link[d].todo = batch THEN "sent" ELSE "sending"]
    BY <1>4 DEF SendBatch
  <2>2. batch \subseteq Sessions
    BY <1>1 DEF Batches, Links
  <2> DEFINE sent ==
        [link[d] EXCEPT !.todo = @ \ batch, !.inbox = @ \cup {batch},
           !.stage = IF link[d].todo = batch THEN "sent" ELSE "sending"]
  <2>3. sent \in Links
    BY <1>1, <2>2, SentLink
  <2>4. link' = [link EXCEPT ![d] = sent]
    BY <2>1
  <2> HIDE DEF sent
  <2> QED BY <1>4, <2>3, <2>4 DEF SendBatch
<1>5. CASE SendFails(d)
  <2>1. [link[d] EXCEPT !.stage = "broken"] \in Links
    BY <1>1, StagedLink
  <2>2. link' = [link EXCEPT ![d] = [link[d] EXCEPT !.stage = "broken"]]
    BY <1>5 DEF SendFails
  <2> QED BY <1>5, <2>1, <2>2 DEF SendFails
<1>6. CASE Retire(d)
  <2>1. [link[d] EXCEPT !.stage = "parked"] \in Links
    BY <1>1, StagedLink
  <2>2. \/ link' = [link EXCEPT ![d] = [link[d] EXCEPT !.stage = "parked"]] /\ UNCHANGED teardown
        \/ teardown' = [teardown EXCEPT ![link[d].peer] = "retired"] /\ UNCHANGED link
    BY <1>6 DEF Retire
  <2> QED BY <1>6, <2>1, <2>2 DEF Retire, Latched
<1> QED BY <1>3, <1>4, <1>5, <1>6 DEF HandOverStep

\* The steps of a process that is torn down, and its crash, keep the types.
LEMMA LeaveType ==
  ASSUME TypeOK, NEW p \in Daemons,
         LeaveStep(p) \/ IdleObserved(p) \/ IdleExit(p) \/ Crash(p)
  PROVE  TypeOK'
<1> USE DEF TypeOK
<1>1. CASE Unlink(p)
  BY <1>1 DEF Unlink
<1>2. CASE ExecLinger(p)
  <2>1. PICK how \in Gone : Leaves(p, how)
    BY <1>2 DEF ExecLinger, Gone
  <2> QED BY <1>2, <2>1, LeavesType DEF ExecLinger
<1>3. CASE Exit(p)
  BY <1>3, LeavesType DEF Exit, Gone
<1>4. CASE ServeReturns(p)
  BY <1>4, LeavesType DEF ServeReturns, Gone
<1>5. CASE IdleObserved(p)
  BY <1>5 DEF IdleObserved
<1>6. CASE IdleExit(p)
  BY <1>6 DEF IdleExit, Latched
<1>7. CASE Crash(p)
  <2>1. disturbed' \subseteq Daemons
    BY <1>7 DEF Crash, Links
  <2> QED BY <1>7, <2>1, LeavesType DEF Crash, Gone
<1> QED BY <1>1, <1>2, <1>3, <1>4, <1>5, <1>6, <1>7 DEF LeaveStep

\* A teardown keeps the types.
LEMMA ShutdownType ==
  ASSUME TypeOK, NEW p \in Daemons, NEW why \in Latched, Shutdown(p, why),
         verdicts' \in SUBSET {"empty", "refused"}
  PROVE  TypeOK'
<1> USE DEF TypeOK
<1>1. session' \in [Sessions -> {"unborn", "live", "ended"}]
  BY DEF Shutdown
<1>2. disturbed' \subseteq Daemons
  BY DEF Shutdown
<1> QED BY <1>1, <1>2 DEF Shutdown

\* The steps of clients keep the types.
LEMMA ClientType ==
  ASSUME TypeOK, ClientStep
  PROVE  TypeOK'
<1> USE DEF TypeOK
<1>1. ASSUME NEW d \in Daemons, Spawn(d) PROVE TypeOK'
  BY <1>1 DEF Spawn, Pcs, Starting
<1>2. ASSUME NEW p \in Daemons, NEW s \in Sessions, Create(p, s) PROVE TypeOK'
  BY <1>2 DEF Create
<1>3. ASSUME NEW p \in Daemons, NEW s \in Sessions, Kill(p, s) PROVE TypeOK'
  BY <1>3 DEF Kill
<1>4. CASE CountEmpty
  BY <1>4 DEF CountEmpty
<1>5. CASE TearDownStale
  <2>1. CASE Listener # Nobody /\ teardown[Listener] \notin Latched
    <3>1. Shutdown(Listener, "torn")
      BY <1>5, <2>1 DEF TearDownStale
    <3> QED BY <1>5, <2>1, <3>1, ListenerServes, ShutdownType DEF TearDownStale, Latched
  <2>2. CASE ~(Listener # Nobody /\ teardown[Listener] \notin Latched)
    BY <1>5, <2>2 DEF TearDownStale
  <2> QED BY <2>1, <2>2
<1>6. CASE KillDaemon
  <2>1. CASE Listener # Nobody
    <3>1. Shutdown(Listener, "asked") /\ UNCHANGED verdicts
      BY <1>6, <2>1 DEF KillDaemon
    <3> QED BY <2>1, <3>1, ListenerServes, ShutdownType DEF Latched
  <2>2. CASE Listener = Nobody
    BY <1>6, <2>2 DEF KillDaemon
  <2> QED BY <2>1, <2>2
<1>7. CASE SweepSocket
  BY <1>7 DEF SweepSocket
<1> QED BY <1>1, <1>2, <1>3, <1>4, <1>5, <1>6, <1>7 DEF ClientStep

\* Every step keeps the types.
LEMMA TypeKeeps == TypeInv /\ [Next]_vars => TypeOK'
<1> SUFFICES ASSUME TypeInv, [Next]_vars PROVE TypeOK'
  OBVIOUS
<1>1. TypeOK
  BY DEF TypeInv
<1>2. ASSUME NEW d \in Daemons, MainStep(d) PROVE TypeOK'
  BY <1>2, MainType
<1>3. ASSUME NEW d \in Daemons, HandOverStep(d) PROVE TypeOK'
  BY <1>3, HandOverType
<1>4. ASSUME NEW d \in Daemons,
             LeaveStep(d) \/ IdleObserved(d) \/ IdleExit(d) \/ Crash(d)
      PROVE  TypeOK'
  BY <1>1, <1>4, LeaveType
<1>5. CASE ClientStep
  BY <1>1, <1>5, ClientType
<1>6. CASE UNCHANGED vars
  BY <1>1, <1>6 DEF TypeOK, vars
<1> QED BY <1>2, <1>3, <1>4, <1>5, <1>6 DEF Next

-----------------------------------------------------------------------------
(* Steps that move no session to another process.                          *)

\* Most steps: no connection gets another end or begins, nothing is added to
\* what a process drives or will be sent, nobody starts or stops reading but
\* by leaving, nobody comes back.
Calm ==
  /\ \A d \in Daemons :
       /\ link'[d].peer = link[d].peer
       /\ link'[d].stage # "none" => link[d].stage # "none"
       /\ Incoming(d)' \subseteq Incoming(d)
       /\ drained'[d] \subseteq drained[d]
       /\ \/ pc'[d] = pc[d]
          \/ pc'[d] \in Gone
          \/ pc[d] \notin {"receiving"} \cup Gone /\ pc'[d] # "receiving"
  /\ \A s \in Sessions : session'[s] = "unborn" => session[s] = "unborn"
  /\ OnlyServersDrive'

\* A process that leaves takes what it drives with it.
LEMMA LeavesCalm ==
  ASSUME TypeInv, NEW p \in Daemons, NEW how \in Gone, Leaves(p, how),
         UNCHANGED <<link, session>>
  PROVE  Calm
<1>1. pc' = [pc EXCEPT ![p] = how]
  BY DEF Leaves
<1>2. \A d \in Daemons : pc'[d] = IF d = p THEN how ELSE pc[d]
  BY <1>1 DEF TypeInv, TypeOK
<1>3. \A d \in Daemons :
        /\ registry'[d] = IF d = p THEN {} ELSE registry[d]
        /\ drained'[d] = IF d = p THEN {} ELSE drained[d]
        /\ inherited'[d] = IF d = p THEN {} ELSE inherited[d]
  BY DEF Leaves, TypeInv, TypeOK
<1>4. \A d \in Daemons : Incoming(d)' \subseteq Incoming(d)
  BY <1>2, <1>3 DEF Incoming, Gone
<1>5. OnlyServersDrive'
  BY <1>2, <1>3 DEF OnlyServersDrive, Serving, TypeInv
<1> QED BY <1>2, <1>3, <1>4, <1>5 DEF Calm

\* The sessions stay where they are, and no process begins or ends to serve.
LEMMA StillCalm ==
  ASSUME TypeInv, UNCHANGED <<registry, drained, inherited, link, session>>,
         \A d \in Daemons :
           \/ pc'[d] = pc[d]
           \/ /\ pc[d] \notin {"receiving", "serving"} \cup Gone
              /\ pc'[d] \notin {"receiving", "serving"}
  PROVE  Calm
<1>1. \A d \in Daemons : Incoming(d)' = Incoming(d)
  BY DEF Incoming
<1>2. OnlyServersDrive'
  BY DEF OnlyServersDrive, Serving, TypeInv
<1> QED BY <1>1, <1>2 DEF Calm

\* The steps of a main thread are calm, but for those that begin and end the
\* reading.
LEMMA MainCalm ==
  ASSUME TypeInv, NEW d \in Daemons, MainStep(d)
  PROVE  Calm \/ Ask(d) \/ RecvEof(d) \/ RecvTimeout(d)
<1> USE DEF Gone
<1>0. pc \in [Daemons -> Pcs]
  BY DEF TypeInv, TypeOK
<1>1. CASE TryLock(d)
  BY <1>0, <1>1, StillCalm DEF TryLock
<1>2. CASE Probe(d)
  <2>1. CASE Leaves(d, "exited")
    BY <1>2, <2>1, LeavesCalm DEF Probe
  <2>2. CASE ~Leaves(d, "exited")
    BY <1>0, <1>2, <2>2, StillCalm DEF Probe
  <2> QED BY <2>1, <2>2
<1>3. CASE Recv(d)
  <2>1. PICK batch \in link[d].inbox :
          /\ link' = [link EXCEPT ![d].inbox = @ \ {batch}, ![d].heard = TRUE]
          /\ inherited' = [inherited EXCEPT ![d] = @ \cup batch]
    BY <1>3 DEF Recv
  <2> DEFINE read == [link[d] EXCEPT !.inbox = @ \ {batch}, !.heard = TRUE]
  <2>2. /\ read.peer = link[d].peer /\ read.stage = link[d].stage
        /\ read.todo = link[d].todo /\ read.inbox = link[d].inbox \ {batch}
    BY ReadLink DEF TypeInv, TypeOK
  <2>3. link' = [link EXCEPT ![d] = read]
    BY <2>1
  <2> HIDE DEF read
  <2>4. \A e \in Daemons : link'[e] = IF e = d THEN read ELSE link[e]
    BY <2>3 DEF TypeInv, TypeOK
  <2>5. \A e \in Daemons :
          inherited'[e] = IF e = d THEN inherited[d] \cup batch ELSE inherited[e]
    BY <2>1 DEF TypeInv, TypeOK
  <2>6. UNCHANGED <<pc, registry, drained, session>> /\ pc[d] = "receiving"
    BY <1>3 DEF Recv
  <2>7. \A e \in Daemons : Incoming(e)' \subseteq Incoming(e)
    <3>1. Incoming(d)' \subseteq Incoming(d)
      BY <2>2, <2>4, <2>5, <2>6 DEF Incoming
    <3>2. \A e \in Daemons \ {d} : Incoming(e)' = Incoming(e)
      BY <2>4, <2>5, <2>6 DEF Incoming
    <3> QED BY <3>1, <3>2
  <2>8. OnlyServersDrive'
    BY <2>5, <2>6 DEF OnlyServersDrive, Serving, TypeInv
  <2> QED BY <2>2, <2>4, <2>6, <2>7, <2>8 DEF Calm
<1>4. CASE RecvEof(d) \/ RecvTimeout(d)
  BY <1>4
<1>5. CASE AcquireFlock(d)
  BY <1>0, <1>5, StillCalm DEF AcquireFlock
<1>6. CASE LockTimeout(d)
  <2>1. CASE inherited[d] = {}
    BY <1>6, <2>1, LeavesCalm DEF LockTimeout
  <2>2. CASE inherited[d] # {}
    BY <1>0, <1>6, <2>2, StillCalm DEF LockTimeout
  <2> QED BY <2>1, <2>2
<1>7. CASE Reap(d)
  BY <1>0, <1>7, StillCalm DEF Reap
<1>8. CASE Bind(d)
  <2>1. \A e \in Daemons : pc'[e] = IF e = d THEN "serving" ELSE pc[e]
    BY <1>0, <1>8 DEF Bind
  <2>2. PICK bad : registry' = [registry EXCEPT ![d] = inherited[d] \ bad]
    BY <1>8 DEF Bind
  <2>3. \A e \in Daemons :
          /\ registry'[e] = IF e = d THEN inherited[d] \ bad ELSE registry[e]
          /\ inherited'[e] = IF e = d THEN {} ELSE inherited[e]
    BY <1>8, <2>2 DEF Bind, TypeInv, TypeOK
  <2>4. UNCHANGED <<drained, link, session>> /\ pc[d] = "binding"
    BY <1>8 DEF Bind
  <2>5. \A e \in Daemons : Incoming(e)' \subseteq Incoming(e)
    BY <2>1, <2>3, <2>4 DEF Incoming
  <2>6. OnlyServersDrive'
    BY <2>1, <2>3, <2>4 DEF OnlyServersDrive, Serving, TypeInv
  <2> QED BY <2>1, <2>4, <2>5, <2>6 DEF Calm
<1>9. CASE BindFails(d)
  <2>1. CASE inherited[d] = {}
    BY <1>9, <2>1, LeavesCalm DEF BindFails
  <2>2. CASE inherited[d] # {}
    BY <1>9, <2>2, StillCalm DEF BindFails
  <2> QED BY <2>1, <2>2
<1> QED
  BY <1>1, <1>2, <1>3, <1>4, <1>5, <1>6, <1>7, <1>8, <1>9 DEF MainStep

\* Only the hand-off itself moves sessions; its messages carry what it took.
LEMMA HandOverCalm ==
  ASSUME TypeInv, NEW d \in Daemons, HandOverStep(d)
  PROVE  Calm \/ HandOff(d)
<1>1. link \in [Daemons -> Links] /\ link[d] \in Links
  BY DEF TypeInv, TypeOK
<1>2. ASSUME UNCHANGED <<pc, registry, drained, inherited, session>>,
             NEW r, link' = [link EXCEPT ![d] = r],
             r.peer = link[d].peer, link[d].stage # "none",
             r.todo \cup UNION r.inbox \subseteq link[d].todo \cup UNION link[d].inbox
      PROVE  Calm
  <2>1. \A e \in Daemons : link'[e] = IF e = d THEN r ELSE link[e]
    BY <1>1, <1>2
  <2>2. \A e \in Daemons : Incoming(e)' \subseteq Incoming(e)
    BY <1>2, <2>1 DEF Incoming
  <2>3. OnlyServersDrive'
    BY <1>2 DEF OnlyServersDrive, Serving, TypeInv
  <2> QED BY <1>2, <2>1, <2>2, <2>3 DEF Calm
<1>3. CASE SendBatch(d)
  <2>1. PICK batch \in Batches(link[d].todo) :
          link' = [link EXCEPT ![d].todo = @ \ batch, ![d].inbox = @ \cup {batch},
                     ![d].stage = IF link[d].todo = batch THEN "sent" ELSE "sending"]
    BY <1>3 DEF SendBatch
  <2>2. batch \subseteq link[d].todo /\ batch \subseteq Sessions
    BY <1>1 DEF Batches, Links
  <2> DEFINE sent ==
        [link[d] EXCEPT !.todo = @ \ batch, !.inbox = @ \cup {batch},
           !.stage = IF link[d].todo = batch THEN "sent" ELSE "sending"]
  <2>3. /\ sent.peer = link[d].peer /\ sent.todo = link[d].todo \ batch
        /\ sent.inbox = link[d].inbox \cup {batch}
    BY <1>1, <2>2, SentLink
  <2>4. link' = [link EXCEPT ![d] = sent]
    BY <2>1
  <2> HIDE DEF sent
  <2>5. sent.todo \cup UNION sent.inbox \subseteq link[d].todo \cup UNION link[d].inbox
    BY <2>2, <2>3
  <2>6. UNCHANGED <<pc, registry, drained, inherited, session>> /\ link[d].stage # "none"
    BY <1>3 DEF SendBatch
  <2> QED BY <1>2, <2>3, <2>4, <2>5, <2>6
<1>4. CASE SendFails(d)
  <2> DEFINE broken == [link[d] EXCEPT !.stage = "broken"]
  <2>1. /\ broken.peer = link[d].peer /\ broken.todo = link[d].todo
        /\ broken.inbox = link[d].inbox
    BY <1>1, StagedLink
  <2>2. link' = [link EXCEPT ![d] = broken]
    BY <1>4 DEF SendFails
  <2> HIDE DEF broken
  <2>3. UNCHANGED <<pc, registry, drained, inherited, session>> /\ link[d].stage # "none"
    BY <1>4 DEF SendFails
  <2> QED BY <1>2, <2>1, <2>2, <2>3
<1>5. CASE Retire(d)
  <2>1. UNCHANGED <<pc, registry, drained, inherited, session>> /\ link[d].stage # "none"
    BY <1>5 DEF Retire
  <2> DEFINE parked == [link[d] EXCEPT !.stage = "parked"]
  <2>2. /\ parked.peer = link[d].peer /\ parked.todo = link[d].todo
        /\ parked.inbox = link[d].inbox
    BY <1>1, StagedLink
  <2>3. link' = [link EXCEPT ![d] = parked] \/ UNCHANGED link
    BY <1>5 DEF Retire
  <2> HIDE DEF parked
  <2>4. CASE link' = [link EXCEPT ![d] = parked]
    BY <1>2, <2>1, <2>2, <2>4
  <2>5. CASE UNCHANGED link
    BY <2>1, <2>5, StillCalm
  <2> QED BY <2>3, <2>4, <2>5
<1> QED BY <1>3, <1>4, <1>5 DEF HandOverStep

\* A process that is torn down or crashes is calm.
LEMMA LeaveCalm ==
  ASSUME TypeInv, NEW p \in Daemons,
         LeaveStep(p) \/ IdleObserved(p) \/ IdleExit(p) \/ Crash(p)
  PROVE  Calm
<1> USE DEF Gone
<1>1. CASE Unlink(p)
  BY <1>1, StillCalm DEF Unlink
<1>2. CASE ExecLinger(p) \/ Exit(p) \/ ServeReturns(p) \/ Crash(p)
  <2>1. UNCHANGED <<link, session>> /\ \E how \in Gone : Leaves(p, how)
    BY <1>2 DEF ExecLinger, Exit, ServeReturns, Crash
  <2> QED BY <2>1, LeavesCalm
<1>3. CASE IdleObserved(p) \/ IdleExit(p)
  BY <1>3, StillCalm DEF IdleObserved, IdleExit
<1> QED BY <1>1, <1>2, <1>3 DEF LeaveStep

\* A teardown and the end of a session take sessions away.
LEMMA EndingCalm ==
  ASSUME TypeInv, NEW p \in Daemons, NEW kept \in SUBSET registry[p],
         registry' = [registry EXCEPT ![p] = kept],
         \A s \in Sessions : session'[s] = "unborn" => session[s] = "unborn",
         UNCHANGED <<pc, drained, inherited, link>>
  PROVE  Calm
<1>1. \A e \in Daemons : registry'[e] = IF e = p THEN kept ELSE registry[e]
  BY DEF TypeInv, TypeOK
<1>2. \A e \in Daemons : Incoming(e)' \subseteq Incoming(e)
  BY <1>1 DEF Incoming
<1>3. OnlyServersDrive'
  BY <1>1 DEF OnlyServersDrive, Serving, TypeInv
<1> QED BY <1>2, <1>3 DEF Calm

\* A daemon that shuts down holds no session any longer, and hands none on.
LEMMA ShutdownCalm ==
  ASSUME TypeInv, NEW p \in Daemons, NEW why, Shutdown(p, why)
  PROVE  Calm
<1>1. registry' = [registry EXCEPT ![p] = {}]
  BY DEF Shutdown
<1>2. \A s \in Sessions : session'[s] = "unborn" => session[s] = "unborn"
  BY DEF Shutdown
<1>3. UNCHANGED <<pc, drained, inherited, link>>
  BY DEF Shutdown
<1> QED BY <1>1, <1>2, <1>3, EndingCalm

\* Clients move no session, but for the one they create.
LEMMA ClientCalm ==
  ASSUME TypeInv, ClientStep
  PROVE  Calm \/ \E p \in Daemons, s \in Sessions : Create(p, s)
<1>0. pc \in [Daemons -> Pcs] /\ TypeOK
  BY DEF TypeInv, TypeOK
<1>1. ASSUME NEW d \in Daemons, Spawn(d) PROVE Calm
  <2>1. pc[d] = "unborn" /\ \A e \in Daemons : pc'[e] = IF e = d THEN "locking" ELSE pc[e]
    BY <1>0, <1>1 DEF Spawn
  <2>2. UNCHANGED <<registry, drained, inherited, link, session>>
    BY <1>1 DEF Spawn
  <2> QED BY <2>1, <2>2, StillCalm DEF Gone
<1>2. ASSUME NEW p \in Daemons, NEW s \in Sessions, Kill(p, s) PROVE Calm
  <2>1. registry' = [registry EXCEPT ![p] = registry[p] \ {s}]
    BY <1>2 DEF Kill
  <2>2. session' = [session EXCEPT ![s] = "ended"]
    BY <1>2 DEF Kill
  <2>3. \A t \in Sessions : session'[t] = "unborn" => session[t] = "unborn"
    BY <1>0, <2>2 DEF TypeOK
  <2>4. UNCHANGED <<pc, drained, inherited, link>>
    BY <1>2 DEF Kill
  <2>5. registry[p] \ {s} \in SUBSET registry[p]
    OBVIOUS
  <2> QED BY <2>1, <2>3, <2>4, <2>5, EndingCalm
<1>3. CASE CountEmpty
  BY <1>3, StillCalm DEF CountEmpty
<1>4. CASE TearDownStale
  <2>1. CASE Listener # Nobody /\ teardown[Listener] \notin Latched
    <3>1. Shutdown(Listener, "torn")
      BY <1>4, <2>1 DEF TearDownStale
    <3> QED BY <1>0, <2>1, <3>1, ListenerServes, ShutdownCalm
  <2>2. CASE ~(Listener # Nobody /\ teardown[Listener] \notin Latched)
    BY <1>4, <2>2, StillCalm DEF TearDownStale
  <2> QED BY <2>1, <2>2
<1>5. CASE KillDaemon
  <2>1. CASE Listener # Nobody
    <3>1. Shutdown(Listener, "asked")
      BY <1>5, <2>1 DEF KillDaemon
    <3> QED BY <1>0, <2>1, <3>1, ListenerServes, ShutdownCalm
  <2>2. CASE Listener = Nobody
    BY <1>5, <2>2, StillCalm DEF KillDaemon
  <2> QED BY <2>1, <2>2
<1>6. CASE SweepSocket
  BY <1>6, StillCalm DEF SweepSocket
<1> QED BY <1>1, <1>2, <1>3, <1>4, <1>5, <1>6 DEF ClientStep

\* What a step can be.
LEMMA StepShape ==
  ASSUME TypeInv, [Next]_vars
  PROVE  \/ Calm
         \/ \E d \in Daemons : Ask(d) \/ RecvEof(d) \/ RecvTimeout(d) \/ HandOff(d)
         \/ \E p \in Daemons, s \in Sessions : Create(p, s)
<1>1. CASE UNCHANGED vars
  BY <1>1, StillCalm DEF vars
<1>2. CASE Next
  BY <1>2, MainCalm, HandOverCalm, LeaveCalm, ClientCalm DEF Next
<1> QED BY <1>1, <1>2

-----------------------------------------------------------------------------
(* The steps that are not calm.                                            *)

\* A successor that finds a daemon connects to it and begins to read.
LEMMA AskShape ==
  ASSUME TypeInv, NEW d \in Daemons, Ask(d)
  PROVE  \/ Calm
         \/ /\ pc[d] = "asking"
            /\ Listener \in Daemons
            /\ \A e \in Daemons : pc'[e] = IF e = d THEN "receiving" ELSE pc[e]
            /\ \A e \in Daemons \ {d} : link'[e] = link[e]
            /\ link'[d].peer = Listener /\ link'[d].todo = {} /\ link'[d].inbox = {}
            /\ UNCHANGED <<registry, drained, inherited, session>>
<1>1. CASE Listener = Nobody
  BY <1>1, LeavesCalm DEF Ask, Gone
<1>2. CASE Listener # Nobody
  <2>1. Listener \in Daemons
    BY <1>2, ListenerServes DEF TypeInv
  <2> DEFINE asked == [NoLink EXCEPT !.peer = Listener, !.stage = "asked"]
  <2>2. asked.peer = Listener /\ asked.todo = {} /\ asked.inbox = {}
    BY <2>1, AskedLink
  <2>3. link' = [link EXCEPT ![d] = asked]
    BY <1>2 DEF Ask
  <2> HIDE DEF asked
  <2>4. \A e \in Daemons : link'[e] = IF e = d THEN asked ELSE link[e]
    BY <2>3 DEF TypeInv, TypeOK
  <2>5. /\ pc[d] = "asking"
        /\ \A e \in Daemons : pc'[e] = IF e = d THEN "receiving" ELSE pc[e]
        /\ UNCHANGED <<registry, drained, inherited, session>>
    BY <1>2 DEF Ask, TypeInv, TypeOK
  <2> QED BY <2>1, <2>2, <2>4, <2>5
<1> QED BY <1>1, <1>2

\* One that stops reading keeps what it has received.
LEMMA StopShape ==
  ASSUME TypeInv, NEW d \in Daemons, StopReading(d)
  PROVE  \/ Calm
         \/ /\ pc[d] = "receiving"
            /\ \A e \in Daemons : pc'[e] = IF e = d THEN "waiting" ELSE pc[e]
            /\ UNCHANGED <<registry, drained, inherited, link, session>>
<1>1. CASE link[d].heard
  BY <1>1 DEF StopReading, TypeInv, TypeOK
<1>2. CASE ~link[d].heard
  BY <1>2, LeavesCalm DEF StopReading, Gone
<1> QED BY <1>1, <1>2

\* A hand-off moves all that the incumbent drives to the one that asked.
LEMMA HandOffShape ==
  ASSUME TypeInv, NEW d \in Daemons, HandOff(d)
  PROVE  LET p == link[d].peer
         IN  /\ p \in Daemons /\ Serving(p) /\ link[d].stage # "none"
             /\ \A e \in Daemons \ {d} : link'[e] = link[e]
             /\ link'[d].peer = p /\ link'[d].todo = registry[p]
             /\ link'[d].inbox = link[d].inbox
             /\ \A e \in Daemons : registry'[e] = IF e = p THEN {} ELSE registry[e]
             /\ \A e \in Daemons :
                  drained'[e] = IF e = p THEN drained[p] \cup registry[p] ELSE drained[e]
             /\ UNCHANGED <<pc, inherited, session>>
<1> DEFINE p == link[d].peer
           handed == [link[d] EXCEPT !.stage = "sending", !.todo = registry[p]]
<1>1. p \in Daemons /\ Serving(p) /\ link[d].stage # "none"
  BY DEF HandOff, TypeInv, PeersAreDaemons
<1>2. link[d] \in Links /\ registry[p] \in SUBSET Sessions
  BY <1>1 DEF TypeInv, TypeOK
<1>3. handed.peer = p /\ handed.todo = registry[p] /\ handed.inbox = link[d].inbox
  BY <1>2, HandedLink
<1>4. link' = [link EXCEPT ![d] = handed]
  BY DEF HandOff
<1> HIDE DEF handed
<1>5. \A e \in Daemons : link'[e] = IF e = d THEN handed ELSE link[e]
  BY <1>4 DEF TypeInv, TypeOK
<1>6. /\ \A e \in Daemons : registry'[e] = IF e = p THEN {} ELSE registry[e]
      /\ \A e \in Daemons :
           drained'[e] = IF e = p THEN drained[p] \cup registry[p] ELSE drained[e]
      /\ UNCHANGED <<pc, inherited, session>>
  BY <1>1 DEF HandOff, TypeInv, TypeOK
<1> QED BY <1>1, <1>3, <1>5, <1>6

\* A new session is with the daemon that created it.
LEMMA CreateShape ==
  ASSUME TypeInv, NEW p \in Daemons, NEW s \in Sessions, Create(p, s)
  PROVE  /\ Serving(p) /\ s \notin Born
         /\ \A e \in Daemons :
              registry'[e] = IF e = p THEN registry[p] \cup {s} ELSE registry[e]
         /\ Born' = Born \cup {s}
         /\ UNCHANGED <<pc, drained, inherited, link>>
  BY DEF Create, Born, TypeInv, TypeOK

\* TypeInv is inductive.
LEMMA TypeInvKeeps == TypeInv /\ [Next]_vars => TypeInv'
<1> SUFFICES ASSUME TypeInv, [Next]_vars PROVE TypeInv'
  OBVIOUS
<1>1. TypeOK'
  BY TypeKeeps
<1>2. CASE Calm
  <2>1. PeersAreDaemons'
    BY <1>2 DEF Calm, PeersAreDaemons, TypeInv, Gone
  <2> QED BY <1>1, <1>2, <2>1 DEF Calm, TypeInv
<1>3. ASSUME NEW d \in Daemons, Ask(d), ~Calm PROVE TypeInv'
  <2>1. PeersAreDaemons'
    BY <1>3, AskShape DEF PeersAreDaemons, TypeInv
  <2>2. OnlyServersDrive'
    BY <1>3, AskShape DEF OnlyServersDrive, Serving, TypeInv
  <2> QED BY <1>1, <2>1, <2>2 DEF TypeInv
<1>4. ASSUME NEW d \in Daemons, RecvEof(d) \/ RecvTimeout(d), ~Calm PROVE TypeInv'
  <2>1. StopReading(d)
    BY <1>4 DEF RecvEof, RecvTimeout
  <2>2. PeersAreDaemons'
    BY <1>4, <2>1, StopShape DEF PeersAreDaemons, TypeInv
  <2>3. OnlyServersDrive'
    BY <1>4, <2>1, StopShape DEF OnlyServersDrive, Serving, TypeInv
  <2> QED BY <1>1, <2>2, <2>3 DEF TypeInv
<1>5. ASSUME NEW d \in Daemons, HandOff(d) PROVE TypeInv'
  <2>1. PeersAreDaemons'
    BY <1>5, HandOffShape DEF PeersAreDaemons, TypeInv
  <2>2. OnlyServersDrive'
    <3>1. /\ Serving(link[d].peer) /\ UNCHANGED <<pc, inherited>>
          /\ \A e \in Daemons \ {link[d].peer} :
               registry'[e] = registry[e] /\ drained'[e] = drained[e]
      BY <1>5, HandOffShape
    <3> QED BY <3>1 DEF OnlyServersDrive, Serving, TypeInv
  <2> QED BY <1>1, <2>1, <2>2 DEF TypeInv
<1>6. ASSUME NEW p \in Daemons, NEW s \in Sessions, Create(p, s) PROVE TypeInv'
  <2>1. PeersAreDaemons'
    BY <1>6, CreateShape DEF PeersAreDaemons, TypeInv
  <2>2. OnlyServersDrive'
    BY <1>6, CreateShape DEF OnlyServersDrive, Serving, TypeInv
  <2> QED BY <1>1, <2>1, <2>2 DEF TypeInv
<1> QED BY <1>2, <1>3, <1>4, <1>5, <1>6, StepShape

-----------------------------------------------------------------------------
(* A session is driven by one process.                                     *)

\* In the beginning one daemon serves, and nobody has asked it for anything.
LEMMA InitInvariant == Init => IInv
<1> SUFFICES ASSUME Init PROVE IInv
  OBVIOUS
<1> USE DaemonsAssumption
<1>1. NoLink \in Links /\ NoLink.stage = "none" /\ NoLink.todo = {} /\ NoLink.inbox = {}
  BY DEF NoLink, Links
<1>2. \A d \in Daemons : link[d] = NoLink
  BY DEF Init
<1>3. TypeOK
  BY <1>1 DEF Init, TypeOK, Pcs
<1>4. \A d \in Daemons :
        /\ registry[d] = IF d = First THEN Open ELSE {}
        /\ drained[d] = {} /\ inherited[d] = {}
        /\ pc[d] = IF d = First THEN "serving" ELSE "unborn"
  BY DEF Init
<1>5. \A d \in Daemons : Incoming(d) = IF d = First THEN Open ELSE {}
  BY <1>1, <1>2, <1>4 DEF Incoming
<1>6. Open \subseteq Born
  BY DEF Init, Born
<1>7. OnlyServersDrive /\ PeersAreDaemons
  BY <1>1, <1>2, <1>4 DEF OnlyServersDrive, PeersAreDaemons, Serving
<1>8. AskersWait
  BY <1>1, <1>2 DEF AskersWait
<1>9. HandedOffToReaders /\ IncomingDisjoint /\ UnbornNowhere
  BY <1>4, <1>5, <1>6 DEF HandedOffToReaders, IncomingDisjoint, UnbornNowhere
<1> QED BY <1>3, <1>7, <1>8, <1>9 DEF IInv, TypeInv

\* A calm step keeps the invariant.
LEMMA CalmKeeps ==
  ASSUME IInv, Calm, TypeInv'
  PROVE  IInv'
<1> USE DEF IInv
<1>1. \A d \in Daemons :
        pc[d] \in {"receiving"} \cup Gone => pc'[d] \in {"receiving"} \cup Gone
  BY DEF Calm
<1>2. \A d \in Daemons : pc[d] \in Gone => pc'[d] \in Gone
  BY DEF Calm
<1>3. AskersWait'
  BY <1>1, <1>2 DEF Calm, AskersWait, TypeInv, PeersAreDaemons
<1>4. HandedOffToReaders'
  <2> SUFFICES ASSUME NEW p \in Daemons, NEW d \in Daemons, p # d,
                      drained'[p] \cap Incoming(d)' # {}
               PROVE  link'[d].peer = p /\ pc'[d] \in {"receiving"} \cup Gone
    BY DEF HandedOffToReaders
  <2>1. drained[p] \cap Incoming(d) # {}
    BY DEF Calm
  <2>2. link[d].peer = p /\ pc[d] \in {"receiving"} \cup Gone
    BY <2>1 DEF HandedOffToReaders
  <2> QED BY <1>1, <2>2 DEF Calm
<1>5. IncomingDisjoint'
  BY DEF Calm, IncomingDisjoint
<1>6. UnbornNowhere'
  <2>1. Born \subseteq Born'
    BY DEF Calm, Born
  <2> QED BY <2>1 DEF Calm, UnbornNowhere
<1> QED BY <1>3, <1>4, <1>5, <1>6

\* Who asks starts with an empty link, and so with nothing on its way to it.
LEMMA AskKeeps ==
  ASSUME IInv, TypeInv', NEW d \in Daemons, Ask(d), ~Calm
  PROVE  IInv'
<1> USE DEF IInv
<1>1. /\ pc[d] = "asking"
      /\ \A e \in Daemons : pc'[e] = IF e = d THEN "receiving" ELSE pc[e]
      /\ \A e \in Daemons \ {d} : link'[e] = link[e]
      /\ link'[d].peer = Listener /\ link'[d].todo = {} /\ link'[d].inbox = {}
      /\ UNCHANGED <<registry, drained, inherited, session>>
  BY AskShape
<1>2. \A e \in Daemons : Incoming(e)' \subseteq Incoming(e)
  BY <1>1 DEF Incoming
<1>3. AskersWait'
  BY <1>1 DEF AskersWait, TypeInv, PeersAreDaemons, Gone
<1>4. HandedOffToReaders'
  BY <1>1, <1>2 DEF HandedOffToReaders, Gone
<1>5. IncomingDisjoint'
  BY <1>2 DEF IncomingDisjoint
<1>6. UnbornNowhere'
  BY <1>1, <1>2 DEF UnbornNowhere, Born
<1> QED BY <1>3, <1>4, <1>5, <1>6

\* One that stops reading does so because the daemon it asked is gone, and so
\* nobody else has a master of what it received.
LEMMA StopKeeps ==
  ASSUME IInv, TypeInv', NEW d \in Daemons, StopReading(d), ~Calm,
         pc[link[d].peer] \in Gone
  PROVE  IInv'
<1> USE DEF IInv
<1>1. /\ pc[d] = "receiving"
      /\ \A e \in Daemons : pc'[e] = IF e = d THEN "waiting" ELSE pc[e]
      /\ UNCHANGED <<registry, drained, inherited, link, session>>
  BY StopShape
<1>2. link[d].peer \in Daemons
  BY <1>1 DEF TypeInv, PeersAreDaemons
<1>3. drained[link[d].peer] = {} /\ link[d].peer # d
  BY <1>1, <1>2 DEF TypeInv, OnlyServersDrive, Serving, Gone
<1>4. \A e \in Daemons : Incoming(e)' \subseteq Incoming(e)
  BY <1>1 DEF Incoming
<1>5. AskersWait'
  BY <1>1, <1>2, <1>3 DEF AskersWait, TypeInv, PeersAreDaemons, Gone
<1>6. HandedOffToReaders'
  BY <1>1, <1>3, <1>4 DEF HandedOffToReaders
<1>7. IncomingDisjoint' /\ UnbornNowhere'
  BY <1>1, <1>4 DEF IncomingDisjoint, UnbornNowhere, Born
<1> QED BY <1>5, <1>6, <1>7

\* A hand-off turns what the daemon holds into what is on its way to the one that asked.
LEMMA HandOffKeeps ==
  ASSUME IInv, TypeInv', NEW d \in Daemons, HandOff(d)
  PROVE  IInv'
<1> USE DEF IInv
<1>0. PICK p \in Daemons : p = link[d].peer
  BY HandOffShape DEF IInv
<1>1. /\ Serving(p) /\ link[d].stage # "none"
      /\ \A e \in Daemons \ {d} : link'[e] = link[e]
      /\ link'[d].peer = p /\ link'[d].todo = registry[p]
      /\ link'[d].inbox = link[d].inbox
      /\ \A e \in Daemons : registry'[e] = IF e = p THEN {} ELSE registry[e]
      /\ \A e \in Daemons :
           drained'[e] = IF e = p THEN drained[p] \cup registry[p] ELSE drained[e]
      /\ UNCHANGED <<pc, inherited, session>>
  BY ZenonT(40), <1>0, HandOffShape
<1>2. pc[d] \in {"receiving"} \cup Gone /\ p # d
  BY <1>0, <1>1 DEF AskersWait, Serving, Gone
<1>3. /\ \A e \in Daemons \ {d} : Incoming(e)' \subseteq Incoming(e)
      /\ Incoming(d)' \subseteq Incoming(d) \cup registry[p]
      /\ Incoming(p) = registry[p] /\ Incoming(p)' = {}
  <2>1. \A e \in Daemons \ {d} : Incoming(e)' \subseteq Incoming(e)
    BY <1>1 DEF Incoming
  <2>2. Incoming(d)' \subseteq Incoming(d) \cup registry[p]
    BY <1>1 DEF Incoming
  <2>3. pc[p] = "serving" /\ inherited[p] = {} /\ registry'[p] = {}
    BY <1>1 DEF Serving, TypeInv, OnlyServersDrive
  <2>4. Incoming(p) = registry[p] /\ Incoming(p)' = {}
    BY <1>1, <2>3 DEF Incoming
  <2> QED BY <2>1, <2>2, <2>4
<1>4. AskersWait'
  BY <1>0, <1>1, <1>2 DEF AskersWait, Gone
<1>5. HandedOffToReaders'
  <2> SUFFICES ASSUME NEW q \in Daemons, NEW e \in Daemons, q # e,
                      drained'[q] \cap Incoming(e)' # {}
               PROVE  link'[e].peer = q /\ pc'[e] \in {"receiving"} \cup Gone
    BY DEF HandedOffToReaders
  <2>1. CASE e = d /\ q = p
    BY <1>1, <1>2, <2>1
  <2>2. CASE e = d /\ q # p
    <3>1. drained[q] \cap registry[p] = {}
      BY <1>1, <1>3, <2>2 DEF HandedOffToReaders, Serving, Gone
    <3>2. drained[q] \cap Incoming(d) # {}
      BY <1>1, <1>3, <2>2, <3>1
    <3> QED BY <1>0, <1>1, <2>2, <3>2 DEF HandedOffToReaders
  <2>3. CASE e # d
    <3>1. e # p
      BY <1>3
    <3>2. registry[p] \cap Incoming(e) = {}
      BY <1>3, <3>1 DEF IncomingDisjoint
    <3>3. drained[q] \cap Incoming(e) # {}
      BY <1>1, <1>3, <2>3, <3>2
    <3> QED BY <1>1, <2>3, <3>3 DEF HandedOffToReaders
  <2> QED BY <2>1, <2>2, <2>3
<1>6. IncomingDisjoint'
  BY <1>1, <1>2, <1>3 DEF IncomingDisjoint
<1>7. UnbornNowhere'
  BY <1>1, <1>2, <1>3 DEF UnbornNowhere, Born
<1> QED BY <1>4, <1>5, <1>6, <1>7

\* A session that is created is nowhere yet.
LEMMA CreateKeeps ==
  ASSUME IInv, TypeInv', NEW p \in Daemons, NEW s \in Sessions, Create(p, s)
  PROVE  IInv'
<1> USE DEF IInv
<1>1. /\ Serving(p) /\ s \notin Born
      /\ \A e \in Daemons :
           registry'[e] = IF e = p THEN registry[p] \cup {s} ELSE registry[e]
      /\ Born' = Born \cup {s}
      /\ UNCHANGED <<pc, drained, inherited, link>>
  BY CreateShape
<1>2. \A e \in Daemons : s \notin Incoming(e) /\ s \notin drained[e]
  BY <1>1 DEF UnbornNowhere
<1>3. /\ \A e \in Daemons \ {p} : Incoming(e)' = Incoming(e)
      /\ Incoming(p)' = Incoming(p) \cup {s}
  BY <1>1 DEF Incoming
<1>4. AskersWait'
  BY <1>1 DEF AskersWait
<1>5. HandedOffToReaders'
  <2> SUFFICES ASSUME NEW q \in Daemons, NEW e \in Daemons, q # e,
                      drained[q] \cap Incoming(e)' # {}
               PROVE  link[e].peer = q /\ pc[e] \in {"receiving"} \cup Gone
    BY <1>1 DEF HandedOffToReaders
  <2>1. drained[q] \cap Incoming(e) # {}
    BY <1>2, <1>3
  <2> QED BY <2>1 DEF HandedOffToReaders
<1>6. IncomingDisjoint'
  BY <1>2, <1>3 DEF IncomingDisjoint
<1>7. UnbornNowhere'
  BY <1>1, <1>3 DEF UnbornNowhere
<1> QED BY <1>4, <1>5, <1>6, <1>7

\* No budget runs out on a peer that is still at work.
BudgetsMet == "slow" \notin Events

\* Every step keeps the invariant.
LEMMA NextKeeps == BudgetsMet /\ IInv /\ [Next]_vars => IInv'
<1> SUFFICES ASSUME BudgetsMet, IInv, [Next]_vars PROVE IInv'
  OBVIOUS
<1>1. TypeInv /\ TypeInv'
  BY TypeInvKeeps DEF IInv
<1>2. CASE Calm
  BY <1>1, <1>2, CalmKeeps
<1>3. ASSUME NEW d \in Daemons, Ask(d), ~Calm PROVE IInv'
  BY <1>1, <1>3, AskKeeps
<1>4. ASSUME NEW d \in Daemons, RecvEof(d) \/ RecvTimeout(d), ~Calm PROVE IInv'
  <2>1. StopReading(d) /\ pc[link[d].peer] \in Gone
    BY <1>4 DEF RecvEof, RecvTimeout, BudgetsMet
  <2> QED BY <1>1, <1>4, <2>1, StopKeeps
<1>5. ASSUME NEW d \in Daemons, HandOff(d) PROVE IInv'
  BY <1>1, <1>5, HandOffKeeps
<1>6. ASSUME NEW p \in Daemons, NEW s \in Sessions, Create(p, s) PROVE IInv'
  BY <1>1, <1>6, CreateKeeps
<1> QED BY <1>1, <1>2, <1>3, <1>4, <1>5, <1>6, StepShape

-----------------------------------------------------------------------------
(* The theorems.                                                           *)

\* Every variable keeps its type, whatever the environment does.
THEOREM TypeCorrect == Spec => []TypeOK
<1>1. Init => TypeInv
  BY InitInvariant DEF IInv
<1>2. TypeInv => TypeOK
  BY DEF TypeInv
<1> QED BY <1>1, <1>2, TypeInvKeeps, PTL DEF Spec

\* While budgets are met, sessions are on their way to one process only, and
\* what was handed off stays with its reader until the one that sent it is gone.
THEOREM MastersAccounted == BudgetsMet => (Spec => []IInv)
<1> SUFFICES ASSUME BudgetsMet PROVE Spec => []IInv
  OBVIOUS
<1>1. IInv /\ [Next]_vars => IInv'
  BY NextKeeps
<1> QED BY <1>1, InitInvariant, PTL DEF Spec

\* While budgets are met, no two processes hold the pty of a session that one
\* of them drives, however many successors race, whatever crashes, whichever
\* descriptors and execs fail: adopt_all and hand_off never give a shell two
\* readers.
THEOREM AlwaysAdoptedAlone == BudgetsMet => (Spec => []AdoptedAlone)
<1> SUFFICES ASSUME BudgetsMet PROVE Spec => []AdoptedAlone
  OBVIOUS
<1>1. ASSUME IInv PROVE AdoptedAlone
  <2> USE <1>1 DEF IInv
  <2> SUFFICES ASSUME NEW p \in Daemons, NEW q \in Daemons, p # q
               PROVE  registry[q] \cap (registry[p] \cup drained[p]) = {}
    BY DEF AdoptedAlone
  <2>1. registry[q] \subseteq Incoming(q) /\ registry[p] \subseteq Incoming(p)
    BY DEF Incoming
  <2>2. registry[q] \cap registry[p] = {}
    BY <2>1 DEF IncomingDisjoint
  <2>3. registry[q] \cap drained[p] = {}
    <3>1. CASE Serving(q)
      BY <2>1, <3>1 DEF HandedOffToReaders, Serving, Gone
    <3>2. CASE ~Serving(q)
      BY <3>2 DEF TypeInv, OnlyServersDrive
    <3> QED BY <3>1, <3>2
  <2> QED BY <2>2, <2>3
<1>2. IInv /\ [Next]_vars => IInv'
  BY NextKeeps
<1> QED BY <1>1, <1>2, InitInvariant, PTL DEF Spec

-----------------------------------------------------------------------------
(* What a loss goes back to, whatever the environment does.                *)

Fresh == {"unborn", "locking", "probing", "asking"}

\* A connection begins with the asking, at a daemon that serves; what is to be sent on it
\* is set by the hand-off, and what breaks it is a disturbance of that daemon.
LinksOrdered ==
  \A d \in Daemons :
    /\ pc[d] \in Fresh => link[d].stage = "none"
    /\ link[d].stage # "none" => pc[link[d].peer] \in {"serving"} \cup Gone
    /\ link[d].stage \in {"none", "asked", "sent"} => link[d].todo = {}
    /\ link[d].stage = "broken" => link[d].peer \in disturbed

\* Sessions are inherited by a daemon that has heard of them and does not serve yet; only
\* one that serves is torn down.
StartsInOrder ==
  \A d \in Daemons :
    /\ inherited[d] # {} => pc[d] \in {"receiving", "waiting", "reaping", "binding"}
    /\ inherited[d] # {} /\ pc[d] = "receiving" => link[d].heard
    /\ pc[d] \notin {"serving"} \cup Gone => teardown[d] = "no"
    /\ d \in unlinked => teardown[d] # "no"

OnItsWay(d, s) == s \in link[d].todo \/ s \in UNION link[d].inbox \/ s \in inherited[d]

\* A daemon no disturbance has met has one successor at most; once it hands over, or is
\* torn down, it drives nothing, and in the end has sent all; while it serves, its
\* successor reads, and has or will be sent all it handed off.
ServerFor(p) ==
  p \notin disturbed =>
    /\ \A d, e \in AskersOf(p) : d = e
    /\ HandingOver(p) => registry[p] = {}
    /\ teardown[p] # "no" => registry[p] = {} /\ \A d \in AskersOf(p) : link[d].todo = {}
    /\ Serving(p) => \A d \in AskersOf(p) : pc[d] = "receiving"
    /\ Serving(p) => \A s \in drained[p] : \E d \in AskersOf(p) : pc[d] = "receiving" /\ OnItsWay(d, s)

AccountInv == TypeInv /\ LinksOrdered /\ StartsInOrder /\ \A p \in Daemons : ServerFor(p)

Held(s) == \E p \in Daemons : s \in Holds(p)

\* Whatever is lost was held by a process that a disturbance has met.
LossAccounted == \A s \in Lost' \ Lost : \E p \in disturbed' : s \in Holds(p)

\* A session that is alive is held on, or by one whom a disturbance has met.
LEMMA LossShape ==
  ASSUME TypeOK, TypeOK',
         \A s \in Sessions : session'[s] = "live" =>
           \/ Held(s)'
           \/ session[s] = "live" /\ (Held(s) => \E p \in disturbed' : s \in Holds(p))
  PROVE  LossAccounted
BY DEF LossAccounted, Lost, Held

\* The sessions stay where they are, and nobody begins or ends to read or to serve.
LEMMA StillAccounted ==
  ASSUME AccountInv, TypeInv',
         UNCHANGED <<registry, drained, inherited, link, teardown, session, disturbed>>,
         \A d \in unlinked' : d \in unlinked \/ teardown[d] # "no",
         \A d \in Daemons :
           \/ pc'[d] = pc[d]
           \/ /\ pc[d] \notin {"receiving", "serving"} \cup Gone
              /\ pc'[d] \notin {"receiving", "serving"} \cup Gone
              /\ pc'[d] \in Fresh => pc[d] \in Fresh
  PROVE  AccountInv' /\ LossAccounted
<1>1. TypeOK /\ TypeOK' /\ TypeInv /\ LinksOrdered /\ StartsInOrder /\ \A p \in Daemons : ServerFor(p)
  BY DEF AccountInv, TypeInv
<1>2. LinksOrdered'
  <2>1. \A d \in Daemons : link[d].stage # "none" => pc'[link[d].peer] = pc[link[d].peer]
    <3> SUFFICES ASSUME NEW d \in Daemons, link[d].stage # "none"
                 PROVE  pc'[link[d].peer] = pc[link[d].peer]
      OBVIOUS
    <3>1. link[d].peer \in Daemons /\ pc[link[d].peer] \in {"serving"} \cup Gone
      BY <1>1 DEF TypeInv, PeersAreDaemons, LinksOrdered
    <3> QED
      BY <3>1
  <2> QED
    BY <1>1, <2>1 DEF LinksOrdered
<1>3. StartsInOrder'
  BY <1>1 DEF StartsInOrder, TypeOK, Pcs, Starting, Fresh
<1>4. ASSUME NEW p \in Daemons PROVE ServerFor(p)'
  <2>1. (Serving(p)' <=> Serving(p)) /\ \A d \in Daemons : pc'[d] = "receiving" <=> pc[d] = "receiving"
    BY DEF Serving
  <2>2. AskersOf(p)' = AskersOf(p) /\ (HandingOver(p)' <=> HandingOver(p)) /\ AskersOf(p) \subseteq Daemons
    BY DEF AskersOf, HandingOver
  <2> QED
    BY <1>1, <2>1, <2>2 DEF ServerFor, OnItsWay
<1>5. LossAccounted
  <2>1. \A p \in Daemons : Holds(p)' = Holds(p)
    BY DEF Holds
  <2> QED
    BY <1>1, <2>1, LossShape DEF Held
<1> QED
  BY <1>1, <1>2, <1>3, <1>4, <1>5 DEF AccountInv

\* A process that leaves has been met by a disturbance, or another holds what it held.
LEMMA LeavesAccounted ==
  ASSUME AccountInv, TypeInv', NEW p \in Daemons, NEW how \in Gone, Leaves(p, how),
         UNCHANGED <<link, teardown, unlinked, session>>, disturbed \subseteq disturbed',
         pc[p] = "receiving" => pc[link[p].peer] \in Gone \/ link[p].peer \in disturbed',
         p \in disturbed' \/ \A s \in Holds(p) : \E q \in Daemons \ {p} : s \in Holds(q)
  PROVE  AccountInv' /\ LossAccounted
<1>1. TypeOK /\ TypeOK' /\ TypeInv /\ LinksOrdered /\ StartsInOrder /\ \A q \in Daemons : ServerFor(q)
  BY DEF AccountInv, TypeInv
<1>2. /\ \A d \in Daemons : /\ pc'[d] = IF d = p THEN how ELSE pc[d]
                            /\ registry'[d] = IF d = p THEN {} ELSE registry[d]
                            /\ drained'[d] = IF d = p THEN {} ELSE drained[d]
                            /\ inherited'[d] = IF d = p THEN {} ELSE inherited[d]
      /\ how \notin Fresh \cup {"receiving", "serving"} /\ "serving" \notin Gone /\ "receiving" \notin Gone
  BY <1>1 DEF Leaves, TypeOK, Gone, Fresh
<1>3. LinksOrdered'
  <2>1. \A d \in Daemons : link[d].stage # "none" => pc'[link[d].peer] \in {"serving"} \cup Gone
    BY <1>1, <1>2 DEF TypeInv, PeersAreDaemons, LinksOrdered
  <2> QED
    BY <1>1, <1>2, <2>1 DEF LinksOrdered
<1>4. StartsInOrder'
  BY <1>1, <1>2 DEF StartsInOrder
<1>5. ASSUME NEW q \in Daemons PROVE ServerFor(q)'
  <2>1. AskersOf(q)' = AskersOf(q) /\ (HandingOver(q)' <=> HandingOver(q)) /\ AskersOf(q) \subseteq Daemons
    BY DEF AskersOf, HandingOver
  <2>2. CASE q = p
    BY <1>1, <1>2, <2>1, <2>2 DEF ServerFor, Serving
  <2>3. CASE q # p
    <3>1. q \notin disturbed' /\ Serving(q) => \A d \in AskersOf(q) : pc[d] = "receiving" => d # p
      BY <1>2 DEF AskersOf, Serving
    <3>2. \A d \in AskersOf(q) : \A s : d # p /\ OnItsWay(d, s) => OnItsWay(d, s)'
      BY <1>2, <2>1 DEF OnItsWay
    <3> QED
      BY <1>1, <1>2, <2>1, <2>3, <3>1, <3>2 DEF ServerFor, Serving
  <2> QED
    BY <2>2, <2>3
<1>6. LossAccounted
  <2>1. \A q \in Daemons \ {p} : Holds(q)' = Holds(q)
    BY <1>2 DEF Holds
  <2>2. \A s : Held(s) => Held(s)' \/ \E q \in disturbed' : s \in Holds(q)
    BY <2>1 DEF Held
  <2> QED
    BY <1>1, <2>2, LossShape
<1> QED
  BY <1>1, <1>3, <1>4, <1>5, <1>6 DEF AccountInv

\* One that does not serve, has inherited nothing and has nothing to read holds nothing.
LEMMA EmptyHolds ==
  ASSUME TypeInv, NEW p \in Daemons, ~Serving(p), inherited[p] = {},
         pc[p] = "receiving" => link[p].inbox = {}
  PROVE  Holds(p) = {}
BY DEF TypeInv, OnlyServersDrive, Holds

-----------------------------------------------------------------------------
(* The steps of a main thread.                                             *)

\* The request goes to the daemon that listens, which is disturbed if it has one already.
LEMMA AskAccounted ==
  ASSUME AccountInv, TypeInv', NEW d \in Daemons, Ask(d)
  PROVE  AccountInv' /\ LossAccounted
<1>1. TypeOK /\ TypeOK' /\ TypeInv /\ LinksOrdered /\ StartsInOrder /\ \A q \in Daemons : ServerFor(q)
  BY DEF AccountInv, TypeInv
<1>2. CASE Listener = Nobody
  <2>1. Leaves(d, "exited") /\ UNCHANGED <<link, teardown, unlinked, session, disturbed>>
    BY <1>2 DEF Ask
  <2>2. pc[d] = "asking" /\ "exited" \in Gone
    BY DEF Ask, Gone
  <2>3. Holds(d) = {}
    BY <1>1, <2>2, EmptyHolds DEF StartsInOrder, Serving
  <2> QED
    BY <2>1, <2>2, <2>3, LeavesAccounted
<1>3. CASE Listener # Nobody
  <2> DEFINE p == Listener
  <2>1. p \in Daemons /\ Serving(p)
    BY <1>1, <1>3, ListenerServes
  <2> HIDE DEF p
  <2>2. /\ pc[d] = "asking" /\ pc' = [pc EXCEPT ![d] = "receiving"]
        /\ link' = [link EXCEPT ![d] = [NoLink EXCEPT !.peer = p, !.stage = "asked"]]
        /\ disturbed' = disturbed \cup {q \in {p} : AskersOf(q) # {}}
        /\ UNCHANGED <<flock, registry, drained, inherited, socket, teardown, unlinked, session, verdicts>>
    BY <1>3 DEF Ask, p
  <2>3. /\ \A e \in Daemons : e # d => link'[e] = link[e] /\ pc'[e] = pc[e]
        /\ pc'[d] = "receiving" /\ link'[d].peer = p /\ link'[d].stage = "asked"
        /\ link'[d].todo = {} /\ link'[d].inbox = {}
    BY <1>1, <2>2 DEF TypeOK, NoLink
  <2>4. /\ link[d].stage = "none" /\ inherited[d] = {} /\ p # d
        /\ \A e \in Daemons : link[e].stage # "none" => link[e].peer \in Daemons /\ link[e].peer # d
    BY <1>1, <2>1, <2>2 DEF LinksOrdered, StartsInOrder, Fresh, Serving, Gone, TypeInv, PeersAreDaemons
  <2>5. LinksOrdered'
    <3> SUFFICES ASSUME NEW e \in Daemons
                 PROVE  /\ pc'[e] \in Fresh => link'[e].stage = "none"
                        /\ link'[e].stage # "none" => pc'[link'[e].peer] \in {"serving"} \cup Gone
                        /\ link'[e].stage \in {"none", "asked", "sent"} => link'[e].todo = {}
                        /\ link'[e].stage = "broken" => link'[e].peer \in disturbed'
      BY DEF LinksOrdered
    <3>1. CASE e = d
      BY <2>1, <2>3, <2>4, <3>1 DEF Fresh, Serving
    <3>2. CASE e # d
      BY <1>1, <2>2, <2>3, <2>4, <3>2 DEF LinksOrdered
    <3> QED
      BY <3>1, <3>2
  <2>6. StartsInOrder'
    BY <1>1, <2>2, <2>3, <2>4 DEF StartsInOrder, Gone
  <2>7. ASSUME NEW q \in Daemons PROVE ServerFor(q)'
    <3>1. AskersOf(q)' = AskersOf(q) \cup {e \in {d} : q = p} /\ d \notin AskersOf(q)
      BY <2>3, <2>4 DEF AskersOf
    <3>2. HandingOver(q)' => HandingOver(q)
      BY <2>3, <3>1 DEF HandingOver, AskersOf
    <3>3. \A e \in AskersOf(q) : \A s : OnItsWay(e, s)' <=> OnItsWay(e, s)
      BY <2>2, <2>3, <3>1 DEF OnItsWay, AskersOf
    <3>4. CASE q = p
      <4> SUFFICES ASSUME q \notin disturbed' PROVE ServerFor(q)'
        BY DEF ServerFor
      <4>1. AskersOf(q) = {} /\ AskersOf(q)' = {d} /\ q \notin disturbed
        BY <2>2, <3>1, <3>4
      <4>2. drained[q] = {}
        BY <1>1, <2>1, <3>4, <4>1 DEF ServerFor
      <4> QED
        BY <1>1, <2>2, <2>3, <3>2, <4>1, <4>2 DEF ServerFor
    <3>5. CASE q # p
      <4>1. AskersOf(q)' = AskersOf(q) /\ (q \in disturbed' <=> q \in disturbed) /\ (Serving(q)' <=> Serving(q))
        BY <2>2, <2>3, <3>1, <3>5 DEF Serving
      <4>2. \A e \in AskersOf(q) : e \in Daemons /\ e # d /\ link'[e] = link[e] /\ pc'[e] = pc[e]
        BY <2>3, <3>1 DEF AskersOf
      <4> QED
        BY <1>1, <2>2, <3>2, <3>3, <4>1, <4>2 DEF ServerFor
    <3> QED
      BY <3>4, <3>5
  <2>8. LossAccounted
    <3>1. \A q \in Daemons : Holds(q)' = Holds(q)
      BY <2>2, <2>3 DEF Holds
    <3> QED
      BY <1>1, <2>2, <3>1, LossShape DEF Held
  <2> QED
    BY <1>1, <2>5, <2>6, <2>7, <2>8 DEF AccountInv
<1> QED
  BY <1>2, <1>3

\* A batch that is read is inherited.
LEMMA RecvAccounted ==
  ASSUME AccountInv, TypeInv', NEW d \in Daemons, Recv(d)
  PROVE  AccountInv' /\ LossAccounted
<1>1. TypeOK /\ TypeOK' /\ TypeInv /\ LinksOrdered /\ StartsInOrder /\ \A q \in Daemons : ServerFor(q)
  BY DEF AccountInv, TypeInv
<1>2. PICK batch \in link[d].inbox :
        /\ link' = [link EXCEPT ![d].inbox = @ \ {batch}, ![d].heard = TRUE]
        /\ inherited' = [inherited EXCEPT ![d] = @ \cup batch]
  BY DEF Recv
<1>3. /\ link'[d].peer = link[d].peer /\ link'[d].stage = link[d].stage /\ link'[d].todo = link[d].todo
      /\ link'[d].inbox = link[d].inbox \ {batch} /\ link'[d].heard
      /\ inherited'[d] = inherited[d] \cup batch
      /\ \A e \in Daemons : e # d => link'[e] = link[e] /\ inherited'[e] = inherited[e]
  BY <1>1, <1>2 DEF TypeOK, Links
<1>4. /\ UNCHANGED <<pc, flock, socket, registry, drained, teardown, unlinked, session, verdicts, disturbed>>
      /\ pc[d] = "receiving"
  BY DEF Recv
<1>5. \A e \in Daemons : /\ link'[e].peer = link[e].peer /\ link'[e].stage = link[e].stage
                         /\ link'[e].todo = link[e].todo
                         /\ \A s : OnItsWay(e, s) => OnItsWay(e, s)'
  BY <1>3 DEF OnItsWay
<1>6. LinksOrdered'
  BY <1>1, <1>4, <1>5 DEF LinksOrdered
<1>7. StartsInOrder'
  BY <1>1, <1>3, <1>4 DEF StartsInOrder
<1>8. ASSUME NEW q \in Daemons PROVE ServerFor(q)'
  <2>1. AskersOf(q)' = AskersOf(q) /\ AskersOf(q) \subseteq Daemons
    BY <1>5 DEF AskersOf
  <2>2. HandingOver(q)' <=> HandingOver(q)
    BY <1>5, <2>1 DEF HandingOver
  <2> QED
    BY <1>1, <1>4, <1>5, <2>1, <2>2 DEF ServerFor, Serving
<1>9. LossAccounted
  <2>1. \A q \in Daemons : Holds(q) \subseteq Holds(q)'
    BY <1>3, <1>4 DEF Holds
  <2> QED
    BY <1>1, <1>4, <2>1, LossShape DEF Held
<1> QED
  BY <1>1, <1>6, <1>7, <1>8, <1>9 DEF AccountInv

\* One that stops reading has read all there is; the daemon it asked is gone, or disturbed.
LEMMA StopAccounted ==
  ASSUME AccountInv, TypeInv', NEW d \in Daemons, RecvEof(d) \/ RecvTimeout(d)
  PROVE  AccountInv' /\ LossAccounted
<1>1. TypeOK /\ TypeOK' /\ TypeInv /\ LinksOrdered /\ StartsInOrder /\ \A q \in Daemons : ServerFor(q)
  BY DEF AccountInv, TypeInv
<1>2. /\ StopReading(d) /\ disturbed \subseteq disturbed' /\ pc[d] = "receiving"
      /\ pc[link[d].peer] \in Gone \/ link[d].peer \in disturbed'
      /\ link[d].inbox = {} /\ UNCHANGED <<socket, link, teardown, unlinked, session, verdicts>>
  BY DEF RecvEof, RecvTimeout, StopReading
<1>3. CASE ~link[d].heard
  <2>1. Leaves(d, "exited") /\ "exited" \in Gone
    BY <1>2, <1>3 DEF StopReading, Gone
  <2>2. Holds(d) = {}
    BY <1>1, <1>2, <1>3, EmptyHolds DEF StartsInOrder, Serving
  <2> QED
    BY <1>2, <2>1, <2>2, LeavesAccounted
<1>4. CASE link[d].heard
  <2>1. UNCHANGED <<flock, registry, drained, inherited>> /\ pc' = [pc EXCEPT ![d] = "waiting"]
    BY <1>2, <1>4 DEF StopReading
  <2>2. \A e \in Daemons : pc'[e] = IF e = d THEN "waiting" ELSE pc[e]
    BY <1>1, <2>1 DEF TypeOK
  <2>3. LinksOrdered'
    <3>1. \A e \in Daemons : link[e].stage # "none" =>
            link[e].peer \in Daemons /\ pc[link[e].peer] \in {"serving"} \cup Gone
      BY <1>1 DEF LinksOrdered, TypeInv, PeersAreDaemons
    <3>2. \A e \in Daemons : link[e].stage # "none" => pc'[link[e].peer] \in {"serving"} \cup Gone
      BY <1>2, <2>2, <3>1 DEF Gone
    <3> QED
      BY <1>1, <1>2, <2>2, <3>2 DEF LinksOrdered, Fresh
  <2>4. StartsInOrder'
    BY <1>1, <1>2, <2>1, <2>2 DEF StartsInOrder, Gone
  <2>5. ASSUME NEW q \in Daemons PROVE ServerFor(q)'
    <3>1. AskersOf(q)' = AskersOf(q) /\ AskersOf(q) \subseteq Daemons /\ (HandingOver(q)' <=> HandingOver(q))
      BY <1>2 DEF AskersOf, HandingOver
    <3>2. (Serving(q)' <=> Serving(q)) /\ (Serving(q) => pc[q] \notin Gone)
      BY <1>2, <2>2 DEF Serving, Gone
    <3>3. q \notin disturbed' /\ Serving(q) => \A e \in AskersOf(q) : e # d
      BY <1>2, <3>2 DEF AskersOf
    <3>4. \A e \in Daemons : \A s : OnItsWay(e, s)' <=> OnItsWay(e, s)
      BY <1>2, <2>1 DEF OnItsWay
    <3> QED
      BY <1>1, <1>2, <2>1, <2>2, <3>1, <3>2, <3>3, <3>4 DEF ServerFor
  <2>6. LossAccounted
    <3>1. \A q \in Daemons : Holds(q)' = Holds(q)
      BY <1>2, <2>1, <2>2 DEF Holds
    <3> QED
      BY <1>1, <1>2, <3>1, LossShape DEF Held
  <2> QED
    BY <1>1, <2>3, <2>4, <2>5, <2>6 DEF AccountInv
<1> QED
  BY <1>3, <1>4

\* A daemon that begins to serve has adopted what it inherited, but for what it was
\* disturbed over.
LEMMA BindAccounted ==
  ASSUME AccountInv, TypeInv', NEW d \in Daemons, Bind(d)
  PROVE  AccountInv' /\ LossAccounted
<1>1. TypeOK /\ TypeOK' /\ TypeInv /\ LinksOrdered /\ StartsInOrder /\ \A q \in Daemons : ServerFor(q)
  BY DEF AccountInv, TypeInv
<1>2. PICK bad : /\ registry' = [registry EXCEPT ![d] = inherited[d] \ bad]
                 /\ disturbed' = IF bad = {} THEN disturbed ELSE disturbed \cup {d}
  BY DEF Bind
<1>3. /\ pc[d] = "binding" /\ UNCHANGED <<drained, link, teardown, unlinked, session>>
      /\ \A e \in Daemons : /\ pc'[e] = IF e = d THEN "serving" ELSE pc[e]
                            /\ registry'[e] = IF e = d THEN inherited[d] \ bad ELSE registry[e]
                            /\ inherited'[e] = IF e = d THEN {} ELSE inherited[e]
  BY <1>1, <1>2 DEF Bind, TypeOK
<1>4. drained[d] = {} /\ teardown[d] = "no" /\ AskersOf(d) = {} /\ disturbed \subseteq disturbed'
  <2>1. drained[d] = {} /\ teardown[d] = "no"
    BY <1>1, <1>3 DEF TypeInv, OnlyServersDrive, Serving, StartsInOrder, Gone
  <2>2. AskersOf(d) = {}
    BY <1>1, <1>3 DEF AskersOf, LinksOrdered, Gone
  <2> QED
    BY <1>2, <2>1, <2>2
<1>5. LinksOrdered'
  <2>1. \A e \in Daemons : link[e].stage # "none" => pc'[link[e].peer] \in {"serving"} \cup Gone
    BY <1>1, <1>3 DEF LinksOrdered, TypeInv, PeersAreDaemons
  <2> QED
    BY <1>1, <1>3, <1>4, <2>1 DEF LinksOrdered, Fresh
<1>6. StartsInOrder'
  BY <1>1, <1>3 DEF StartsInOrder
<1>7. ASSUME NEW q \in Daemons PROVE ServerFor(q)'
  <2>1. AskersOf(q)' = AskersOf(q) /\ AskersOf(q) \subseteq Daemons /\ (HandingOver(q)' <=> HandingOver(q))
    BY <1>3 DEF AskersOf, HandingOver
  <2>2. CASE q = d
    BY <1>3, <1>4, <2>1, <2>2 DEF ServerFor, HandingOver
  <2>3. CASE q # d
    <3>1. \A e \in Daemons : \A s : e # d => (OnItsWay(e, s)' <=> OnItsWay(e, s))
      BY <1>3 DEF OnItsWay
    <3>2. q \notin disturbed' /\ Serving(q) => \A e \in AskersOf(q) : e # d
      BY <1>1, <1>3, <1>4 DEF ServerFor
    <3> QED
      BY <1>1, <1>3, <1>4, <2>1, <2>3, <3>1, <3>2 DEF ServerFor, Serving
  <2> QED
    BY <2>2, <2>3
<1>8. LossAccounted
  <2>1. \A q \in Daemons : q # d => Holds(q)' = Holds(q)
    BY <1>3 DEF Holds
  <2>2. \A s \in Holds(d) : s \in Holds(d)' \/ d \in disturbed'
    BY <1>1, <1>2, <1>3, <1>4 DEF Holds, TypeInv, OnlyServersDrive, Serving
  <2>3. \A s : Held(s) => Held(s)' \/ \E q \in disturbed' : s \in Holds(q)
    BY <2>1, <2>2 DEF Held
  <2> QED
    BY <1>1, <1>3, <2>3, LossShape
<1> QED
  BY <1>1, <1>5, <1>6, <1>7, <1>8 DEF AccountInv

\* The other steps of a main thread move no session.
LEMMA MainAccounted ==
  ASSUME AccountInv, TypeInv', NEW d \in Daemons, MainStep(d)
  PROVE  AccountInv' /\ LossAccounted
<1>1. TypeOK /\ TypeOK' /\ TypeInv /\ LinksOrdered /\ StartsInOrder /\ \A q \in Daemons : ServerFor(q)
  BY DEF AccountInv, TypeInv
<1> USE DEF Gone, Fresh
<1>2. ASSUME Leaves(d, "exited"), UNCHANGED <<link, teardown, unlinked, session, disturbed>>,
             inherited[d] = {}, pc[d] \notin {"receiving", "serving"}
      PROVE  AccountInv' /\ LossAccounted
  <2>1. Holds(d) = {}
    BY <1>1, <1>2, EmptyHolds DEF Serving
  <2> QED
    BY <1>2, <2>1, LeavesAccounted
<1>3. CASE TryLock(d)
  BY <1>1, <1>3, StillAccounted DEF TryLock, TypeOK
<1>4. CASE Probe(d)
  <2>1. CASE Leaves(d, "exited")
    BY <1>1, <1>2, <1>4, <2>1 DEF Probe, StartsInOrder
  <2>2. CASE ~Leaves(d, "exited")
    BY <1>1, <1>4, <2>2, StillAccounted DEF Probe, TypeOK
  <2> QED BY <2>1, <2>2
<1>5. CASE AcquireFlock(d)
  BY <1>1, <1>5, StillAccounted DEF AcquireFlock, TypeOK
<1>6. CASE LockTimeout(d)
  <2>1. CASE inherited[d] = {}
    BY <1>2, <1>6, <2>1 DEF LockTimeout
  <2>2. CASE inherited[d] # {}
    BY <1>1, <1>6, <2>2, StillAccounted DEF LockTimeout, TypeOK
  <2> QED BY <2>1, <2>2
<1>7. CASE Reap(d)
  BY <1>1, <1>7, StillAccounted DEF Reap, TypeOK
<1>8. CASE BindFails(d)
  <2>1. CASE inherited[d] = {}
    BY <1>2, <1>8, <2>1 DEF BindFails
  <2>2. CASE inherited[d] # {}
    BY <1>1, <1>8, <2>2, StillAccounted DEF BindFails
  <2> QED BY <2>1, <2>2
<1> QED
  BY <1>3, <1>4, <1>5, <1>6, <1>7, <1>8, AskAccounted, RecvAccounted, StopAccounted, BindAccounted
  DEF MainStep

-----------------------------------------------------------------------------
(* The steps of a hand-over, of leaving and of clients.                    *)

\* What is handed off is to be sent to the one that asked.
LEMMA HandOffAccounted ==
  ASSUME AccountInv, TypeInv', NEW d \in Daemons, HandOff(d)
  PROVE  AccountInv' /\ LossAccounted
<1>1. TypeOK /\ TypeOK' /\ TypeInv /\ LinksOrdered /\ StartsInOrder /\ \A q \in Daemons : ServerFor(q)
  BY DEF AccountInv, TypeInv
<1>0. PICK p \in Daemons : p = link[d].peer
  BY <1>1 DEF HandOff, TypeInv, PeersAreDaemons
<1>2. Serving(p) /\ link[d].stage = "asked" /\ link[d].todo = {}
  BY <1>0, <1>1 DEF HandOff, LinksOrdered
<1>3. /\ link' = [link EXCEPT ![d].stage = "sending", ![d].todo = registry[p]]
      /\ drained' = [drained EXCEPT ![p] = @ \cup registry[p]]
      /\ registry' = [registry EXCEPT ![p] = {}]
      /\ UNCHANGED <<pc, flock, socket, inherited, teardown, unlinked, session, verdicts, disturbed>>
  BY <1>0 DEF HandOff
<1>4. /\ link'[d].peer = p /\ link'[d].stage = "sending" /\ link'[d].todo = registry[p]
      /\ link'[d].inbox = link[d].inbox /\ link'[d].heard = link[d].heard
      /\ \A e \in Daemons : e # d => link'[e] = link[e]
  BY <1>0, <1>1, <1>3 DEF TypeOK, Links
<1>5. \A e \in Daemons : /\ drained'[e] = IF e = p THEN drained[p] \cup registry[p] ELSE drained[e]
                         /\ registry'[e] = IF e = p THEN {} ELSE registry[e]
  BY <1>1, <1>2, <1>3 DEF TypeOK
<1>6. UNCHANGED <<pc, flock, socket, inherited, teardown, unlinked, session, verdicts, disturbed>>
  BY <1>3
<1>7. LinksOrdered'
  <2> SUFFICES ASSUME NEW e \in Daemons
               PROVE  /\ pc'[e] \in Fresh => link'[e].stage = "none"
                      /\ link'[e].stage # "none" => pc'[link'[e].peer] \in {"serving"} \cup Gone
                      /\ link'[e].stage \in {"none", "asked", "sent"} => link'[e].todo = {}
                      /\ link'[e].stage = "broken" => link'[e].peer \in disturbed'
    BY DEF LinksOrdered
  <2>1. CASE e = d
    BY <1>1, <1>2, <1>6, <1>4, <2>1 DEF LinksOrdered, Serving
  <2>2. CASE e # d
    BY <1>1, <1>6, <1>4, <2>2 DEF LinksOrdered
  <2> QED
    BY <2>1, <2>2
<1>8. StartsInOrder'
  BY <1>1, <1>6, <1>4 DEF StartsInOrder
<1>9. \A q \in Daemons : AskersOf(q)' = AskersOf(q) /\ AskersOf(q) \subseteq Daemons
  BY <1>2, <1>4, <1>0 DEF AskersOf
<1>10. d \in AskersOf(p) /\ \A q \in Daemons : d \in AskersOf(q) => q = p
  BY <1>2, <1>0 DEF AskersOf
<1>11. \A q \in Daemons : q # p => (HandingOver(q)' <=> HandingOver(q))
  BY <1>4, <1>9, <1>10 DEF HandingOver
<1>12. \A e \in Daemons : \A s : OnItsWay(e, s) => OnItsWay(e, s)'
  BY <1>2, <1>6, <1>4 DEF OnItsWay
<1>13. ASSUME NEW q \in Daemons, q # p PROVE ServerFor(q)'
  <2>1. \A e \in AskersOf(q) : link'[e] = link[e]
    BY <1>4, <1>9, <1>10, <1>13
  <2> QED
    BY <1>1, <1>6, <1>5, <1>9, <1>11, <1>12, <1>13, <2>1 DEF ServerFor, Serving
<1>14. ServerFor(p)'
  <2> SUFFICES ASSUME p \notin disturbed PROVE ServerFor(p)'
    BY <1>6 DEF ServerFor
  <2>1. \A e \in AskersOf(p) : e = d
    BY <1>1, <1>2, <1>10 DEF ServerFor
  <2>2. teardown[p] # "no" => link'[d].todo = {}
    BY <1>1, <1>2, <1>4 DEF ServerFor
  <2>3. pc[d] = "receiving"
    BY <1>1, <1>2, <1>10 DEF ServerFor
  <2>4. \A s \in drained'[p] : OnItsWay(d, s)'
    <3> SUFFICES ASSUME NEW s \in drained'[p] PROVE OnItsWay(d, s)'
      OBVIOUS
    <3>1. CASE s \in drained[p]
      BY <1>1, <1>2, <1>12, <2>1, <3>1 DEF ServerFor
    <3>2. CASE s \in registry[p]
      BY <1>4, <3>2 DEF OnItsWay
    <3> QED
      BY <1>2, <1>5, <3>1, <3>2
  <2> QED
    BY <1>1, <1>2, <1>6, <1>5, <1>9, <1>10, <2>1, <2>2, <2>3, <2>4 DEF ServerFor, Serving
<1>15. LossAccounted
  <2>1. \A q \in Daemons : Holds(q)' = Holds(q)
    BY <1>2, <1>6, <1>4, <1>5 DEF Holds
  <2> QED
    BY <1>1, <1>6, <2>1, LossShape DEF Held
<1> QED
  BY <1>1, <1>7, <1>8, <1>13, <1>14, <1>15 DEF AccountInv

\* A batch is sent, and is in the message until it is read.
LEMMA SendAccounted ==
  ASSUME AccountInv, TypeInv', NEW d \in Daemons, SendBatch(d)
  PROVE  AccountInv' /\ LossAccounted
<1>1. TypeOK /\ TypeOK' /\ TypeInv /\ LinksOrdered /\ StartsInOrder /\ \A q \in Daemons : ServerFor(q)
  BY DEF AccountInv, TypeInv
<1>2. PICK batch \in Batches(link[d].todo) :
        link' = [link EXCEPT ![d].todo = @ \ batch, ![d].inbox = @ \cup {batch},
                   ![d].stage = IF link[d].todo = batch THEN "sent" ELSE "sending"]
  BY DEF SendBatch
<1>3. /\ link'[d].peer = link[d].peer /\ link'[d].todo = link[d].todo \ batch
      /\ link'[d].stage = IF link[d].todo = batch THEN "sent" ELSE "sending"
      /\ link'[d].inbox = link[d].inbox \cup {batch} /\ link'[d].heard = link[d].heard
      /\ \A e \in Daemons : e # d => link'[e] = link[e]
  BY <1>1, <1>2 DEF TypeOK, Links
<1>4. /\ UNCHANGED <<pc, flock, socket, registry, drained, inherited, teardown, unlinked, session,
                     verdicts, disturbed>>
      /\ pc[d] = "receiving" /\ link[d].stage = "sending" /\ batch \subseteq link[d].todo
  BY <1>2 DEF SendBatch, Batches
<1>5. \A e \in Daemons : /\ link'[e].peer = link[e].peer /\ link'[e].todo \subseteq link[e].todo
                         /\ link'[e].stage \in {"none", "asked"} <=> link[e].stage \in {"none", "asked"}
                         /\ link'[e].stage = "none" <=> link[e].stage = "none"
                         /\ \A s : OnItsWay(e, s) => OnItsWay(e, s)'
  BY <1>3, <1>4 DEF OnItsWay
<1>6. LinksOrdered'
  BY <1>1, <1>3, <1>4, <1>5 DEF LinksOrdered
<1>7. StartsInOrder'
  BY <1>1, <1>3, <1>4 DEF StartsInOrder
<1>8. ASSUME NEW q \in Daemons PROVE ServerFor(q)'
  <2>1. AskersOf(q)' = AskersOf(q) /\ AskersOf(q) \subseteq Daemons
    BY <1>5 DEF AskersOf
  <2>2. HandingOver(q)' => HandingOver(q)
    BY <1>5, <2>1 DEF HandingOver, AskersOf
  <2> QED
    BY <1>1, <1>4, <1>5, <2>1, <2>2 DEF ServerFor, Serving
<1>9. LossAccounted
  <2>1. \A q \in Daemons : Holds(q) \subseteq Holds(q)'
    BY <1>3, <1>4 DEF Holds
  <2> QED
    BY <1>1, <1>4, <2>1, LossShape DEF Held
<1> QED
  BY <1>1, <1>6, <1>7, <1>8, <1>9 DEF AccountInv

\* One that stopped reading had disturbed the daemon; one that asks in vain parks.
LEMMA StageAccounted ==
  ASSUME AccountInv, TypeInv', NEW d \in Daemons, NEW stage \in {"broken", "parked"},
         link' = [link EXCEPT ![d].stage = stage], link[d].stage \notin {"none", "asked"},
         stage = "broken" => link[d].peer \in disturbed,
         UNCHANGED <<pc, flock, socket, registry, drained, inherited, teardown, unlinked, session, disturbed>>
  PROVE  AccountInv' /\ LossAccounted
<1>1. TypeOK /\ TypeOK' /\ TypeInv /\ LinksOrdered /\ StartsInOrder /\ \A q \in Daemons : ServerFor(q)
  BY DEF AccountInv, TypeInv
<1>2. /\ link'[d].peer = link[d].peer /\ link'[d].todo = link[d].todo /\ link'[d].stage = stage
      /\ link'[d].inbox = link[d].inbox /\ link'[d].heard = link[d].heard
      /\ \A e \in Daemons : e # d => link'[e] = link[e]
  BY <1>1 DEF TypeOK, Links
<1>3. \A e \in Daemons : /\ link'[e].peer = link[e].peer /\ link'[e].todo = link[e].todo
                         /\ link'[e].inbox = link[e].inbox /\ link'[e].heard = link[e].heard
                         /\ link'[e].stage \in {"none", "asked"} <=> link[e].stage \in {"none", "asked"}
                         /\ link'[e].stage = "none" <=> link[e].stage = "none"
                         /\ \A s : OnItsWay(e, s) <=> OnItsWay(e, s)'
  BY <1>2 DEF OnItsWay
<1>4. LinksOrdered'
  BY <1>1, <1>2, <1>3 DEF LinksOrdered
<1>5. StartsInOrder'
  BY <1>1, <1>3 DEF StartsInOrder
<1>6. ASSUME NEW q \in Daemons PROVE ServerFor(q)'
  <2>1. AskersOf(q)' = AskersOf(q) /\ AskersOf(q) \subseteq Daemons
    BY <1>3 DEF AskersOf
  <2>2. HandingOver(q)' => HandingOver(q)
    BY <1>3, <2>1 DEF HandingOver, AskersOf
  <2> QED
    BY <1>1, <1>3, <2>1, <2>2 DEF ServerFor, Serving
<1>7. LossAccounted
  <2>1. \A q \in Daemons : Holds(q)' = Holds(q)
    BY <1>3 DEF Holds
  <2> QED
    BY <1>1, <2>1, LossShape DEF Held
<1> QED
  BY <1>1, <1>4, <1>5, <1>6, <1>7 DEF AccountInv

\* A daemon is torn down that drives nothing and has nothing left to send, or that is
\* disturbed by it.
LEMMA TornAccounted ==
  ASSUME AccountInv, TypeInv', NEW p \in Daemons, NEW why \in {"idling"} \cup Latched, Serving(p),
         teardown' = [teardown EXCEPT ![p] = why], disturbed \subseteq disturbed',
         registry' = [registry EXCEPT ![p] = {}],
         \A s \in Sessions : IF s \in registry[p] THEN session'[s] = "ended" ELSE session'[s] = session[s],
         p \notin disturbed' => \A d \in AskersOf(p) : link[d].todo = {},
         UNCHANGED <<pc, drained, inherited, link, unlinked>>
  PROVE  AccountInv' /\ LossAccounted
<1>1. TypeOK /\ TypeOK' /\ TypeInv /\ LinksOrdered /\ StartsInOrder /\ \A q \in Daemons : ServerFor(q)
  BY DEF AccountInv, TypeInv
<1>2. \A q \in Daemons : /\ teardown'[q] = IF q = p THEN why ELSE teardown[q]
                         /\ registry'[q] = IF q = p THEN {} ELSE registry[q]
  BY <1>1 DEF TypeOK
<1>3. LinksOrdered'
  BY <1>1 DEF LinksOrdered
<1>4. StartsInOrder'
  BY <1>1, <1>2 DEF StartsInOrder, Serving, Latched
<1>5. ASSUME NEW q \in Daemons PROVE ServerFor(q)'
  <2>1. AskersOf(q)' = AskersOf(q) /\ AskersOf(q) \subseteq Daemons /\ (HandingOver(q)' <=> HandingOver(q))
    BY DEF AskersOf, HandingOver
  <2>2. \A e \in Daemons : \A s : OnItsWay(e, s)' <=> OnItsWay(e, s)
    BY DEF OnItsWay
  <2> QED
    BY <1>1, <1>2, <2>1, <2>2 DEF ServerFor, Serving
<1>6. LossAccounted
  <2>1. \A q \in Daemons : q # p => Holds(q)' = Holds(q)
    BY <1>2 DEF Holds
  <2>2. \A s \in Holds(p) : s \in registry[p] \/ s \in Holds(p)'
    BY <1>2 DEF Holds
  <2>3. ASSUME NEW s \in Sessions, session'[s] = "live"
        PROVE  session[s] = "live" /\ (Held(s) => Held(s)')
    BY <2>1, <2>2, <2>3 DEF Held
  <2> QED
    BY <1>1, <2>3, LossShape
<1> QED
  BY <1>1, <1>3, <1>4, <1>5, <1>6 DEF AccountInv

\* A daemon retires when all is sent, or when it is disturbed.
LEMMA RetireAccounted ==
  ASSUME AccountInv, TypeInv', NEW d \in Daemons, Retire(d)
  PROVE  AccountInv' /\ LossAccounted
<1>1. TypeOK /\ TypeOK' /\ TypeInv /\ LinksOrdered /\ StartsInOrder /\ \A q \in Daemons : ServerFor(q)
  BY DEF AccountInv, TypeInv
<1> DEFINE p == link[d].peer
<1>2. /\ p \in Daemons /\ Serving(p) /\ link[d].stage \in {"sent", "broken"} /\ p = link[d].peer
      /\ UNCHANGED <<pc, flock, socket, registry, drained, inherited, unlinked, session, verdicts, disturbed>>
  BY <1>1 DEF Retire, TypeInv, PeersAreDaemons
<1> HIDE DEF p
<1>3. CASE link' = [link EXCEPT ![d].stage = "parked"] /\ UNCHANGED teardown
  BY <1>2, <1>3, StageAccounted
<1>4. CASE teardown' = [teardown EXCEPT ![p] = "retired"] /\ UNCHANGED link
  <2>1. d \in AskersOf(p) /\ HandingOver(p)
    BY <1>2 DEF AskersOf, HandingOver
  <2>2. CASE p \notin disturbed
    <3>1. registry[p] = {} /\ \A e \in AskersOf(p) : e = d
      BY <1>1, <1>2, <2>1, <2>2 DEF ServerFor
    <3>2. link[d].todo = {}
      BY <1>1, <1>2, <2>2 DEF LinksOrdered
    <3>3. registry' = [registry EXCEPT ![p] = {}]
      BY <1>1, <1>2, <3>1 DEF TypeOK
    <3> QED
      BY <1>2, <1>4, <3>1, <3>2, <3>3, TornAccounted DEF Latched
  <2>3. CASE p \in disturbed
    <3>1. \A q \in Daemons : teardown'[q] = IF q = p THEN "retired" ELSE teardown[q]
      BY <1>1, <1>4 DEF TypeOK
    <3>2. LinksOrdered'
      BY <1>1, <1>2, <1>4 DEF LinksOrdered
    <3>3. StartsInOrder'
      BY <1>1, <1>2, <1>4, <3>1 DEF StartsInOrder, Serving
    <3>4. ASSUME NEW q \in Daemons PROVE ServerFor(q)'
      <4>1. AskersOf(q)' = AskersOf(q) /\ AskersOf(q) \subseteq Daemons /\ (HandingOver(q)' <=> HandingOver(q))
        BY <1>4 DEF AskersOf, HandingOver
      <4>2. \A e \in Daemons : \A s : OnItsWay(e, s)' <=> OnItsWay(e, s)
        BY <1>2, <1>4 DEF OnItsWay
      <4> QED
        BY <1>1, <1>2, <1>4, <2>3, <3>1, <4>1, <4>2 DEF ServerFor, Serving
    <3>5. LossAccounted
      <4>1. \A q \in Daemons : Holds(q)' = Holds(q)
        BY <1>2, <1>4 DEF Holds
      <4> QED
        BY <1>1, <1>2, <4>1, LossShape DEF Held
    <3> QED
      BY <1>1, <3>2, <3>3, <3>4, <3>5 DEF AccountInv
  <2> QED
    BY <2>2, <2>3
<1> QED
  BY <1>3, <1>4 DEF Retire, p

\* A daemon that is shut down while it hands over is disturbed by it.
LEMMA ShutdownAccounted ==
  ASSUME AccountInv, TypeInv', NEW p \in Daemons, NEW why \in Latched, Serving(p), Shutdown(p, why)
  PROVE  AccountInv' /\ LossAccounted
<1>1. TypeOK /\ TypeOK' /\ TypeInv /\ LinksOrdered /\ StartsInOrder /\ \A q \in Daemons : ServerFor(q)
  BY DEF AccountInv, TypeInv
<1>2. /\ teardown' = [teardown EXCEPT ![p] = why] /\ registry' = [registry EXCEPT ![p] = {}]
      /\ session' = [s \in Sessions |-> IF s \in registry[p] THEN "ended" ELSE session[s]]
      /\ disturbed' = IF HandingOver(p) THEN disturbed \cup {p} ELSE disturbed
      /\ UNCHANGED <<pc, drained, inherited, link, unlinked>>
  BY DEF Shutdown
<1>3. p \notin disturbed' => \A d \in AskersOf(p) : link[d].todo = {}
  BY <1>1, <1>2 DEF HandingOver, AskersOf, LinksOrdered
<1> QED
  BY <1>2, <1>3, TornAccounted

\* What a daemon that has been torn down still holds, another holds too.
LEMMA LatchedAccounted ==
  ASSUME AccountInv, TypeInv', NEW p \in Daemons, NEW how \in Gone, Serving(p), teardown[p] # "no",
         Leaves(p, how), UNCHANGED <<socket, link, teardown, unlinked, session, verdicts, disturbed>>
  PROVE  AccountInv' /\ LossAccounted
<1>1. TypeOK /\ TypeOK' /\ TypeInv /\ LinksOrdered /\ StartsInOrder /\ \A q \in Daemons : ServerFor(q)
  BY DEF AccountInv, TypeInv
<1>2. p \in disturbed' \/ \A s \in Holds(p) : \E q \in Daemons \ {p} : s \in Holds(q)
  <2> SUFFICES ASSUME p \notin disturbed, NEW s \in Holds(p) PROVE \E q \in Daemons \ {p} : s \in Holds(q)
    OBVIOUS
  <2>1. s \in drained[p]
    BY <1>1 DEF Holds, Serving, TypeInv, OnlyServersDrive, ServerFor
  <2>2. PICK d \in AskersOf(p) : pc[d] = "receiving" /\ OnItsWay(d, s)
    BY <1>1, <2>1 DEF ServerFor
  <2>3. link[d].todo = {} /\ d \in Daemons /\ d # p
    BY <1>1, <2>2 DEF ServerFor, AskersOf, Serving
  <2> QED
    BY <2>2, <2>3 DEF OnItsWay, Holds
<1> QED
  BY <1>2, LeavesAccounted DEF Serving

\* The steps of a hand-over.
LEMMA HandOverAccounted ==
  ASSUME AccountInv, TypeInv', NEW d \in Daemons, HandOverStep(d)
  PROVE  AccountInv' /\ LossAccounted
<1>1. TypeOK /\ TypeOK' /\ TypeInv /\ LinksOrdered /\ StartsInOrder /\ \A q \in Daemons : ServerFor(q)
  BY DEF AccountInv, TypeInv
<1>2. CASE SendFails(d)
  <2>1. /\ link[d].stage = "sending" /\ Serving(link[d].peer) /\ pc[d] # "receiving"
        /\ link' = [link EXCEPT ![d].stage = "broken"]
        /\ UNCHANGED <<pc, flock, socket, registry, drained, inherited, teardown, unlinked, session,
                       verdicts, disturbed>>
    BY <1>2 DEF SendFails
  <2>2. link[d].peer \in Daemons /\ d \in AskersOf(link[d].peer)
    BY <1>1, <2>1 DEF TypeInv, PeersAreDaemons, AskersOf
  <2>3. link[d].peer \in disturbed
    BY <1>1, <2>1, <2>2 DEF ServerFor
  <2> QED
    BY <2>1, <2>3, StageAccounted
<1> QED
  BY <1>2, HandOffAccounted, SendAccounted, RetireAccounted DEF HandOverStep

\* The steps of a daemon that is torn down, and its crash.
LEMMA LeaveAccounted ==
  ASSUME AccountInv, TypeInv', NEW p \in Daemons,
         LeaveStep(p) \/ IdleObserved(p) \/ IdleExit(p) \/ Crash(p)
  PROVE  AccountInv' /\ LossAccounted
<1>1. TypeOK /\ TypeOK' /\ TypeInv /\ LinksOrdered /\ StartsInOrder /\ \A q \in Daemons : ServerFor(q)
  BY DEF AccountInv, TypeInv
<1>2. CASE Unlink(p)
  <2>1. teardown[p] # "no" /\ unlinked' = unlinked \cup {p}
    BY <1>2 DEF Unlink, Latched
  <2> QED
    BY <1>2, <2>1, StillAccounted DEF Unlink
<1>3. CASE ExecLinger(p) \/ Exit(p) \/ ServeReturns(p)
  <2>1. /\ Serving(p) /\ teardown[p] # "no" /\ \E how \in Gone : Leaves(p, how)
        /\ UNCHANGED <<socket, link, teardown, unlinked, session, verdicts, disturbed>>
    BY <1>1, <1>3 DEF ExecLinger, Exit, ServeReturns, StartsInOrder, Latched, Gone
  <2> QED
    BY <2>1, LatchedAccounted
<1>4. CASE IdleObserved(p)
  <2>1. /\ registry' = [registry EXCEPT ![p] = {}] /\ registry[p] = {} /\ AskersOf(p) = {} /\ Serving(p)
        /\ teardown' = [teardown EXCEPT ![p] = "idling"]
        /\ UNCHANGED <<pc, drained, inherited, link, unlinked, session, disturbed>>
    BY <1>1, <1>4 DEF IdleObserved, TypeOK
  <2> QED
    BY <2>1, TornAccounted
<1>5. CASE IdleExit(p)
  <2>1. /\ Serving(p) /\ teardown[p] # "no" /\ teardown' = [teardown EXCEPT ![p] = "idle"]
        /\ UNCHANGED <<pc, registry, drained, inherited, link, unlinked, session, disturbed>>
    BY <1>5 DEF IdleExit
  <2>2. \A q \in Daemons : teardown'[q] = IF q = p THEN "idle" ELSE teardown[q]
    BY <1>1, <2>1 DEF TypeOK
  <2>3. LinksOrdered'
    BY <1>1, <2>1 DEF LinksOrdered
  <2>4. StartsInOrder'
    BY <1>1, <2>1, <2>2 DEF StartsInOrder, Serving
  <2>5. ASSUME NEW q \in Daemons PROVE ServerFor(q)'
    <3>1. AskersOf(q)' = AskersOf(q) /\ AskersOf(q) \subseteq Daemons /\ (HandingOver(q)' <=> HandingOver(q))
      BY <2>1 DEF AskersOf, HandingOver
    <3>2. \A e \in Daemons : \A s : OnItsWay(e, s)' <=> OnItsWay(e, s)
      BY <2>1 DEF OnItsWay
    <3> QED
      BY <1>1, <2>1, <2>2, <3>1, <3>2 DEF ServerFor, Serving
  <2>6. LossAccounted
    <3>1. \A q \in Daemons : Holds(q)' = Holds(q)
      BY <2>1 DEF Holds
    <3> QED
      BY <1>1, <2>1, <3>1, LossShape DEF Held
  <2> QED
    BY <1>1, <2>3, <2>4, <2>5, <2>6 DEF AccountInv
<1>6. CASE Crash(p)
  <2>1. /\ Leaves(p, "exited") /\ disturbed' = disturbed \cup ({p, link[p].peer} \ {Nobody})
        /\ UNCHANGED <<socket, link, teardown, unlinked, session, verdicts>> /\ "exited" \in Gone
    BY <1>6 DEF Crash, Gone
  <2>2. p \in disturbed' /\ (pc[p] = "receiving" => link[p].peer \in disturbed')
    BY <1>1, <2>1, DaemonsAssumption DEF TypeInv, PeersAreDaemons
  <2> QED
    BY <2>1, <2>2, LeavesAccounted
<1> QED
  BY <1>2, <1>3, <1>4, <1>5, <1>6 DEF LeaveStep

\* A session is created where clients are served, or ends.
LEMMA SessionAccounted ==
  ASSUME AccountInv, TypeInv', NEW p \in Daemons, NEW s \in Sessions, Create(p, s) \/ Kill(p, s)
  PROVE  AccountInv' /\ LossAccounted
<1>1. TypeOK /\ TypeOK' /\ TypeInv /\ LinksOrdered /\ StartsInOrder /\ \A q \in Daemons : ServerFor(q)
  BY DEF AccountInv, TypeInv
<1>2. /\ Serving(p) /\ UNCHANGED <<pc, flock, socket, drained, inherited, link, teardown, unlinked>>
      /\ disturbed \subseteq disturbed'
  BY DEF Create, Kill
<1>3. /\ \A q \in Daemons : q # p => registry'[q] = registry[q]
      /\ \/ registry'[p] \subseteq registry[p]
         \/ p \in disturbed' \/ (teardown[p] = "no" /\ ~HandingOver(p))
  BY <1>1 DEF Create, Kill, TypeOK
<1>4. LinksOrdered'
  BY <1>1, <1>2 DEF LinksOrdered
<1>5. StartsInOrder'
  BY <1>1, <1>2 DEF StartsInOrder
<1>6. ASSUME NEW q \in Daemons PROVE ServerFor(q)'
  <2>1. AskersOf(q)' = AskersOf(q) /\ AskersOf(q) \subseteq Daemons /\ (HandingOver(q)' <=> HandingOver(q))
    BY <1>2 DEF AskersOf, HandingOver
  <2>2. \A e \in Daemons : \A t : OnItsWay(e, t)' <=> OnItsWay(e, t)
    BY <1>2 DEF OnItsWay
  <2> QED
    BY <1>1, <1>2, <1>3, <2>1, <2>2 DEF ServerFor, Serving
<1>7. LossAccounted
  <2>1. \A q \in Daemons : q # p => Holds(q)' = Holds(q)
    BY <1>2, <1>3 DEF Holds
  <2>2. \A t \in Holds(p) : t = s \/ t \in Holds(p)'
    BY <1>1, <1>2 DEF Create, Kill, Holds, TypeOK
  <2>3. s \in Holds(p)' \/ session'[s] = "ended"
    BY <1>1 DEF Create, Kill, Holds, TypeOK
  <2>4. \A t \in Sessions : t # s => session'[t] = session[t]
    BY <1>1 DEF Create, Kill, TypeOK
  <2>5. \A t \in Sessions : t # s => (Held(t) => Held(t)')
    BY <2>1, <2>2 DEF Held
  <2>6. session'[s] = "live" => Held(s)'
    BY <2>3 DEF Held
  <2> QED
    BY <1>1, <2>4, <2>5, <2>6, LossShape
<1> QED
  BY <1>1, <1>4, <1>5, <1>6, <1>7 DEF AccountInv

\* The steps of clients.
LEMMA ClientAccounted ==
  ASSUME AccountInv, TypeInv', ClientStep
  PROVE  AccountInv' /\ LossAccounted
<1>1. TypeOK /\ TypeOK' /\ TypeInv /\ LinksOrdered /\ StartsInOrder /\ \A q \in Daemons : ServerFor(q)
  BY DEF AccountInv, TypeInv
<1>2. ASSUME NEW d \in Daemons, Spawn(d) PROVE AccountInv' /\ LossAccounted
  BY <1>1, <1>2, StillAccounted DEF Spawn, TypeOK, Gone, Fresh
<1>3. CASE CountEmpty
  BY <1>3, StillAccounted DEF CountEmpty
<1>4. CASE TearDownStale
  <2>1. CASE Listener # Nobody /\ teardown[Listener] \notin Latched
    <3>1. Shutdown(Listener, "torn")
      BY <1>4, <2>1 DEF TearDownStale
    <3> QED BY <1>1, <2>1, <3>1, ListenerServes, ShutdownAccounted DEF Latched
  <2>2. CASE ~(Listener # Nobody /\ teardown[Listener] \notin Latched)
    BY <1>4, <2>2, StillAccounted DEF TearDownStale
  <2> QED BY <2>1, <2>2
<1>5. CASE KillDaemon
  <2>1. CASE Listener # Nobody
    <3>1. Shutdown(Listener, "asked")
      BY <1>5, <2>1 DEF KillDaemon
    <3> QED BY <1>1, <2>1, <3>1, ListenerServes, ShutdownAccounted DEF Latched
  <2>2. CASE Listener = Nobody
    BY <1>5, <2>2, StillAccounted DEF KillDaemon
  <2> QED BY <2>1, <2>2
<1>6. CASE SweepSocket
  BY <1>6, StillAccounted DEF SweepSocket
<1> QED
  BY <1>2, <1>3, <1>4, <1>5, <1>6, SessionAccounted DEF ClientStep

\* Every step keeps the invariant, and loses nothing that is not accounted for.
LEMMA NextAccounted == AccountInv /\ [Next]_vars => AccountInv' /\ LossAccounted
<1> SUFFICES ASSUME AccountInv, [Next]_vars PROVE AccountInv' /\ LossAccounted
  OBVIOUS
<1>1. TypeInv'
  BY TypeInvKeeps DEF AccountInv
<1>2. CASE UNCHANGED vars
  BY <1>1, <1>2, StillAccounted DEF vars
<1>3. ASSUME NEW d \in Daemons, MainStep(d) \/ HandOverStep(d) PROVE AccountInv' /\ LossAccounted
  BY <1>1, <1>3, MainAccounted, HandOverAccounted
<1>4. ASSUME NEW d \in Daemons, LeaveStep(d) \/ IdleObserved(d) \/ IdleExit(d) \/ Crash(d)
      PROVE  AccountInv' /\ LossAccounted
  BY <1>1, <1>4, LeaveAccounted
<1>5. CASE ClientStep
  BY <1>1, <1>5, ClientAccounted
<1> QED
  BY <1>2, <1>3, <1>4, <1>5 DEF Next

\* To begin with, one daemon serves, nobody has asked it and nothing is handed off.
LEMMA InitAccounted == Init => AccountInv
<1> SUFFICES ASSUME Init PROVE AccountInv
  OBVIOUS
<1>1. TypeInv
  BY InitInvariant DEF IInv
<1>2. \A d \in Daemons : /\ link[d] = NoLink /\ inherited[d] = {} /\ drained[d] = {} /\ teardown[d] = "no"
                         /\ pc[d] \in {"serving", "unborn"}
  BY DEF Init
<1>3. LinksOrdered
  BY <1>2 DEF LinksOrdered, NoLink
<1>4. StartsInOrder
  BY <1>2 DEF StartsInOrder, Init
<1>5. ASSUME NEW p \in Daemons PROVE ServerFor(p)
  <2>1. AskersOf(p) = {}
    BY <1>2 DEF AskersOf, NoLink
  <2> QED
    BY <1>2, <2>1 DEF ServerFor, HandingOver
<1> QED
  BY <1>1, <1>3, <1>4, <1>5 DEF AccountInv

\* Whatever the environment does, however many daemons there are: when a live session is
\* lost, its last holder was a process that a known disturbance had met (hand_over,
\* Lifecycle, adopt_all).
THEOREM LossesAccounted == Spec => NothingLostUnlessDisturbed
<1>1. AccountInv /\ [Next]_vars => AccountInv' /\ [LossAccounted]_vars
  BY NextAccounted
<1>2. [LossAccounted]_vars => [\A s \in Lost' \ Lost : \E p \in disturbed' : s \in Holds(p)]_vars
  BY DEF LossAccounted
<1> QED
  BY <1>1, <1>2, InitAccounted, PTL DEF Spec, NothingLostUnlessDisturbed
-----------------------------------------------------------------------------
(* One successor, no budget that runs out: whom the socket path leads to.  *)

\* At most one daemon has been spawned beside the first.
LoneSuccessor ==
  \A d, e \in Daemons \ {First} : pc[d] # "unborn" /\ pc[e] # "unborn" => d = e

Behind == Fresh \cup {"receiving", "waiting"} \cup Gone

\* While the first daemon serves it holds the flock, and its socket until it is torn down;
\* the successor has not come past the flock, and waits for the first daemon alone.
BehindFirst ==
  Serving(First) =>
    /\ flock = First
    /\ teardown[First] \notin Latched => socket = First
    /\ \A d \in Daemons \ {First} :
         /\ pc[d] \in Behind
         /\ pc[d] \in {"receiving", "waiting"} => link[d].peer = First

\* The successor's own socket stays its own.
SuccessorFound ==
  \A d \in Daemons \ {First} : Serving(d) /\ teardown[d] \notin Latched => socket = d

ReachInv ==
  /\ TypeInv
  /\ pc[First] \in {"serving"} \cup Gone
  /\ "refused" \notin verdicts
  /\ LoneSuccessor => BehindFirst /\ SuccessorFound

BornDaemons == {d \in Daemons : pc[d] # "unborn"}

\* A process does not become unborn again, and one at most is spawned in a step.
LEMMA BirthShape ==
  ASSUME TypeInv, [Next]_vars
  PROVE  /\ \A d \in Daemons : pc[d] # "unborn" => pc'[d] # "unborn"
         /\ BornDaemons' \subseteq BornDaemons \/ \E d \in Daemons : BornDaemons' \subseteq BornDaemons \cup {d}
<1> USE DEF TypeInv, TypeOK
<1>1. ASSUME NEW d \in Daemons,
             \/ UNCHANGED pc
             \/ \E x \in Pcs \ {"unborn"} : pc' = [pc EXCEPT ![d] = x]
      PROVE  /\ \A e \in Daemons : pc[e] # "unborn" => pc'[e] # "unborn"
             /\ BornDaemons' \subseteq BornDaemons \cup {d}
  BY <1>1 DEF BornDaemons
<1>2. CASE UNCHANGED vars
  BY <1>2 DEF vars, BornDaemons
<1>3. ASSUME NEW d \in Daemons, MainStep(d)
      PROVE  UNCHANGED pc \/ \E x \in Pcs \ {"unborn"} : pc' = [pc EXCEPT ![d] = x]
  BY <1>3 DEF MainStep, TryLock, Probe, Ask, Recv, RecvEof, RecvTimeout, StopReading,
              AcquireFlock, LockTimeout, Reap, Bind, BindFails, Leaves, Pcs, Starting, Gone
<1>4. ASSUME NEW d \in Daemons, HandOverStep(d) \/ LeaveStep(d) \/ IdleObserved(d) \/ IdleExit(d) \/ Crash(d)
      PROVE  UNCHANGED pc \/ \E x \in Pcs \ {"unborn"} : pc' = [pc EXCEPT ![d] = x]
  BY <1>4 DEF HandOverStep, HandOff, SendBatch, SendFails, Retire, LeaveStep, Unlink, ExecLinger,
              Exit, ServeReturns, IdleObserved, IdleExit, Crash, Leaves, Pcs, Starting, Gone
<1>5. CASE ClientStep
  <2>1. ASSUME NEW d \in Daemons, Spawn(d)
        PROVE  \E x \in Pcs \ {"unborn"} : pc' = [pc EXCEPT ![d] = x]
    BY <2>1 DEF Spawn, Pcs, Starting
  <2>2. CASE ~\E d \in Daemons : Spawn(d)
    <3>1. UNCHANGED pc
      BY <1>5, <2>2 DEF ClientStep, Create, Kill, CountEmpty, TearDownStale, KillDaemon, Shutdown, SweepSocket
    <3> QED BY <3>1 DEF BornDaemons
  <2> QED BY <2>1, <2>2, <1>1
<1> QED
  BY <1>1, <1>2, <1>3, <1>4, <1>5 DEF Next

\* A step that neither moves a main thread, nor the flock, nor the socket, keeps everybody
\* reachable; nor does it matter that a daemon is torn down.
LEMMA StillReachable ==
  ASSUME ReachInv, TypeInv', UNCHANGED <<pc, flock, socket>>,
         \A d \in Daemons : teardown'[d] \notin Latched => teardown[d] \notin Latched,
         \A d \in Daemons : link'[d].peer = link[d].peer,
         "refused" \notin verdicts'
  PROVE  ReachInv'
<1> USE DEF ReachInv
<1>1. (LoneSuccessor' => LoneSuccessor) /\ pc' = pc /\ (\A d \in Daemons : Serving(d)' <=> Serving(d))
      /\ First \in Daemons
  BY DaemonsAssumption DEF LoneSuccessor, Serving
<1>2. LoneSuccessor => BehindFirst'
  BY <1>1 DEF BehindFirst
<1>3. LoneSuccessor => SuccessorFound'
  BY <1>1 DEF SuccessorFound
<1> QED
  BY <1>1, <1>2, <1>3

\* A process that leaves makes no other one unreachable.
LEMMA LeavesReachable ==
  ASSUME ReachInv, TypeInv', NEW p \in Daemons, NEW how \in Gone, Leaves(p, how), pc[p] # "unborn",
         UNCHANGED <<socket, link, teardown, verdicts>>
  PROVE  ReachInv'
<1> USE DEF ReachInv, TypeInv, TypeOK
<1>1. pc' = [pc EXCEPT ![p] = how] /\ how \notin {"unborn", "serving"}
  BY DEF Leaves, Gone
<1>2. LoneSuccessor' => LoneSuccessor
  BY <1>1 DEF LoneSuccessor
<1>3. pc'[First] \in {"serving"} \cup Gone
  BY <1>1, DaemonsAssumption
<1>4. LoneSuccessor => BehindFirst'
  <2>1. CASE p = First
    BY <1>1, <2>1, DaemonsAssumption DEF BehindFirst, Serving
  <2>2. CASE p # First
    <3>1. flock = First /\ First # Nobody => flock' = First
      BY <2>2 DEF Leaves
    <3>2. \A d \in Daemons : pc'[d] = pc[d] \/ pc'[d] \in Gone
      BY <1>1
    <3>3. \A d \in Daemons : pc'[d] \in {"receiving", "waiting"} => pc[d] \in {"receiving", "waiting"}
      BY <1>1 DEF Gone
    <3> QED BY <1>1, <2>2, <3>1, <3>2, <3>3, DaemonsAssumption DEF BehindFirst, Serving, Behind
  <2> QED BY <2>1, <2>2
<1>5. LoneSuccessor => SuccessorFound'
  BY <1>1 DEF SuccessorFound, Serving
<1> QED
  BY <1>2, <1>3, <1>4, <1>5

\* The steps by which a daemon starts: none comes past the flock while the first one serves.
LEMMA MainReachable ==
  ASSUME BudgetsMet, ReachInv, TypeInv', NEW d \in Daemons, MainStep(d)
  PROVE  ReachInv'
<1> USE DEF ReachInv, TypeInv, TypeOK
<1>t. pc \in [Daemons -> Pcs] /\ link \in [Daemons -> Links]
  OBVIOUS
<1>1. UNCHANGED <<teardown, verdicts>>
  BY DEF MainStep, TryLock, Probe, Ask, Recv, RecvEof, RecvTimeout, StopReading,
         AcquireFlock, LockTimeout, Reap, Bind, BindFails
<1>2. pc[d] \in Starting /\ d # First
  <2>1. pc[d] \in Starting
    BY DEF MainStep, TryLock, Probe, Ask, Recv, RecvEof, RecvTimeout, StopReading,
           AcquireFlock, LockTimeout, Reap, Bind, BindFails, Starting
  <2> QED BY <2>1 DEF Starting, Gone
<1>3. \/ \E how \in Gone : Leaves(d, how) /\ UNCHANGED <<socket, link>>
      \/ \E x \in Starting \cup {"serving"} : pc' = [pc EXCEPT ![d] = x]
  <2>1. CASE Recv(d)
    BY <2>1, <1>2 DEF Recv
  <2>2. CASE ~Recv(d)
    BY <2>2, <1>2 DEF MainStep, TryLock, Probe, Ask, RecvEof, RecvTimeout, StopReading,
           AcquireFlock, LockTimeout, Reap, Bind, BindFails, Starting, Gone
  <2> QED BY <2>1, <2>2
<1>4. CASE \E how \in Gone : Leaves(d, how) /\ UNCHANGED <<socket, link>>
  BY <1>1, <1>2, <1>4, LeavesReachable DEF Starting
<1>5. ASSUME NEW x \in Starting \cup {"serving"}, pc' = [pc EXCEPT ![d] = x] PROVE ReachInv'
  <2>1. (LoneSuccessor' => LoneSuccessor) /\ pc'[First] = pc[First] /\ (Serving(First)' <=> Serving(First))
    BY <1>2, <1>5, DaemonsAssumption DEF LoneSuccessor, Starting, Serving
  <2> SUFFICES ASSUME LoneSuccessor' PROVE BehindFirst' /\ SuccessorFound'
    BY <2>1, <1>1
  <2>2. LoneSuccessor /\ BehindFirst /\ SuccessorFound
    BY <2>1
  <2>3. \A e \in Daemons \ {First} : e # d => pc[e] = "unborn" /\ pc'[e] = "unborn"
    BY <1>2, <1>5 DEF LoneSuccessor, Starting
  <2>4. CASE Serving(First)
    <3>1. x # "serving" /\ UNCHANGED <<flock, socket>> /\ x \in Behind
          /\ (x \in {"receiving", "waiting"} => link'[d].peer = First)
      <4> HIDE DEF ReachInv, TypeInv
      <4>0. flock = First /\ First # Nobody /\ pc[d] \in Behind
            /\ (pc[d] \in {"receiving", "waiting"} => link[d].peer = First)
        BY <2>2, <2>4, <1>2, DaemonsAssumption DEF BehindFirst
      <4>1. CASE TryLock(d)
        BY <4>0, <4>1, <1>2, <1>5 DEF TryLock, Behind, Fresh, ReachInv, TypeInv
      <4>2. CASE Probe(d)
        BY <4>0, <4>2, <1>2, <1>5 DEF Probe, Leaves, Behind, Fresh, Starting, ReachInv, TypeInv
      <4>3. CASE Ask(d)
        <5>1. Listener # Nobody => Listener = First
          <6>1. ASSUME Listener # Nobody PROVE Listener \in Daemons /\ Serving(Listener)
            BY <6>1, ListenerServes DEF ReachInv, TypeInv
          <6> QED BY <6>1, <2>3, <1>2, <4>0 DEF Serving, Behind, Fresh, Gone
        <5>2. Listener # Nobody
          BY <4>3, <1>5 DEF Ask, Leaves, Starting, ReachInv, TypeInv
        <5>3. link' = [link EXCEPT ![d] = [NoLink EXCEPT !.peer = Listener, !.stage = "asked"]]
              /\ pc' = [pc EXCEPT ![d] = "receiving"] /\ UNCHANGED <<flock, socket>>
          BY <4>3, <5>2 DEF Ask
        <5>4. x = "receiving"
          BY <5>3, <1>5, <1>t
        <5>5. link'[d].peer = First
          BY <5>1, <5>2, <5>3, <1>t DEF NoLink
        <5> QED BY <5>3, <5>4, <5>5 DEF Behind
      <4>4. CASE Recv(d)
        BY <4>0, <4>4, <1>2, <1>5 DEF Recv, Behind, Links, ReachInv, TypeInv
      <4>5. CASE RecvEof(d) \/ RecvTimeout(d)
        BY <4>0, <4>5, <1>2, <1>5, <2>4 DEF RecvEof, RecvTimeout, BudgetsMet, Serving, Gone
      <4>6. CASE AcquireFlock(d) \/ LockTimeout(d)
        BY <4>0, <4>6 DEF AcquireFlock, LockTimeout, BudgetsMet
      <4>7. CASE Reap(d) \/ Bind(d) \/ BindFails(d)
        BY <4>0, <4>7 DEF Reap, Bind, BindFails, Behind, Fresh, Gone
      <4> QED BY <4>1, <4>2, <4>3, <4>4, <4>5, <4>6, <4>7 DEF MainStep
    <3>2. \A e \in Daemons \ {First} :
            pc'[e] \in Behind /\ (pc'[e] \in {"receiving", "waiting"} => link'[e].peer = First)
      BY <3>1, <2>3, <1>5 DEF Behind, Fresh
    <3>3. \A e \in Daemons \ {First} : ~Serving(e)'
      BY <3>1, <3>2 DEF Serving, Behind, Fresh, Gone
    <3> QED BY <1>1, <2>1, <2>2, <2>4, <3>1, <3>2, <3>3 DEF BehindFirst, SuccessorFound
  <2>5. CASE ~Serving(First)
    <3>1. x = "serving" => socket' = d
      BY <1>2, <1>5 DEF MainStep, TryLock, Probe, Ask, Recv, RecvEof, RecvTimeout, StopReading,
         AcquireFlock, LockTimeout, Reap, Bind, BindFails, Leaves, Starting
    <3>2. \A e \in Daemons \ {First} : Serving(e)' => e = d /\ x = "serving"
      BY <2>3, <1>5 DEF Serving
    <3> QED BY <2>1, <2>5, <3>1, <3>2 DEF BehindFirst, SuccessorFound
  <2> QED BY <2>4, <2>5
<1> QED
  BY <1>3, <1>4, <1>5

\* Only a daemon that is torn down removes its socket.
LEMMA UnlinkReachable ==
  ASSUME ReachInv, TypeInv', NEW p \in Daemons, Unlink(p)
  PROVE  ReachInv'
<1> USE DEF ReachInv, TypeInv, TypeOK
<1>1. Serving(p) /\ teardown[p] \in Latched /\ UNCHANGED <<pc, flock, link, teardown, verdicts>>
  BY DEF Unlink
<1>2. (LoneSuccessor' <=> LoneSuccessor) /\ UNCHANGED pc[First]
  BY <1>1 DEF LoneSuccessor
<1>3. ASSUME LoneSuccessor PROVE BehindFirst' /\ SuccessorFound'
  <2>1. CASE p = First
    BY <1>1, <1>3, <2>1 DEF BehindFirst, SuccessorFound, Serving, Behind, Fresh, Gone
  <2>2. CASE p # First
    <3>1. ~Serving(First)
      BY <1>1, <1>3, <2>2 DEF BehindFirst, Serving, Behind, Fresh, Gone
    <3>2. \A e \in Daemons \ {First} : Serving(e) => e = p
      BY <1>1, <1>3, <2>2 DEF LoneSuccessor, Serving
    <3> QED BY <1>1, <3>1, <3>2 DEF BehindFirst, SuccessorFound, Serving
  <2> QED BY <2>1, <2>2
<1> QED
  BY <1>1, <1>2, <1>3

\* A new process is no nearer to the socket than the flock.
LEMMA SpawnReachable ==
  ASSUME ReachInv, TypeInv', NEW d \in Daemons, Spawn(d)
  PROVE  ReachInv'
<1> USE DEF ReachInv, TypeInv, TypeOK
<1>1. pc[d] = "unborn" /\ pc' = [pc EXCEPT ![d] = "locking"]
      /\ UNCHANGED <<flock, socket, link, teardown, verdicts>>
  BY DEF Spawn
<1>2. d # First
  BY <1>1 DEF Gone
<1>3. LoneSuccessor' => LoneSuccessor
  BY <1>1 DEF LoneSuccessor
<1>4. LoneSuccessor => BehindFirst' /\ SuccessorFound'
  BY <1>1, <1>2, DaemonsAssumption DEF BehindFirst, SuccessorFound, Serving, Behind, Fresh
<1> QED
  BY <1>1, <1>2, <1>3, <1>4, DaemonsAssumption

\* Every step, when no budget runs out and no user kills the daemon.
LEMMA NextReachable ==
  ASSUME BudgetsMet, "killDaemon" \notin Events, ReachInv, [Next]_vars
  PROVE  ReachInv'
<1>1. TypeInv'
  BY TypeInvKeeps DEF ReachInv
<1>t. TypeInv /\ TypeOK /\ "refused" \notin verdicts
  BY DEF ReachInv, TypeInv
<1>2. CASE UNCHANGED vars
  BY <1>1, <1>t, <1>2, StillReachable DEF vars
<1>3. ASSUME NEW d \in Daemons, MainStep(d) PROVE ReachInv'
  BY <1>1, <1>3, MainReachable
<1>4. ASSUME NEW d \in Daemons, HandOverStep(d) PROVE ReachInv'
  <2>1. UNCHANGED <<pc, flock, socket, verdicts>>
    BY <1>4 DEF HandOverStep, HandOff, SendBatch, SendFails, Retire
  <2>2. \A e \in Daemons : link'[e].peer = link[e].peer
    <3>1. \A e \in Daemons : link[e] \in Links
      BY <1>t DEF TypeOK
    <3>2. \A l \in Links : \A x, y, z :
            /\ [l EXCEPT !.stage = x].peer = l.peer
            /\ [l EXCEPT !.stage = x, !.todo = y].peer = l.peer
            /\ [l EXCEPT !.todo = x, !.inbox = y, !.stage = z].peer = l.peer
      BY DEF Links
    <3>3. ASSUME HandOff(d) PROVE \A e \in Daemons : link'[e].peer = link[e].peer
      BY <3>1, <3>2, <3>3, <1>t DEF HandOff, TypeOK
    <3>4. ASSUME SendBatch(d) PROVE \A e \in Daemons : link'[e].peer = link[e].peer
      BY <3>1, <3>2, <3>4, <1>t DEF SendBatch, TypeOK
    <3>5. ASSUME SendFails(d) \/ Retire(d) PROVE \A e \in Daemons : link'[e].peer = link[e].peer
      <4>1. UNCHANGED link \/ \E x : link' = [link EXCEPT ![d] = [link[d] EXCEPT !.stage = x]]
        BY <3>5, <1>t DEF SendFails, Retire, TypeOK
      <4>2. ASSUME NEW x, link' = [link EXCEPT ![d] = [link[d] EXCEPT !.stage = x]]
            PROVE  \A e \in Daemons : link'[e].peer = link[e].peer
        <5>1. [link[d] EXCEPT !.stage = x].peer = link[d].peer
          BY <3>1 DEF Links
        <5>2. link'[d] = [link[d] EXCEPT !.stage = x] /\ \A e \in Daemons \ {d} : link'[e] = link[e]
          BY <4>2, <1>t DEF TypeOK
        <5> QED BY <5>1, <5>2
      <4> QED BY <4>1, <4>2
    <3> QED BY <1>4, <3>3, <3>4, <3>5 DEF HandOverStep
  <2>3. \A e \in Daemons : teardown'[e] \notin Latched => teardown[e] \notin Latched
    BY <1>4, <1>t DEF HandOverStep, HandOff, SendBatch, SendFails, Retire, TypeOK, Latched
  <2> QED BY <1>1, <1>t, <2>1, <2>2, <2>3, StillReachable
<1>5. ASSUME NEW p \in Daemons, IdleObserved(p) \/ IdleExit(p) PROVE ReachInv'
  <2>1. UNCHANGED <<pc, flock, socket, link, verdicts>>
        /\ \A e \in Daemons : teardown'[e] \notin Latched => teardown[e] \notin Latched
    BY <1>5, <1>t DEF IdleObserved, IdleExit, TypeOK, Latched
  <2> QED BY <1>1, <1>t, <2>1, StillReachable
<1>6. ASSUME NEW p \in Daemons, LeaveStep(p) \/ Crash(p) PROVE ReachInv'
  <2>1. CASE Unlink(p)
    BY <1>1, <2>1, UnlinkReachable
  <2>2. CASE ~Unlink(p)
    <3>1. \E how \in Gone : Leaves(p, how)
      BY <1>6, <2>2 DEF LeaveStep, ExecLinger, Exit, ServeReturns, Crash, Gone
    <3>2. pc[p] # "unborn" /\ UNCHANGED <<socket, link, teardown, verdicts>>
      BY <1>6, <2>2 DEF LeaveStep, ExecLinger, Exit, ServeReturns, Crash, Gone, Serving
    <3> QED BY <1>1, <3>1, <3>2, LeavesReachable
  <2> QED BY <2>1, <2>2
<1>7. CASE ClientStep
  <2>1. ASSUME NEW d \in Daemons, Spawn(d) PROVE ReachInv'
    BY <1>1, <2>1, SpawnReachable
  <2>2. CASE \E p \in Daemons, s \in Sessions : Create(p, s) \/ Kill(p, s)
    BY <1>1, <1>t, <2>2, StillReachable DEF Create, Kill
  <2>3. CASE CountEmpty
    BY <1>1, <1>t, <2>3, StillReachable DEF CountEmpty
  <2>4. CASE TearDownStale
    <3>1. UNCHANGED <<pc, flock, socket, link>> /\ "refused" \notin verdicts'
          /\ \A e \in Daemons : teardown'[e] \notin Latched => teardown[e] \notin Latched
      BY <2>4, <1>t DEF TearDownStale, Shutdown, TypeOK, Latched
    <3> QED BY <1>1, <3>1, StillReachable
  <2>5. ~KillDaemon /\ ~SweepSocket
    BY <1>t DEF KillDaemon, SweepSocket
  <2> QED BY <1>7, <2>1, <2>2, <2>3, <2>4, <2>5 DEF ClientStep
<1> QED
  BY <1>2, <1>3, <1>4, <1>5, <1>6, <1>7 DEF Next

\* Of two daemons that were born, one is the first.
LEMMA TwoBorn ==
  ASSUME IsFiniteSet(BornDaemons), First \in BornDaemons, Cardinality(BornDaemons) <= 2
  PROVE  LoneSuccessor
<1> SUFFICES ASSUME NEW d \in Daemons \ {First}, NEW e \in Daemons \ {First},
                    pc[d] # "unborn", pc[e] # "unborn", d # e
             PROVE  FALSE
  BY DEF LoneSuccessor
<1>1. {First, d, e} \subseteq BornDaemons
  BY DEF BornDaemons
<1>2. Cardinality({First}) = 1 /\ IsFiniteSet({First})
  BY FS_Singleton
<1>3. Cardinality({First} \cup {d}) = 2 /\ IsFiniteSet({First} \cup {d})
  <2>1. d \notin {First}
    OBVIOUS
  <2>2. Cardinality({First} \cup {d}) = Cardinality({First}) + 1
    BY <1>2, <2>1, FS_AddElement, Zenon
  <2>3. IsFiniteSet({First} \cup {d})
    BY <1>2, FS_AddElement, Zenon
  <2> QED BY <1>2, <2>2, <2>3
<1>4. Cardinality(({First} \cup {d}) \cup {e}) = 3
  <2>1. e \notin {First} \cup {d}
    OBVIOUS
  <2>2. Cardinality(({First} \cup {d}) \cup {e}) = Cardinality({First} \cup {d}) + 1
    BY <1>3, <2>1, FS_AddElement, Zenon
  <2> QED BY <1>3, <2>2
<1>5. ({First} \cup {d}) \cup {e} = {First, d, e}
  OBVIOUS
<1>6. Cardinality({First, d, e}) <= Cardinality(BornDaemons)
  BY <1>1, FS_Subset
<1>7. Cardinality(BornDaemons) \in Nat
  BY FS_CardinalityType
<1> QED
  BY <1>4, <1>5, <1>6, <1>7

\* A successor that takes over in time, and only it: the socket path leads to every daemon
\* that serves and is not on its way out, whatever crashes and whatever cannot be adopted
\* or run (run's reap and bind, unlink_socket).
THEOREM AlwaysReachable ==
  BudgetsMet /\ "killDaemon" \notin Events => (Spec => []ServingIsReachable)
<1> SUFFICES ASSUME BudgetsMet, "killDaemon" \notin Events PROVE Spec => []ServingIsReachable
  OBVIOUS
<1> DEFINE RInv == ReachInv /\ IsFiniteSet(BornDaemons)
<1>1. ASSUME Init PROVE RInv
  <2>1. TypeInv
    BY <1>1, InitInvariant DEF IInv
  <2>2. pc = [d \in Daemons |-> IF d = First THEN "serving" ELSE "unborn"]
        /\ flock = First /\ socket = First /\ verdicts = {}
    BY <1>1 DEF Init
  <2>3. BornDaemons = {First}
    BY <2>2, DaemonsAssumption DEF BornDaemons
  <2>4. IsFiniteSet(BornDaemons)
    BY <2>3, FS_Singleton
  <2>5. BehindFirst /\ SuccessorFound
    BY <2>2, DaemonsAssumption DEF BehindFirst, SuccessorFound, Serving, Behind, Fresh
  <2> QED BY <2>1, <2>2, <2>4, <2>5, DaemonsAssumption DEF ReachInv
<1>2. ASSUME RInv, [Next]_vars PROVE RInv'
  <2>1. ReachInv'
    BY <1>2, NextReachable
  <2>2. BornDaemons' \subseteq BornDaemons \/ \E d \in Daemons : BornDaemons' \subseteq BornDaemons \cup {d}
    BY <1>2, BirthShape DEF ReachInv
  <2>3. \A d \in Daemons : IsFiniteSet(BornDaemons \cup {d})
    BY <1>2, FS_AddElement
  <2>4. IsFiniteSet(BornDaemons')
    BY <1>2, <2>2, <2>3, FS_Subset
  <2> QED BY <2>1, <2>4
<1>3. ASSUME RInv PROVE ServingIsReachable
  <2>1. First \in BornDaemons
    BY <1>3, DaemonsAssumption DEF BornDaemons, ReachInv, Gone
  <2> SUFFICES ASSUME Cardinality(BornDaemons) <= 2, NEW d \in Daemons, Serving(d), teardown[d] \notin Latched
               PROVE  socket = d
    BY DEF ServingIsReachable, BornDaemons
  <2>2. LoneSuccessor
    BY <1>3, <2>1, TwoBorn
  <2>3. BehindFirst /\ SuccessorFound
    BY <1>3, <2>2 DEF ReachInv
  <2> QED BY <2>3 DEF BehindFirst, SuccessorFound
<1> QED
  BY <1>1, <1>2, <1>3, PTL DEF Spec
=============================================================================
