---------------------------- MODULE ServicesProofs ----------------------------
(***************************************************************************)
(* Proofs about services of the program, for any instances and any number  *)
(* of servers, any packages, builds of the program and numbers of requests,*)
(* failures and launches.                                                  *)
(***************************************************************************)
EXTENDS MCServices, ClaimTableProofs, ModuleHostProofs, TLAPS

(***************************************************************************)
(* control.json: unless two servers started together, an owner's name      *)
(* could not be read, or a server was stopped between its bind and its     *)
(* write, the file leads to the server that serves and to no other.        *)
(***************************************************************************)

Holding == {"guarding", "binding", "writing", "serving", "refused"}
Claiming == {"binding", "writing"}

\* An instance holds one server at a time, and none while it removes the file.
HoldsOne ==
  /\ \A s, t \in Servers :
       server[s].at \in Holding /\ server[t].at \in Holding /\ Owner(s) = Owner(t) => s = t
  /\ \A s \in Servers : server[s].at \in Holding => Owner(s) \notin removing

\* The file was written by a server, and an aborted one was blurred.
Written ==
  /\ file # NoFile => server[file].at # "none"
  /\ blurred = {} => \A s \in Servers : server[s].at # "aborted"

\* One that is past the guard is alone there, and the file is its own instance's,
\* or nobody's, or that of one that died.
ClaimsAlone ==
  blurred = {} =>
    /\ \A s, t \in Servers : server[s].at \in Claiming /\ server[t].at \in Claiming => s = t
    /\ \A s \in Servers : server[s].at \in Claiming => ~Foreign(s)

\* One that is to remove the file has it, to the end.
RemovesItsOwn ==
  blurred = {} => \A i \in removing : file # NoFile /\ Owner(file) = i

DiscoveryInv ==
  /\ DiscoveryTypeOK
  /\ HoldsOne /\ Written
  /\ ClaimsAlone /\ RemovesItsOwn
  /\ ServersAreFound /\ NoDeadPort
-----------------------------------------------------------------------------
\* The state of the discovery is of its types.
LEMMA DiscoveryTyped == DiscoverySpec => []DiscoveryTypeOK
<1> USE DEF DiscoveryTypeOK, Owner, Stages, Blurs, Advance, Blur
<1>1. DiscoveryInit => DiscoveryTypeOK
  BY DiscoveryAssumption DEF DiscoveryInit, NoFile
<1>2. DiscoveryTypeOK /\ [DiscoveryNext]_discoveryVars => DiscoveryTypeOK'
  <2> SUFFICES ASSUME DiscoveryTypeOK, [DiscoveryNext]_discoveryVars
               PROVE  DiscoveryTypeOK'
    OBVIOUS
  <2>1. ASSUME NEW i \in Instances, StartServer(i) PROVE DiscoveryTypeOK'
    BY <2>1 DEF StartServer
  <2>2. ASSUME NEW i \in Instances, StopServer(i) PROVE DiscoveryTypeOK'
    BY <2>2 DEF StopServer, Held
  <2>3. ASSUME NEW i \in Instances, RemoveFile(i) PROVE DiscoveryTypeOK'
    BY <2>3 DEF RemoveFile
  <2>4. ASSUME NEW i \in Instances, EndInstance(i) PROVE DiscoveryTypeOK'
    BY <2>4 DEF EndInstance, LeftUnremoved
  <2>5. ASSUME NEW s \in Servers, PassGuard(s) PROVE DiscoveryTypeOK'
    BY <2>5 DEF PassGuard
  <2>6. ASSUME NEW s \in Servers, Refuse(s) PROVE DiscoveryTypeOK'
    BY <2>6 DEF Refuse
  <2>7. ASSUME NEW s \in Servers, BindPort(s) PROVE DiscoveryTypeOK'
    BY <2>7 DEF BindPort
  <2>8. ASSUME NEW s \in Servers, WriteFile(s) PROVE DiscoveryTypeOK'
    BY <2>8 DEF WriteFile
  <2>9. CASE UNCHANGED discoveryVars
    BY <2>9 DEF discoveryVars
  <2> QED
    BY <2>1, <2>2, <2>3, <2>4, <2>5, <2>6, <2>7, <2>8, <2>9 DEF DiscoveryNext
<1> QED BY <1>1, <1>2, PTL DEF DiscoverySpec
-----------------------------------------------------------------------------
\* What each step does to the stages of the servers, the owners of those that were
\* started staying as they are.
LEMMA AdvanceOnly ==
  ASSUME DiscoveryTypeOK, NEW s \in Servers, NEW stage \in Stages, Advance(s, stage)
  PROVE  /\ \A t \in Servers : Owner(t)' = Owner(t)
         /\ server'[s].at = stage
         /\ \A t \in Servers \ {s} : server'[t].at = server[t].at
  BY DEF DiscoveryTypeOK, Advance, Owner

\* Every step keeps the inductive invariant.
LEMMA DiscoveryKept ==
  ASSUME DiscoveryInv, DiscoveryTypeOK', [DiscoveryNext]_discoveryVars
  PROVE  DiscoveryInv'
<1> NoFile \notin Servers
  BY DiscoveryAssumption DEF Servers, NoFile
<1> USE DEF DiscoveryInv, HoldsOne, Written, ClaimsAlone, RemovesItsOwn, ServersAreFound, NoDeadPort,
            Holding, Claiming, Foreign
<1>1. ASSUME NEW i \in Instances, StartServer(i) PROVE DiscoveryInv'
  <2>1. PICK s \in Servers :
               /\ server[s].at = "none" /\ Held(i) = {} /\ i \in living \ removing
               /\ server' = [server EXCEPT ![s] = [of |-> i, at |-> "guarding"]]
               /\ UNCHANGED <<file, living, removing, blurred>>
    BY <1>1 DEF StartServer
  <2>2. /\ \A t \in Servers \ {s} : Owner(t)' = Owner(t) /\ server'[t].at = server[t].at
        /\ Owner(s)' = i /\ server'[s].at = "guarding"
    BY <2>1 DEF Owner, DiscoveryTypeOK
  <2>3. \A t \in Servers : server[t].at \in Holding => Owner(t) # i
    BY <2>1 DEF Held
  <2>4. HoldsOne'
    BY <2>1, <2>2, <2>3 DEF DiscoveryTypeOK
  <2>5. Written'
    BY <2>1, <2>2, <2>3 DEF DiscoveryTypeOK
  <2>6. ClaimsAlone'
    BY <2>1, <2>2, <2>3 DEF DiscoveryTypeOK
  <2>7. RemovesItsOwn'
    BY <2>1, <2>2, <2>3 DEF DiscoveryTypeOK
  <2>8. ServersAreFound'
    BY <2>1, <2>2, <2>3 DEF DiscoveryTypeOK
  <2>9. NoDeadPort'
    BY <2>1, <2>2, <2>3 DEF DiscoveryTypeOK
  <2> QED BY <2>4, <2>5, <2>6, <2>7, <2>8, <2>9
<1>2. ASSUME NEW i \in Instances, StopServer(i) PROVE DiscoveryInv'
  <2>1. PICK s \in Held(i) :
               /\ Advance(s, IF server[s].at = "writing" THEN "aborted" ELSE "over")
               /\ blurred' = blurred \cup {m \in {"late"} : server[s].at = "writing"}
               /\ i \in living \ removing
               /\ removing' = IF Own(i) THEN removing \cup {i} ELSE removing
               /\ UNCHANGED <<file, living>>
    BY <1>2 DEF StopServer, Blur
  <2>2. /\ s \in Servers /\ Owner(s) = i /\ server[s].at \in Holding
        /\ \A t \in Servers : Owner(t)' = Owner(t)
        /\ \A t \in Servers \ {s} : server'[t].at = server[t].at
        /\ server'[s].at = IF server[s].at = "writing" THEN "aborted" ELSE "over"
    BY <2>1, AdvanceOnly DEF Held, Stages
  <2>3. removing' = removing \cup {k \in {i} : file # NoFile /\ Owner(file) = i}
    BY <2>1 DEF Own
  <2>4. HoldsOne'
    BY SMTT(30), <2>1, <2>2, <2>3 DEF DiscoveryTypeOK
  <2>5. Written'
    BY <2>1, <2>2, <2>3 DEF DiscoveryTypeOK
  <2>6. ClaimsAlone'
    BY <2>1, <2>2, <2>3 DEF DiscoveryTypeOK
  <2>7. RemovesItsOwn'
    BY <2>1, <2>2, <2>3 DEF DiscoveryTypeOK
  <2>8. ServersAreFound'
    BY <2>1, <2>2, <2>3 DEF DiscoveryTypeOK
  <2>9. NoDeadPort'
    BY <2>1, <2>2, <2>3 DEF DiscoveryTypeOK
  <2> QED BY <2>4, <2>5, <2>6, <2>7, <2>8, <2>9
<1>3. ASSUME NEW i \in Instances, RemoveFile(i) PROVE DiscoveryInv'
  BY <1>3 DEF DiscoveryTypeOK, Owner, RemoveFile
<1>4. ASSUME NEW i \in Instances, EndInstance(i) PROVE DiscoveryInv'
  <2>1. /\ removing' = removing \ {i} /\ living' = living \ {i}
        /\ UNCHANGED <<file, blurred>>
        /\ \A t \in Servers :
             /\ Owner(t)' = Owner(t)
             /\ server'[t].at = IF Owner(t) = i /\ server[t].at # "none"
                                THEN "over" ELSE server[t].at
    BY <1>4 DEF EndInstance, LeftUnremoved, DiscoveryTypeOK, Owner
  <2>2. HoldsOne'
    BY <2>1 DEF DiscoveryTypeOK
  <2>3. Written'
    BY <2>1 DEF DiscoveryTypeOK
  <2>4. ClaimsAlone'
    BY <2>1 DEF DiscoveryTypeOK
  <2>5. RemovesItsOwn'
    BY <2>1 DEF DiscoveryTypeOK
  <2>6. ServersAreFound'
    BY <2>1 DEF DiscoveryTypeOK
  <2>7. NoDeadPort'
    BY <2>1 DEF DiscoveryTypeOK
  <2> QED BY <2>2, <2>3, <2>4, <2>5, <2>6, <2>7
<1>5. ASSUME NEW s \in Servers, PassGuard(s) PROVE DiscoveryInv'
  <2>1. /\ server[s].at = "guarding"
        /\ UNCHANGED <<file, living, removing>>
        /\ \A t \in Servers : Owner(t)' = Owner(t)
        /\ \A t \in Servers \ {s} : server'[t].at = server[t].at
        /\ server'[s].at = "binding"
    BY <1>5, AdvanceOnly DEF PassGuard, Stages
  <2>2. /\ blurred' = {} => blurred = {} /\ ~Foreign(s) /\ ~OnTheWay(s)
        /\ blurred \subseteq blurred'
    BY <1>5 DEF PassGuard, Blur
  <2>3. ASSUME blurred' = {}, NEW t \in Servers, server[t].at \in Claiming
        PROVE  FALSE
    BY <2>1, <2>2, <2>3 DEF OnTheWay
  <2>4. HoldsOne'
    BY <2>1, <2>2, <2>3 DEF DiscoveryTypeOK
  <2>5. Written'
    BY <2>1, <2>2, <2>3 DEF DiscoveryTypeOK
  <2>6. ClaimsAlone'
    BY <2>1, <2>2, <2>3 DEF DiscoveryTypeOK
  <2>7. RemovesItsOwn'
    BY <2>1, <2>2, <2>3 DEF DiscoveryTypeOK
  <2>8. ServersAreFound'
    BY <2>1, <2>2, <2>3 DEF DiscoveryTypeOK
  <2>9. NoDeadPort'
    BY <2>1, <2>2, <2>3 DEF DiscoveryTypeOK
  <2> QED BY <2>4, <2>5, <2>6, <2>7, <2>8, <2>9
<1>6. ASSUME NEW s \in Servers, Refuse(s) PROVE DiscoveryInv'
  <2>1. /\ server[s].at = "guarding"
        /\ UNCHANGED <<file, living, removing, blurred>>
        /\ \A t \in Servers : Owner(t)' = Owner(t)
        /\ \A t \in Servers \ {s} : server'[t].at = server[t].at
        /\ server'[s].at = "refused"
    BY <1>6, AdvanceOnly DEF Refuse, Stages
  <2>2. HoldsOne'
    BY <2>1 DEF DiscoveryTypeOK
  <2>3. Written'
    BY <2>1 DEF DiscoveryTypeOK
  <2>4. ClaimsAlone'
    BY <2>1 DEF DiscoveryTypeOK
  <2>5. RemovesItsOwn'
    BY <2>1 DEF DiscoveryTypeOK
  <2>6. ServersAreFound'
    BY <2>1 DEF DiscoveryTypeOK
  <2>7. NoDeadPort'
    BY <2>1 DEF DiscoveryTypeOK
  <2> QED BY <2>2, <2>3, <2>4, <2>5, <2>6, <2>7
<1>7. ASSUME NEW s \in Servers, BindPort(s) PROVE DiscoveryInv'
  <2>1. /\ server[s].at = "binding"
        /\ UNCHANGED <<file, living, removing, blurred>>
        /\ \A t \in Servers : Owner(t)' = Owner(t)
        /\ \A t \in Servers \ {s} : server'[t].at = server[t].at
        /\ server'[s].at = "writing"
    BY <1>7, AdvanceOnly DEF BindPort, Stages
  <2>2. HoldsOne'
    BY <2>1 DEF DiscoveryTypeOK
  <2>3. Written'
    BY <2>1 DEF DiscoveryTypeOK
  <2>4. ClaimsAlone'
    BY <2>1 DEF DiscoveryTypeOK
  <2>5. RemovesItsOwn'
    BY <2>1 DEF DiscoveryTypeOK
  <2>6. ServersAreFound'
    BY <2>1 DEF DiscoveryTypeOK
  <2>7. NoDeadPort'
    BY <2>1 DEF DiscoveryTypeOK
  <2> QED BY <2>2, <2>3, <2>4, <2>5, <2>6, <2>7
<1>8. ASSUME NEW s \in Servers, WriteFile(s) PROVE DiscoveryInv'
  <2>1. /\ server[s].at \in {"writing", "aborted"}
        /\ file' = s /\ UNCHANGED <<living, removing, blurred>>
        /\ \A t \in Servers : Owner(t)' = Owner(t)
        /\ \A t \in Servers \ {s} : server'[t].at = server[t].at
        /\ server'[s].at = IF server[s].at = "writing" THEN "serving" ELSE "over"
    BY <1>8, AdvanceOnly DEF WriteFile, Stages
  <2>2. HoldsOne' /\ Written'
    BY <2>1
  <2>3. ASSUME blurred = {} PROVE server[s].at = "writing" /\ removing = {}
    BY <2>1, <2>3 DEF DiscoveryTypeOK
  <2>4. ClaimsAlone' /\ RemovesItsOwn'
    BY <2>1, <2>3 DEF DiscoveryTypeOK
  <2>5. ServersAreFound' /\ NoDeadPort'
    BY <2>1, <2>3 DEF DiscoveryTypeOK, Owner
  <2> QED BY <2>2, <2>4, <2>5
<1>9. CASE UNCHANGED discoveryVars
  BY <1>9 DEF discoveryVars, DiscoveryTypeOK, Owner
<1> QED
  BY <1>1, <1>2, <1>3, <1>4, <1>5, <1>6, <1>7, <1>8, <1>9 DEF DiscoveryNext

\* The file and the servers agree in these ways always.
THEOREM DiscoveryInvHolds == DiscoverySpec => []DiscoveryInv
<1>1. DiscoveryInit /\ DiscoveryTypeOK => DiscoveryInv
  BY DEF DiscoveryInit, DiscoveryTypeOK, DiscoveryInv, HoldsOne, Written, ClaimsAlone, RemovesItsOwn,
         ServersAreFound, NoDeadPort, Holding, Claiming, NoFile
<1>2. DiscoveryInv /\ DiscoveryTypeOK' /\ [DiscoveryNext]_discoveryVars => DiscoveryInv'
  BY DiscoveryKept
<1> QED BY <1>1, <1>2, DiscoveryTyped, PTL DEF DiscoverySpec

\* A server that serves is the one that control.json leads to.
THEOREM ServersAlwaysFound == DiscoverySpec => []ServersAreFound
<1>1. DiscoveryInv => ServersAreFound
  BY DEF DiscoveryInv
<1> QED BY <1>1, DiscoveryInvHolds, PTL

\* control.json never leads to a server that has been stopped.
THEOREM NeverADeadPort == DiscoverySpec => []NoDeadPort
<1>1. DiscoveryInv => NoDeadPort
  BY DEF DiscoveryInv
<1> QED BY <1>1, DiscoveryInvHolds, PTL

(***************************************************************************)
(* The installed modules.                                                  *)
(***************************************************************************)

Filling == {"clear", "make", "populate", "record", "readPins", "pin", "load", "activate"}
Emptying == {"remove", "readPin", "unpin"}

PinTable == [Modules -> Versions \cup {NoPin}]
Work == [does : {"nothing", "seed", "retire", "install", "uninstall"},
         pkg : Packages \cup {<<>>}, at : Steps, read : PinTable]

\* What a thread is at goes with what it does, and that with how far the program
\* has come: nothing is asked for before it runs, and it boots alone.
WorkFits ==
  /\ work \in [Threads -> Work]
  /\ \A t \in Threads :
       /\ work[t].does = "nothing" <=> work[t].at = "start"
       /\ work[t].at = "start" => work[t] = NoWork
       /\ work[t].at # "start" => work[t].pkg \in Packages
       /\ work[t].does \in {"seed", "install"} => work[t].at \in Filling
       /\ work[t].does \in {"retire", "uninstall"} => work[t].at \in Emptying
       /\ work[t].at \in {"load", "activate"} => work[t].does = "install"
  /\ \A t \in Jobs : work[t].does \in {"nothing", "install", "uninstall"}
  /\ work[Boot].does \in {"nothing"}
       \cup (CASE app.stage = "seeding" -> {"seed"} [] app.stage = "retiring" -> {"retire"}
               [] OTHER -> {})
  /\ app.stage = "down" => work[Boot] = NoWork
  /\ app.stage # "running" => \A t \in Jobs : work[t] = NoWork

AppFits ==
  /\ app \in [stage : {"down", "seeding", "retiring", "running"}, ships : SUBSET Packages,
              renames : SUBSET (Modules \X Modules), todo : SUBSET Packages,
              read : SUBSET Packages, seen : SUBSET Packages, hurt : BOOLEAN]
  /\ app.stage = "down" => app = NotRunning
  /\ \A r \in app.renames : \E p \in app.ships : p[1] = r[2]

StoreTyped ==
  /\ disk \in [Packages -> DirStates] /\ pins \in PinTable
  /\ offered \subseteq Packages /\ refused \subseteq Packages /\ lost \subseteq Packages
  /\ forgotten \subseteq Packages
  /\ unpinned \subseteq Modules /\ mishaps \subseteq Modules
  /\ WorkFits /\ AppFits
-----------------------------------------------------------------------------
\* A package is told by its module and its version, which is no NoPin.
LEMMA PackageFacts ==
  /\ \A p \in Packages : p[1] \in Modules /\ p[2] \in Versions /\ p[2] # NoPin /\ p[2] \in Nat
  /\ \A p, q \in Packages : p[1] = q[1] /\ p[2] = q[2] => p = q
  /\ \A p \in Packages : <<p[1], p[2]>> = p
  /\ NoPins \in PinTable
<1>1. \A p \in Packages : p = <<p[1], p[2]>> /\ p[2] \in Nat \ {0}
  BY StoreAssumption
<1>2. \A p, q \in Packages : p[1] = q[1] /\ p[2] = q[2] => p = q
  BY <1>1, Zenon
<1> QED
  BY <1>1, <1>2 DEF Modules, Versions, NoPin, NoPins, PinTable

\* What a thread's move does to the work of all: it goes on with its package, or
\* it is done.
GoesOn(t, steps) ==
  /\ work' \in [Threads -> Work]
  /\ \A u \in Threads \ {t} : work'[u] = work[u]
  /\ \/ work'[t] = NoWork
     \/ /\ work'[t].at \in steps
        /\ work'[t].does = work[t].does /\ work'[t].pkg = work[t].pkg

\* A thread that goes on along the stages of its job, or ends it, fits.
LEMMA GoesOnFits ==
  ASSUME StoreTyped, NEW t \in Threads, work[t].at # "start", NEW steps,
         GoesOn(t, steps),
         \/ steps \subseteq Filling /\ work[t].at \in Filling
         \/ steps \subseteq Emptying /\ work[t].at \in Emptying,
         \A s \in steps : s \in {"load", "activate"} => work[t].does = "install",
         app'.stage = app.stage
  PROVE  WorkFits'
<1>1. t \in Jobs \/ t = Boot
  BY DEF Threads
<1>2. work[t].does # "nothing"
  BY DEF StoreTyped, WorkFits
<1> QED
  BY <1>1, <1>2 DEF GoesOn, StoreTyped, WorkFits, Threads, NoWork, Filling, Emptying, Work

\* A job that ends is a job that goes on, wherever it was to go.
LEMMA Ending ==
  ASSUME StoreTyped, NEW t \in Threads, work' = [work EXCEPT ![t] = NoWork]
  PROVE  \A steps : GoesOn(t, steps)
<1>1. NoWork \in Work
  BY PackageFacts DEF NoWork, Work, Steps
<1> QED
  BY <1>1 DEF GoesOn, StoreTyped, WorkFits

\* GoTo and ReadAs take a thread on with its package.
LEMMA Advancing ==
  ASSUME StoreTyped, NEW t \in Threads, NEW step \in Steps, GoTo(t, step) \/ ReadAs(t, step)
  PROVE  GoesOn(t, {step}) /\ work'[t].at = step
BY DEF GoesOn, GoTo, ReadAs, StoreTyped, WorkFits, Work
\* The parts of the typing that are no thread's work.
DataTyped ==
  /\ disk \in [Packages -> DirStates] /\ pins \in PinTable
  /\ offered \subseteq Packages /\ refused \subseteq Packages /\ lost \subseteq Packages
  /\ forgotten \subseteq Packages
  /\ unpinned \subseteq Modules /\ mishaps \subseteq Modules
  /\ AppFits

\* Every move of a thread keeps the types.
LEMMA JobsTyped ==
  ASSUME StoreTyped, NEW t \in Threads, JobMoves(t)
  PROVE  StoreTyped'
<1> USE DEF At
<1>1. ASSUME work[t] # NoWork
      PROVE  work[t].at # "start" /\ Pkg(t) \in Packages /\ Mod(t) \in Modules
             /\ work[t].read \in PinTable /\ Pkg(t)[2] \in Versions
  BY <1>1, PackageFacts DEF StoreTyped, WorkFits, Work, Pkg, Mod
<1>2. \A states : states \subseteq DirStates /\ Pkg(t) \in Packages /\ Becomes(Pkg(t), states)
        => disk' \in [Packages -> DirStates]
  BY DEF Becomes, StoreTyped
<1>3. ASSUME work[t] # NoWork, Failed(t)
      PROVE  (\A steps : GoesOn(t, steps)) /\ mishaps' \subseteq Modules
  BY <1>1, <1>3, Ending DEF Failed, StoreTyped
<1>4. ASSUME work[t] # NoWork, Fault(t)
      PROVE  AppFits' /\ app'.stage = app.stage
  <2>1. app.stage # "down"
    BY <1>4 DEF StoreTyped, WorkFits, Threads
  <2> QED
    BY <1>4, <2>1 DEF Fault, StoreTyped, AppFits
<1>5. ASSUME work[t] # NoWork, Done(t)
      PROVE  (\A steps : GoesOn(t, steps)) /\ AppFits' /\ app'.stage = app.stage
  <2>1. \A steps : GoesOn(t, steps)
    BY <1>5, Ending DEF Done
  <2>2. app'.stage = app.stage /\ app' \in [stage : {"down", "seeding", "retiring", "running"},
              ships : SUBSET Packages, renames : SUBSET (Modules \X Modules),
              todo : SUBSET Packages, read : SUBSET Packages, seen : SUBSET Packages, hurt : BOOLEAN]
        /\ app'.ships = app.ships /\ app'.renames = app.renames
    BY <1>1, <1>5 DEF Done, StoreTyped, AppFits
  <2>3. app.stage # "down"
    BY <1>5, <1>1 DEF StoreTyped, WorkFits, Threads
  <2> QED
    BY <2>1, <2>2, <2>3 DEF StoreTyped, AppFits
<1>6. ASSUME work[t] # NoWork, NEW v \in Versions \cup {NoPin}, WritePins(t, v)
      PROVE  pins' \in PinTable /\ mishaps' \subseteq Modules /\ unpinned' \subseteq Modules
  BY <1>1, <1>6 DEF WritePins, StoreTyped, PinTable
<1>7. DirStates = {"none", "empty", "staged", "hollow", "whole"}
  BY DEF DirStates
<1>8. /\ \A s \in DirStates : {"none"} \cup Left(s) \subseteq DirStates
      /\ \A s \in DirStates : Made(s) \in DirStates /\ WithArtifact(s) \in DirStates
      /\ Pkg(t) \in Packages => disk[Pkg(t)] \in DirStates
  BY DEF Left, Made, WithArtifact, DirStates, StoreTyped
<1>9. ASSUME Clear(t) PROVE StoreTyped'
  <2>1. GoesOn(t, {"make"}) /\ app'.stage = app.stage
    BY <1>1, <1>3, <1>4, <1>9, Advancing DEF Clear, Undo, Steps
  <2>2. WorkFits'
    BY <1>1, <1>9, <2>1, GoesOnFits DEF Clear, Filling
  <2>3. disk' \in [Packages -> DirStates]
    BY <1>1, <1>2, <1>7, <1>8, <1>9 DEF Clear
  <2>4. DataTyped'
    BY <1>1, <1>3, <1>4, <1>9, <2>3 DEF Clear, Undo, NoteGone, DataTyped, StoreTyped, AppFits
  <2> QED
    BY <2>2, <2>4 DEF DataTyped, StoreTyped
<1>10. ASSUME Populate(t) PROVE StoreTyped'
  <2>1. GoesOn(t, {"record"}) /\ app'.stage = app.stage
    BY <1>1, <1>3, <1>4, <1>10, Advancing DEF Populate, Undo, Steps
  <2>2. WorkFits'
    BY <1>1, <1>10, <2>1, GoesOnFits DEF Populate, Filling
  <2>3. disk' \in [Packages -> DirStates]
    BY <1>1, <1>2, <1>7, <1>8, <1>10 DEF Populate, Undo
  <2>4. DataTyped'
    BY <1>1, <1>3, <1>4, <1>10, <2>3 DEF Populate, Undo, NoteGone, DataTyped, StoreTyped, AppFits
  <2> QED
    BY <2>2, <2>4 DEF DataTyped, StoreTyped
<1>11. ASSUME WriteRecord(t) PROVE StoreTyped'
  <2>1. GoesOn(t, {"readPins"}) /\ app'.stage = app.stage
    BY <1>1, <1>3, <1>4, <1>11, Advancing DEF WriteRecord, Undo, Steps
  <2>2. WorkFits'
    BY <1>1, <1>11, <2>1, GoesOnFits DEF WriteRecord, Filling
  <2>3. disk' \in [Packages -> DirStates]
    BY <1>1, <1>2, <1>7, <1>8, <1>11 DEF WriteRecord, Undo
  <2>4. DataTyped'
    BY <1>1, <1>3, <1>4, <1>11, <2>3 DEF WriteRecord, Undo, NoteGone, DataTyped, StoreTyped, AppFits
  <2> QED
    BY <2>2, <2>4 DEF DataTyped, StoreTyped
<1>12. ASSUME work[t] # NoWork, Installed(t), work[t].at \in Filling
       PROVE  /\ GoesOn(t, {"load"}) /\ AppFits' /\ app'.stage = app.stage
              /\ work[t].does = "install" \/ \A steps : GoesOn(t, steps)
  <2>1. CASE work[t].does = "install"
    BY <1>12, <2>1, Advancing DEF Installed, Steps, StoreTyped, AppFits
  <2>2. CASE work[t].does # "install"
    BY <1>5, <1>12, <2>2 DEF Installed
  <2> QED
    BY <2>1, <2>2
<1>13. ASSUME ReadPins(t) PROVE StoreTyped'
  <2>1. /\ app'.stage = app.stage /\ AppFits' /\ mishaps' \subseteq Modules
        /\ \/ GoesOn(t, {"load"}) /\ work[t].does = "install"
           \/ GoesOn(t, {"pin"})
    BY <1>1, <1>3, <1>4, <1>12, <1>13, Advancing DEF ReadPins, Steps, StoreTyped, AppFits, Filling
  <2>2. WorkFits'
    BY <1>1, <1>13, <2>1, GoesOnFits DEF ReadPins, Filling
  <2> QED
    BY <1>13, <2>1, <2>2 DEF ReadPins, StoreTyped
<1>14. ASSUME Pin(t) PROVE StoreTyped'
  <2>1. /\ app'.stage = app.stage /\ AppFits'
        /\ pins' \in PinTable /\ mishaps' \subseteq Modules /\ unpinned' \subseteq Modules
        /\ \/ GoesOn(t, {"load"}) /\ work[t].does = "install"
           \/ GoesOn(t, {"pin"})
    BY <1>1, <1>3, <1>4, <1>6, <1>12, <1>14 DEF Pin, StoreTyped, Filling
  <2>2. WorkFits'
    BY <1>1, <1>14, <2>1, GoesOnFits DEF Pin, Filling
  <2> QED
    BY <1>14, <2>1, <2>2 DEF Pin, StoreTyped
<1>15. ASSUME Load(t) PROVE StoreTyped'
  <2>1. /\ app'.stage = app.stage /\ AppFits' /\ mishaps' \subseteq Modules
        /\ GoesOn(t, {"activate"})
    BY <1>1, <1>3, <1>4, <1>15, Advancing DEF Load, Steps, StoreTyped, AppFits
  <2>2. WorkFits'
    BY <1>1, <1>15, <2>1, GoesOnFits DEF Load, Filling, StoreTyped, WorkFits
  <2> QED
    BY <1>15, <2>1, <2>2 DEF Load, StoreTyped
<1>16. ASSUME Activate(t) PROVE StoreTyped'
  <2>1. /\ app'.stage = app.stage /\ AppFits'
        /\ pins' \in PinTable /\ mishaps' \subseteq Modules /\ unpinned' \subseteq Modules
        /\ GoesOn(t, {"pin"})
    BY <1>1, <1>3, <1>4, <1>5, <1>6, <1>16 DEF Activate, StoreTyped
  <2>2. WorkFits'
    BY <1>1, <1>16, <2>1, GoesOnFits DEF Activate, Filling
  <2> QED
    BY <1>16, <2>1, <2>2 DEF Activate, StoreTyped
<1>17. ASSUME Remove(t) PROVE StoreTyped'
  <2>1. GoesOn(t, {"readPin"}) /\ app'.stage = app.stage
    BY <1>1, <1>3, <1>4, <1>17, Advancing, Ending DEF Remove, Steps
  <2>2. WorkFits'
    BY <1>1, <1>17, <2>1, GoesOnFits DEF Remove, Emptying
  <2>3. DataTyped'
    BY <1>1, <1>2, <1>3, <1>4, <1>7, <1>8, <1>17 DEF Remove, DataTyped, StoreTyped, AppFits
  <2> QED
    BY <2>2, <2>3 DEF DataTyped, StoreTyped
<1>18. ASSUME ReadPin(t) PROVE StoreTyped'
  <2>1. /\ app'.stage = app.stage /\ AppFits' /\ mishaps' \subseteq Modules
        /\ GoesOn(t, {"unpin"})
    BY <1>1, <1>3, <1>4, <1>18, Advancing, Ending DEF ReadPin, Steps, StoreTyped, AppFits
  <2>2. WorkFits'
    BY <1>1, <1>18, <2>1, GoesOnFits DEF ReadPin, Emptying
  <2> QED
    BY <1>18, <2>1, <2>2 DEF ReadPin, StoreTyped
<1>19. ASSUME Unpin(t) PROVE StoreTyped'
  <2>1. /\ app'.stage = app.stage /\ AppFits'
        /\ pins' \in PinTable /\ mishaps' \subseteq Modules /\ unpinned' \subseteq Modules
        /\ GoesOn(t, {"unpin"})
    BY <1>1, <1>3, <1>4, <1>5, <1>6, <1>19 DEF Unpin, StoreTyped
  <2>2. WorkFits'
    BY <1>1, <1>19, <2>1, GoesOnFits DEF Unpin, Emptying
  <2> QED
    BY <1>19, <2>1, <2>2 DEF Unpin, StoreTyped
<1>20. ASSUME Make(t) PROVE StoreTyped'
  <2>1. GoesOn(t, {"populate"}) /\ app'.stage = app.stage
    BY <1>1, <1>3, <1>4, <1>20, Advancing DEF Make, Undo, Steps
  <2>2. WorkFits'
    BY <1>1, <1>20, <2>1, GoesOnFits DEF Make, Filling
  <2>3. disk' \in [Packages -> DirStates]
    BY <1>1, <1>2, <1>7, <1>8, <1>20 DEF Make
  <2>4. DataTyped'
    BY <1>1, <1>3, <1>4, <1>20, <2>3 DEF Make, Undo, NoteGone, DataTyped, StoreTyped, AppFits
  <2> QED
    BY <2>2, <2>4 DEF DataTyped, StoreTyped
<1> QED
  BY <1>9, <1>20, <1>10, <1>11, <1>13, <1>14, <1>15, <1>16, <1>17, <1>18, <1>19 DEF JobMoves

\* Launches, requests, the steps between the jobs of a launch and the end of the
\* process keep the types.
LEMMA ProgramTyped ==
  ASSUME StoreTyped,
         \/ \E p \in Packages : Seed(p) \/ Retire(p)
         \/ Launch \/ LaunchUnseeded \/ BeginRetiring \/ SaveLedger \/ Ask \/ Quit
  PROVE  StoreTyped'
<1>0. NoWork \in Work /\ NoWork.at = "start" /\ NoWork.does = "nothing"
  BY PackageFacts DEF NoWork, Work, Steps
<1>1. ASSUME NEW p \in Packages, Seed(p) PROVE StoreTyped'
  <2>1. app.stage = "seeding" /\ app'.stage = "seeding" /\ AppFits'
    <3>1. app.stage = "seeding" /\ AppFits
      BY <1>1 DEF Seed, Booting, StoreTyped
    <3>2. \/ app' = [app EXCEPT !.todo = @ \ {p}, !.seen = @ \cup {p}]
          \/ app' = [app EXCEPT !.todo = @ \ {p}]
          \/ app' = [app EXCEPT !.todo = @ \ {p}, !.hurt = TRUE]
      BY <1>1 DEF Seed
    <3>3. app' \in [stage : {"down", "seeding", "retiring", "running"}, ships : SUBSET Packages,
                    renames : SUBSET (Modules \X Modules), todo : SUBSET Packages,
                    read : SUBSET Packages, seen : SUBSET Packages, hurt : BOOLEAN]
          /\ app'.stage = "seeding" /\ app'.ships = app.ships /\ app'.renames = app.renames
      <4>1. CASE app' = [app EXCEPT !.todo = @ \ {p}, !.seen = @ \cup {p}]
        BY <3>1, <4>1 DEF AppFits
      <4>2. CASE app' = [app EXCEPT !.todo = @ \ {p}]
        BY <3>1, <4>2 DEF AppFits
      <4>3. CASE app' = [app EXCEPT !.todo = @ \ {p}, !.hurt = TRUE]
        BY <3>1, <4>3 DEF AppFits
      <4> QED
        BY <3>2, <4>1, <4>2, <4>3
    <3> QED
      BY <3>1, <3>3 DEF AppFits
  <2>2. work' = work \/ Begin(Boot, "seed", p, "clear")
    BY <1>1 DEF Seed
  <2>3. WorkFits'
    <3>1. CASE work' = work
      BY <2>1, <3>1 DEF StoreTyped, WorkFits
    <3>2. CASE Begin(Boot, "seed", p, "clear")
      <4>1. /\ work' \in [Threads -> Work] /\ \A u \in Threads \ {Boot} : work'[u] = work[u]
            /\ work'[Boot].does = "seed" /\ work'[Boot].pkg = p /\ work'[Boot].at = "clear"
        BY <3>2, PackageFacts DEF Begin, StoreTyped, WorkFits, Work, Steps, Threads
      <4> QED
        BY <2>1, <4>1, StoreAssumption DEF StoreTyped, WorkFits, Threads, Filling
    <3> QED
      BY <2>2, <3>1, <3>2
  <2> QED
    BY <1>1, <2>1, <2>3 DEF Seed, StoreTyped
<1>2. ASSUME NEW p \in Packages, Retire(p) PROVE StoreTyped'
  <2>1. app.stage = "retiring" /\ app'.stage = "retiring" /\ AppFits'
    BY <1>2 DEF Retire, Booting, StoreTyped, AppFits
  <2>2. /\ work' \in [Threads -> Work] /\ \A u \in Threads \ {Boot} : work'[u] = work[u]
        /\ work'[Boot].does = "retire" /\ work'[Boot].pkg = p /\ work'[Boot].at = "remove"
    BY <1>2, PackageFacts DEF Retire, Begin, StoreTyped, WorkFits, Work, Steps, Threads
  <2>3. WorkFits'
    BY <2>1, <2>2, StoreAssumption DEF StoreTyped, WorkFits, Threads, Emptying
  <2> QED
    BY <1>2, <2>1, <2>3 DEF Retire, StoreTyped
<1>3. ASSUME Launch PROVE StoreTyped'
  <2>1. PICK a \in Apps, read \in {offered, {}} :
          /\ app' = [stage |-> "seeding", ships |-> a.bundle, renames |-> a.renames,
                     todo |-> a.bundle, read |-> read, seen |-> read, hurt |-> read # offered]
          /\ forgotten' = IF read # offered THEN forgotten \cup offered ELSE forgotten
    BY <1>3 DEF Launch
  <2>2. AppFits' /\ forgotten' \subseteq Packages
    BY <2>1, StoreAssumption DEF AppFits, StoreTyped
  <2>3. app.stage = "down" /\ app'.stage = "seeding" /\ work' = work
    BY <1>3, <2>1 DEF Launch
  <2>4. \A t \in Threads : work[t] = NoWork
    BY <2>3 DEF StoreTyped, WorkFits, Threads
  <2>5. WorkFits'
    BY <1>0, <2>3, <2>4 DEF StoreTyped, WorkFits, Threads
  <2> QED
    BY <1>3, <2>2, <2>5 DEF Launch, StoreTyped
<1>8. ASSUME LaunchUnseeded PROVE StoreTyped'
  <2>1. app.stage = "down" /\ app'.stage = "running" /\ work' = work /\ AppFits'
    BY <1>8 DEF LaunchUnseeded, NotRunning, AppFits
  <2>2. \A t \in Threads : work[t] = NoWork
    BY <2>1 DEF StoreTyped, WorkFits, Threads
  <2>3. WorkFits'
    BY <1>0, <2>1, <2>2 DEF StoreTyped, WorkFits, Threads
  <2> QED
    BY <1>8, <2>1, <2>3 DEF LaunchUnseeded, StoreTyped
<1>4. ASSUME BeginRetiring PROVE StoreTyped'
  <2>1. app.stage = "seeding" /\ app'.stage = "retiring" /\ AppFits' /\ work' = work
    BY <1>4 DEF BeginRetiring, Booting, StoreTyped, AppFits
  <2>2. work[Boot].does = "nothing"
    BY <1>0, <1>4 DEF BeginRetiring, Booting
  <2>3. WorkFits'
    BY <2>1, <2>2 DEF StoreTyped, WorkFits
  <2> QED
    BY <1>4, <2>1, <2>3 DEF BeginRetiring, StoreTyped
<1>5. ASSUME SaveLedger PROVE StoreTyped'
  <2>1. app.stage = "retiring" /\ app'.stage = "running" /\ AppFits' /\ work' = work
    BY <1>5 DEF SaveLedger, Booting, StoreTyped, AppFits
  <2>2. work[Boot].does = "nothing"
    BY <1>0, <1>5 DEF SaveLedger, Booting
  <2>3. WorkFits'
    BY <2>1, <2>2 DEF StoreTyped, WorkFits
  <2>4. offered' \subseteq Packages /\ forgotten' \subseteq Packages
    BY <1>5 DEF SaveLedger, StoreTyped, AppFits
  <2> QED
    BY <1>5, <2>1, <2>3, <2>4 DEF SaveLedger, StoreTyped
<1>6. ASSUME Ask PROVE StoreTyped'
  <2>1. Idle \in Jobs /\ Idle # Boot /\ app.stage = "running" /\ app' = app
    BY <1>6, StoreAssumption DEF Ask, Idle
  <2>2. PICK p \in Packages : AskInstall(Idle, p) \/ AskUninstall(Idle, p)
    BY <1>6 DEF Ask
  <2>3. /\ work' \in [Threads -> Work] /\ \A u \in Threads \ {Idle} : work'[u] = work[u]
        /\ work'[Idle].pkg = p
        /\ \/ work'[Idle].does = "install" /\ work'[Idle].at = "clear"
           \/ work'[Idle].does = "uninstall" /\ work'[Idle].at = "remove"
    <3>1. PICK what \in {"install", "uninstall"}, step \in {"clear", "remove"} :
            /\ Begin(Idle, what, p, step)
            /\ what = "install" <=> step = "clear"
      BY <2>2 DEF AskInstall, AskUninstall
    <3>2. [does |-> what, pkg |-> p, at |-> step, read |-> NoPins] \in Work
      BY PackageFacts DEF Work, Steps
    <3>3. work \in [Threads -> Work] /\ Idle \in Threads
      BY <2>1 DEF StoreTyped, WorkFits, Threads
    <3> QED
      BY <3>1, <3>2, <3>3 DEF Begin
  <2>4. WorkFits'
    BY <2>1, <2>3 DEF StoreTyped, WorkFits, Threads, Filling, Emptying
  <2>5. refused' \subseteq Packages /\ lost' \subseteq Packages
    BY <2>2 DEF AskInstall, AskUninstall, StoreTyped
  <2> QED
    BY <1>6, <2>1, <2>4, <2>5 DEF Ask, StoreTyped, AppFits
<1>7. ASSUME Quit PROVE StoreTyped'
  <2>1. app' = NotRunning /\ AppFits'
    BY <1>7 DEF Quit, NotRunning, AppFits
  <2>2. WorkFits'
    BY <1>0, <1>7, <2>1 DEF Quit, WorkFits, NotRunning, Threads
  <2>3. \A t \in Threads : work[t] # NoWork => Mod(t) \in Modules
    BY PackageFacts DEF StoreTyped, WorkFits, Mod, Pkg
  <2>4. mishaps' \subseteq Modules
    BY <1>7, <2>3 DEF Quit, StoreTyped
  <2> QED
    BY <1>7, <2>1, <2>2, <2>4 DEF Quit, StoreTyped
<1> QED
  BY <1>1, <1>2, <1>3, <1>4, <1>5, <1>6, <1>7, <1>8

\* The strengthened types hold in every state.
LEMMA StoreTypedHolds == StoreSpec => []StoreTyped
<1>1. StoreInit => StoreTyped
  <2> SUFFICES ASSUME StoreInit PROVE StoreTyped
    OBVIOUS
  <2>1. NoWork \in Work /\ NoWork.at = "start" /\ NoWork.does = "nothing"
    BY PackageFacts DEF NoWork, Work, Steps
  <2>2. WorkFits
    BY <2>1 DEF StoreInit, WorkFits, NotRunning, Threads
  <2>3. AppFits
    BY DEF StoreInit, AppFits, NotRunning
  <2> QED
    BY <2>2, <2>3, PackageFacts DEF StoreInit, StoreTyped, DirStates
<1>2. StoreTyped /\ [StoreNext]_storeVars => StoreTyped'
  <2>1. StoreTyped /\ UNCHANGED storeVars => StoreTyped'
    BY DEF StoreTyped, storeVars, WorkFits, AppFits
  <2> QED
    BY <2>1, JobsTyped, ProgramTyped DEF StoreNext
<1> QED
  BY <1>1, <1>2, PTL DEF StoreSpec

\* The state of the installed modules is of its types: beyond them, no job is under
\* way in a store whose program is down, and the program boots alone.
THEOREM StoreTypes == StoreSpec => []StoreTypeOK
<1>1. StoreTyped => StoreTypeOK
  <2> SUFFICES ASSUME StoreTyped PROVE StoreTypeOK
    OBVIOUS
  <2>1. \A t \in Threads : work[t] \in Work
    BY DEF StoreTyped, WorkFits
  <2>2. \A t \in Threads :
       /\ work[t].does \in {"nothing", "seed", "retire", "install", "uninstall"}
       /\ work[t].at \in Steps
       /\ work[t].read \in [Modules -> Versions \cup {NoPin}]
       /\ work[t] # NoWork => work[t].pkg \in Packages
    BY <2>1 DEF StoreTyped, WorkFits, Work, PinTable
  <2>3. app.stage = "down" => app = NotRunning /\ \A t \in Threads : work[t] = NoWork
    BY DEF StoreTyped, WorkFits, AppFits, Threads
  <2> QED
    BY <2>2, <2>3 DEF StoreTyped, WorkFits, AppFits, StoreTypeOK, PinTable
<1> QED
  BY <1>1, StoreTypedHolds, PTL
-----------------------------------------------------------------------------
(* What the lockfile pins.                                                 *)

\* The version is there whole, or a thread is filling its directory.
Making(p) ==
  \/ disk[p] = "whole"
  \/ \E t \in Threads : work[t].pkg = p /\ work[t].at \in {"make", "populate"}
  \/ disk[p] = "staged" /\ \E t \in Threads : work[t].pkg = p /\ work[t].at = "record"

Unpinning(p) == \E t \in Threads : work[t].pkg = p /\ work[t].at \in {"readPin", "unpin"}

\* What is pinned is there, or on its way, or about to be unpinned.
PinnedIsMade ==
  \A p \in Packages : p[1] \notin mishaps /\ pins[p[1]] = p[2] => Making(p) \/ Unpinning(p)

\* What a thread is about to pin is there, or on its way.
PinnedSoonIsMade ==
  \A t \in Threads :
    work[t].at \in {"record", "readPins", "pin", "load", "activate"} /\ Mod(t) \notin mishaps =>
      Making(Pkg(t))

\* Of a module of which no version is pinned a thread that made one whole is to pin
\* it, unless the user had the active one uninstalled.
WholeIsPinned ==
  \A p \in Packages :
    p[1] \notin mishaps \cup unpinned /\ pins[p[1]] = NoPin /\ disk[p] = "whole" =>
      \E t \in Threads : work[t].at \in {"record", "readPins", "pin"} /\ Mod(t) = p[1]

\* Only versions there are get pinned.
Real(entries) == \A m \in Modules : entries[m] # NoPin => \E p \in Packages : p[1] = m /\ p[2] = entries[m]
PinsReal == Real(pins) /\ \A t \in Threads : Real(work[t].read)

PinsInv == PinnedIsMade /\ PinnedSoonIsMade /\ WholeIsPinned /\ PinsReal

\* What is known of a thread with a job.
LEMMA StageFacts ==
  ASSUME StoreTyped, NEW t \in Threads, work[t].at # "start"
  PROVE  /\ work[t].pkg \in Packages /\ Pkg(t) = work[t].pkg /\ Mod(t) = work[t].pkg[1]
         /\ Mod(t) \in Modules /\ Pkg(t)[2] \in Versions /\ Pkg(t)[2] # NoPin
         /\ work[t].read \in PinTable
BY PackageFacts DEF StoreTyped, WorkFits, Work, Pkg, Mod

\* A job that fails leaves the module to its mishaps.
LEMMA FailureKeepsPins ==
  ASSUME StoreTyped, StoreTyped', PinsInv, NEW t \in Threads, work[t].at # "start", Failed(t),
         \A p \in Packages : p # Pkg(t) => disk'[p] = disk[p],
         UNCHANGED <<pins, unpinned>>
  PROVE  PinsInv'
<1>1. /\ work'[t] = NoWork /\ \A u \in Threads \ {t} : work'[u] = work[u]
      /\ mishaps' = mishaps \cup {Mod(t)}
  BY DEF Failed, StoreTyped, WorkFits
<1>2. NoWork.at = "start" /\ NoWork.read = NoPins
  BY DEF NoWork
<1>3. \A p \in Packages : p[1] \notin mishaps' =>
        p # Pkg(t) /\ disk'[p] = disk[p] /\ (Making(p) => Making(p)') /\ (Unpinning(p) => Unpinning(p)')
  BY <1>1, StageFacts DEF Making, Unpinning
<1>4. PinnedIsMade'
  BY <1>1, <1>3 DEF PinsInv, PinnedIsMade
<1>5. PinnedSoonIsMade'
  <2> SUFFICES ASSUME NEW u \in Threads, work'[u].at \in {"record", "readPins", "pin", "load", "activate"},
                      Mod(u)' \notin mishaps'
               PROVE  Making(Pkg(u))'
    BY DEF PinnedSoonIsMade
  <2>1. u # t /\ work'[u] = work[u] /\ work[u].at # "start"
    BY <1>1, <1>2
  <2>2. Pkg(u)' = Pkg(u) /\ Mod(u)' = Mod(u)
    BY <2>1 DEF Pkg, Mod
  <2>3. Making(Pkg(u)) /\ Pkg(u) \in Packages /\ Pkg(u)[1] = Mod(u)
    BY <1>1, <2>1, <2>2, StageFacts DEF PinsInv, PinnedSoonIsMade
  <2>4. PICK p : p = Pkg(u)
    OBVIOUS
  <2> QED
    BY <1>1, <1>3, <2>2, <2>3, <2>4
<1>6. WholeIsPinned'
  <2> SUFFICES ASSUME NEW p \in Packages, p[1] \notin mishaps' \cup unpinned', pins'[p[1]] = NoPin,
                      disk'[p] = "whole"
               PROVE  \E u \in Threads : work'[u].at \in {"record", "readPins", "pin"} /\ Mod(u)' = p[1]
    BY DEF WholeIsPinned
  <2>1. PICK u \in Threads : work[u].at \in {"record", "readPins", "pin"} /\ Mod(u) = p[1]
    BY <1>1, <1>3 DEF PinsInv, WholeIsPinned
  <2>2. u # t /\ work'[u] = work[u]
    BY <1>1, <2>1
  <2> QED
    BY <2>1, <2>2 DEF Mod, Pkg
<1>7. PinsReal'
  BY <1>1, <1>2, PackageFacts DEF PinsInv, PinsReal, Real, NoPins
<1> QED
  BY <1>4, <1>5, <1>6, <1>7 DEF PinsInv

\* A step that leaves directories, pins and mishaps alone and takes a thread on
\* from one stage to the next.
LEMMA OnwardKeepsPins ==
  ASSUME StoreTyped, StoreTyped', PinsInv, NEW t \in Threads, work[t].at # "start",
         \A u \in Threads \ {t} : work'[u] = work[u],
         \/ work'[t] = NoWork
         \/ work'[t].pkg = work[t].pkg /\ (Real(work'[t].read) \/ work'[t].read = work[t].read),
         work'[t].at \in {"pin", "load", "activate"} =>
           work[t].at \in {"readPins", "pin", "load"},
         work'[t].at \notin {"make", "populate", "record", "readPins"},
         work[t].at \in {"readPins", "pin"} => work'[t].at = "pin" \/ pins[Mod(t)] # NoPin,
         work[t].at \notin {"make", "populate", "record"},
         work[t].at = "readPin" => work'[t].at = "unpin" \/ pins[Mod(t)] # Pkg(t)[2],
         work[t].at # "unpin",
         UNCHANGED <<disk, pins, unpinned, mishaps>>
  PROVE  PinsInv'
<1>1. NoWork.at = "start" /\ NoWork.read = NoPins
  BY DEF NoWork
<1>2. \A p \in Packages : Making(p) => Making(p)'
  BY DEF Making
<1>3. \A p \in Packages : Unpinning(p) => Unpinning(p)' \/ (p = Pkg(t) /\ pins[p[1]] # p[2])
  BY <1>1, StageFacts DEF Unpinning
<1>4. PinnedIsMade'
  BY <1>2, <1>3 DEF PinsInv, PinnedIsMade
<1>5. PinnedSoonIsMade'
  <2> SUFFICES ASSUME NEW u \in Threads, work'[u].at \in {"record", "readPins", "pin", "load", "activate"},
                      Mod(u)' \notin mishaps'
               PROVE  Making(Pkg(u))'
    BY DEF PinnedSoonIsMade
  <2>1. Pkg(u)' = Pkg(u) /\ Mod(u)' = Mod(u)
        /\ work[u].at \in {"record", "readPins", "pin", "load", "activate"}
    BY <1>1 DEF Pkg, Mod
  <2>2. Making(Pkg(u)) /\ Pkg(u) \in Packages
    BY <2>1, StageFacts DEF PinsInv, PinnedSoonIsMade
  <2>3. PICK p : p = Pkg(u)
    OBVIOUS
  <2> QED
    BY <1>2, <2>1, <2>2, <2>3
<1>6. WholeIsPinned'
  <2> SUFFICES ASSUME NEW p \in Packages, p[1] \notin mishaps' \cup unpinned', pins'[p[1]] = NoPin,
                      disk'[p] = "whole"
               PROVE  \E u \in Threads : work'[u].at \in {"record", "readPins", "pin"} /\ Mod(u)' = p[1]
    BY DEF WholeIsPinned
  <2>1. PICK u \in Threads : work[u].at \in {"record", "readPins", "pin"} /\ Mod(u) = p[1]
    BY DEF PinsInv, WholeIsPinned
  <2>2. work'[u].at \in {"record", "readPins", "pin"} /\ work'[u].pkg = work[u].pkg
    BY <1>1, <2>1
  <2> QED
    BY <2>1, <2>2 DEF Mod, Pkg
<1>7. PinsReal'
  BY <1>1 DEF PinsInv, PinsReal, Real, NoPins
<1> QED
  BY <1>4, <1>5, <1>6, <1>7 DEF PinsInv

\* The whole lockfile is written, as it was read but for one module.
LEMMA WriteKeepsPins ==
  ASSUME StoreTyped, StoreTyped', PinsInv, NEW t \in Threads, NEW v, WritePins(t, v),
         \/ work[t].at \in {"pin", "activate"} /\ v = Pkg(t)[2]
         \/ work[t].at = "unpin" /\ v = NoPin,
         \A u \in Threads \ {t} : work'[u] = work[u],
         \/ work'[t] = NoWork
         \/ work'[t].at = "load" /\ work'[t].pkg = work[t].pkg /\ work'[t].read = work[t].read
            /\ v # NoPin,
         UNCHANGED disk
  PROVE  PinsInv'
<1> DEFINE m == Mod(t)
<1>0. work[t].at # "start" /\ m \in Modules /\ Pkg(t) \in Packages /\ m = Pkg(t)[1]
      /\ work[t].read \in PinTable /\ NoWork.at = "start" /\ NoWork.read = NoPins
      /\ (v = Pkg(t)[2] => v # NoPin)
  BY StageFacts DEF NoWork
<1>1. /\ \A n \in Modules : pins'[n] = IF n = m THEN v ELSE work[t].read[n]
      /\ \A n \in Modules : n \notin mishaps' => work[t].read[n] = pins[n]
      /\ \A n \in mishaps : n \in mishaps' \/
            (n = m /\ v # NoPin /\ disk[<<m, v>>] = "whole" /\ Alone(t))
      /\ v = NoPin => m \in unpinned'
      /\ \A n \in Modules : n # m => (n \in unpinned' <=> n \in unpinned)
  BY <1>0 DEF WritePins, PinTable
<1>2. v # NoPin => <<m, v>> = Pkg(t)
  BY <1>0, PackageFacts
<1>3. \A p \in Packages : (Making(p) => Making(p)')
        /\ (Unpinning(p) => Unpinning(p)' \/ (p = Pkg(t) /\ v = NoPin))
  BY <1>0 DEF Making, Unpinning, Pkg
<1>4. m \notin mishaps' /\ v # NoPin => Making(Pkg(t)) /\ (m \notin mishaps \/ Alone(t))
  BY <1>0, <1>1, <1>2 DEF PinsInv, PinnedSoonIsMade, Making
<1>5. PinnedIsMade'
  <2> SUFFICES ASSUME NEW p \in Packages, p[1] \notin mishaps', pins'[p[1]] = p[2]
               PROVE  Making(p)' \/ Unpinning(p)'
    BY DEF PinnedIsMade
  <2>1. CASE p[1] = m
    <3>1. v = p[2] /\ p[2] # NoPin
      BY <1>0, <1>1, <2>1, PackageFacts
    <3>2. p = Pkg(t)
      BY <1>0, <2>1, <3>1, PackageFacts
    <3> QED
      BY <1>0, <1>3, <1>4, <2>1, <3>1, <3>2
  <2>2. CASE p[1] # m
    <3>1. p[1] \in Modules /\ p[1] \notin mishaps /\ pins[p[1]] = p[2] /\ p # Pkg(t)
      BY <1>0, <1>1, <2>2, PackageFacts
    <3> QED
      BY <1>3, <3>1 DEF PinsInv, PinnedIsMade
  <2> QED
    BY <2>1, <2>2
<1>6. PinnedSoonIsMade'
  <2> SUFFICES ASSUME NEW u \in Threads, work'[u].at \in {"record", "readPins", "pin", "load", "activate"},
                      Mod(u)' \notin mishaps'
               PROVE  Making(Pkg(u))'
    BY DEF PinnedSoonIsMade
  <2>1. PICK p : p = Pkg(u)
    OBVIOUS
  <2>2. CASE u = t
    <3>1. Pkg(u)' = Pkg(t) /\ Mod(u)' = Mod(t) /\ v # NoPin
      BY <1>0, <2>2 DEF Pkg, Mod
    <3> QED
      BY <1>0, <1>3, <1>4, <2>1, <2>2, <3>1
  <2>3. CASE u # t
    <3>1. work'[u] = work[u] /\ Pkg(u)' = Pkg(u) /\ Mod(u)' = Mod(u) /\ work[u].at # "start"
      BY <2>3 DEF Pkg, Mod
    <3>2. Pkg(u) \in Packages /\ Pkg(u)[1] = Mod(u) /\ work[u] # NoWork
      BY <1>0, <3>1, StageFacts
    <3>3. Mod(u) \notin mishaps
      BY <1>1, <2>3, <3>1, <3>2 DEF Alone
    <3> QED
      BY <1>3, <2>1, <3>1, <3>2, <3>3 DEF PinsInv, PinnedSoonIsMade
  <2> QED
    BY <2>2, <2>3
<1>7. WholeIsPinned'
  <2> SUFFICES ASSUME NEW p \in Packages, p[1] \notin mishaps' \cup unpinned', pins'[p[1]] = NoPin,
                      disk'[p] = "whole"
               PROVE  \E u \in Threads : work'[u].at \in {"record", "readPins", "pin"} /\ Mod(u)' = p[1]
    BY DEF WholeIsPinned
  <2>1. p[1] \in Modules
    BY PackageFacts
  <2>2. p[1] # m
    BY <1>1, <2>1
  <2>3. p[1] \notin mishaps \cup unpinned /\ pins[p[1]] = NoPin /\ disk[p] = "whole"
    BY <1>1, <2>1, <2>2
  <2>4. PICK u \in Threads : work[u].at \in {"record", "readPins", "pin"} /\ Mod(u) = p[1]
    BY <2>3 DEF PinsInv, WholeIsPinned
  <2>5. u # t /\ work'[u] = work[u]
    BY <2>2, <2>4
  <2> QED
    BY <2>4, <2>5 DEF Mod, Pkg
<1>8. PinsReal'
  <2>1. Real(pins')
    <3>1. \A n \in Modules : n # m /\ pins'[n] # NoPin =>
            \E p \in Packages : p[1] = n /\ p[2] = pins'[n]
      BY <1>0, <1>1 DEF PinsInv, PinsReal, Real
    <3>2. v # NoPin => v = Pkg(t)[2]
      BY <1>0
    <3> QED
      BY <1>0, <1>1, <3>1, <3>2 DEF Real
  <2>2. \A u \in Threads : Real(work'[u].read)
    BY <1>0, PackageFacts DEF PinsInv, PinsReal, Real, NoPins
  <2> QED
    BY <2>1, <2>2 DEF PinsReal, Real
<1> QED
  BY <1>5, <1>6, <1>7, <1>8 DEF PinsInv

\* A directory is filled: one more stage, and the version is nearer to being whole.
LEMMA FillingKeepsPins ==
  ASSUME StoreTyped, StoreTyped', PinsInv, NEW t \in Threads,
         \A u \in Threads \ {t} : work'[u] = work[u],
         work'[t].pkg = work[t].pkg, work'[t].read = work[t].read,
         \A p \in Packages : p # Pkg(t) => disk'[p] = disk[p],
         \/ work[t].at = "clear" /\ work'[t].at = "make" /\ disk'[Pkg(t)] = "none"
         \/ work[t].at = "make" /\ work'[t].at = "populate" /\ disk'[Pkg(t)] = Made(disk[Pkg(t)])
         \/ /\ work[t].at = "populate" /\ work'[t].at = "record"
            /\ disk'[Pkg(t)] \in {"whole", "staged"}
         \/ /\ work[t].at = "record" /\ work'[t].at = "readPins"
            /\ disk[Pkg(t)] \in {"staged", "whole"} => disk'[Pkg(t)] = "whole",
         UNCHANGED <<pins, unpinned, mishaps>>
  PROVE  PinsInv'
<1>1. /\ work[t].at # "start" /\ Pkg(t) \in Packages /\ Pkg(t) = work[t].pkg
      /\ Mod(t) = work[t].pkg[1]
  BY StageFacts
<1>2. \A p \in Packages : (Making(p) => Making(p)') /\ (Unpinning(p) => Unpinning(p)')
  <2> SUFFICES ASSUME NEW p \in Packages
               PROVE  (Making(p) => Making(p)') /\ (Unpinning(p) => Unpinning(p)')
    OBVIOUS
  <2>1. Unpinning(p) => Unpinning(p)'
    BY <1>1 DEF Unpinning
  <2>2. CASE p # Pkg(t)
    BY <1>1, <2>1, <2>2 DEF Making
  <2>3. CASE p = Pkg(t)
    BY <1>1, <2>1, <2>3 DEF Making
  <2> QED
    BY <2>2, <2>3
<1>3. work[t].at \in {"clear", "make", "populate"} => Making(Pkg(t))'
  BY <1>1 DEF Making, Pkg
<1>4. PinnedIsMade'
  BY <1>2 DEF PinsInv, PinnedIsMade
<1>5. PinnedSoonIsMade'
  <2> SUFFICES ASSUME NEW u \in Threads, work'[u].at \in {"record", "readPins", "pin", "load", "activate"},
                      Mod(u)' \notin mishaps'
               PROVE  Making(Pkg(u))'
    BY DEF PinnedSoonIsMade
  <2>1. Pkg(u)' = Pkg(u) /\ Mod(u)' = Mod(u) /\ work[u].at # "start"
    BY DEF Pkg, Mod
  <2>2. CASE u = t /\ work[t].at # "record"
    BY <1>3, <2>1, <2>2
  <2>3. CASE u # t \/ work[t].at = "record"
    <3>1. Making(Pkg(u)) /\ Pkg(u) \in Packages
      BY <2>1, <2>3, StageFacts DEF PinsInv, PinnedSoonIsMade
    <3>2. PICK p : p = Pkg(u)
      OBVIOUS
    <3> QED
      BY <1>2, <2>1, <3>1, <3>2
  <2> QED
    BY <2>2, <2>3
<1>6. WholeIsPinned'
  <2> SUFFICES ASSUME NEW p \in Packages, p[1] \notin mishaps' \cup unpinned', pins'[p[1]] = NoPin,
                      disk'[p] = "whole"
               PROVE  \E u \in Threads : work'[u].at \in {"record", "readPins", "pin"} /\ Mod(u)' = p[1]
    BY DEF WholeIsPinned
  <2>1. CASE p = Pkg(t) /\ work[t].at # "make"
    BY <1>1, <2>1 DEF Mod, Pkg
  <2>2. CASE p # Pkg(t) \/ work[t].at = "make"
    <3>0. disk[p] = "whole"
      BY <2>2 DEF Made
    <3>1. PICK u \in Threads : work[u].at \in {"record", "readPins", "pin"} /\ Mod(u) = p[1]
      BY <3>0 DEF PinsInv, WholeIsPinned
    <3> QED
      BY <3>1 DEF Mod, Pkg
  <2> QED
    BY <2>1, <2>2
<1>7. PinsReal'
  BY DEF PinsInv, PinsReal, Real
<1> QED
  BY <1>4, <1>5, <1>6, <1>7 DEF PinsInv

\* A directory goes: what was to pin its version has been crossed.
LEMMA RemovingKeepsPins ==
  ASSUME StoreTyped, StoreTyped', PinsInv, NEW t \in Threads,
         work[t].at = "remove", work'[t].at = "readPin",
         \A u \in Threads \ {t} : work'[u] = work[u],
         work'[t].pkg = work[t].pkg, work'[t].read = work[t].read,
         \A p \in Packages : p # Pkg(t) => disk'[p] = disk[p],
         disk'[Pkg(t)] = "none",
         mishaps' = IF Contended(t) THEN mishaps \cup {Mod(t)} ELSE mishaps,
         UNCHANGED <<pins, unpinned>>
  PROVE  PinsInv'
<1>1. /\ work[t].at # "start" /\ Pkg(t) \in Packages /\ Pkg(t) = work[t].pkg
      /\ Mod(t) = work[t].pkg[1] /\ mishaps \subseteq mishaps' /\ NoWork.at = "start"
  BY StageFacts DEF NoWork
<1>2. \A p \in Packages : p # Pkg(t) =>
        (Making(p) => Making(p)') /\ (Unpinning(p) => Unpinning(p)')
  BY <1>1 DEF Making, Unpinning
<1>3. Unpinning(Pkg(t))'
  BY <1>1 DEF Unpinning, Pkg
<1>4. \A u \in Threads \ {t} : work[u].at # "start" /\ Pkg(u) = Pkg(t) => Mod(t) \in mishaps'
  BY <1>1 DEF Contended
<1>5. PinnedIsMade'
  <2> SUFFICES ASSUME NEW p \in Packages, p[1] \notin mishaps', pins'[p[1]] = p[2]
               PROVE  Making(p)' \/ Unpinning(p)'
    BY DEF PinnedIsMade
  <2>1. CASE p = Pkg(t)
    BY <2>1 DEF Unpinning, Pkg
  <2>2. CASE p # Pkg(t)
    BY <1>1, <1>2, <2>2 DEF PinsInv, PinnedIsMade
  <2> QED
    BY <2>1, <2>2
<1>6. PinnedSoonIsMade'
  <2> SUFFICES ASSUME NEW u \in Threads, work'[u].at \in {"record", "readPins", "pin", "load", "activate"},
                      Mod(u)' \notin mishaps'
               PROVE  Making(Pkg(u))'
    BY DEF PinnedSoonIsMade
  <2>1. u # t /\ Pkg(u)' = Pkg(u) /\ Mod(u)' = Mod(u) /\ work[u].at # "start" /\ work'[u] = work[u]
    BY DEF Pkg, Mod
  <2>2. Pkg(u) \in Packages /\ Pkg(u)[1] = Mod(u)
    BY <2>1, StageFacts
  <2>3. Pkg(u) # Pkg(t) /\ Mod(u) \notin mishaps
    BY <1>1, <1>4, <2>1, <2>2
  <2>4. Making(Pkg(u))
    BY <2>1, <2>3 DEF PinsInv, PinnedSoonIsMade
  <2>5. PICK p : p = Pkg(u)
    OBVIOUS
  <2> QED
    BY <1>2, <2>1, <2>2, <2>3, <2>4, <2>5
<1>7. WholeIsPinned'
  <2> SUFFICES ASSUME NEW p \in Packages, p[1] \notin mishaps' \cup unpinned', pins'[p[1]] = NoPin,
                      disk'[p] = "whole"
               PROVE  \E u \in Threads : work'[u].at \in {"record", "readPins", "pin"} /\ Mod(u)' = p[1]
    BY DEF WholeIsPinned
  <2>1. PICK u \in Threads : work[u].at \in {"record", "readPins", "pin"} /\ Mod(u) = p[1]
    BY <1>1 DEF PinsInv, WholeIsPinned
  <2> QED
    BY <2>1 DEF Mod, Pkg
<1>8. PinsReal'
  BY DEF PinsInv, PinsReal, Real
<1> QED
  BY <1>5, <1>6, <1>7, <1>8 DEF PinsInv

\* Every move of a thread keeps what is said of the pins.
LEMMA JobsKeepPins ==
  ASSUME StoreTyped, StoreTyped', PinsInv, NEW t \in Threads, JobMoves(t)
  PROVE  PinsInv'
<1> USE DEF At
<1>0. /\ work \in [Threads -> Work] /\ NoWork.at = "start" /\ NoWork.read = NoPins
      /\ work[t] # NoWork => work[t].at # "start" /\ Pkg(t) \in Packages
      /\ \A states : Pkg(t) \in Packages /\ Becomes(Pkg(t), states) =>
           disk'[Pkg(t)] \in states /\ \A p \in Packages : p # Pkg(t) => disk'[p] = disk[p]
  BY StageFacts DEF StoreTyped, WorkFits, NoWork, Becomes
<1>1. ASSUME work[t] # NoWork, NEW step, GoTo(t, step)
      PROVE  /\ \A u \in Threads \ {t} : work'[u] = work[u]
             /\ work'[t].pkg = work[t].pkg /\ work'[t].read = work[t].read /\ work'[t].at = step
  BY <1>0, <1>1 DEF GoTo, Work
<1>2. ASSUME work[t] # NoWork, NEW step, ReadAs(t, step)
      PROVE  /\ \A u \in Threads \ {t} : work'[u] = work[u]
             /\ work'[t].pkg = work[t].pkg /\ work'[t].read = pins /\ work'[t].at = step
  BY <1>0, <1>2 DEF ReadAs, Work
<1>3. ASSUME work' = [work EXCEPT ![t] = NoWork]
      PROVE  work'[t] = NoWork /\ \A u \in Threads \ {t} : work'[u] = work[u]
  BY <1>0, <1>3
<1>4. ASSUME work[t] # NoWork, Failed(t), UNCHANGED <<pins, unpinned>>,
             \/ UNCHANGED disk
             \/ \E states : Becomes(Pkg(t), states)
      PROVE  PinsInv'
  BY <1>0, <1>4, FailureKeepsPins
<1>5. Real(pins)
  BY DEF PinsInv, PinsReal
<1>6. ASSUME Clear(t) PROVE PinsInv'
  <2>1. CASE Becomes(Pkg(t), {"none"}) /\ GoTo(t, "make") /\ UNCHANGED mishaps
    BY <1>0, <1>1, <1>6, <2>1, FillingKeepsPins DEF Clear
  <2>2. CASE Failed(t) /\ Becomes(Pkg(t), Left(disk[Pkg(t)]))
    BY <1>4, <1>6, <2>2 DEF Clear
  <2> QED
    BY <1>6, <2>1, <2>2 DEF Clear
<1>17. ASSUME Make(t) PROVE PinsInv'
  <2>1. CASE Becomes(Pkg(t), {Made(disk[Pkg(t)])}) /\ GoTo(t, "populate") /\ UNCHANGED mishaps
    BY <1>0, <1>1, <1>17, <2>1, FillingKeepsPins DEF Make
  <2>2. CASE Failed(t) /\ Becomes(Pkg(t), {disk[Pkg(t)], Made(disk[Pkg(t)])})
    BY <1>4, <1>17, <2>2 DEF Make
  <2> QED
    BY <1>17, <2>1, <2>2 DEF Make
<1>7. ASSUME Populate(t) PROVE PinsInv'
  <2>1. CASE Becomes(Pkg(t), {WithArtifact(disk[Pkg(t)])})
             /\ GoTo(t, "record") /\ UNCHANGED mishaps
    BY <1>0, <1>1, <1>7, <2>1, FillingKeepsPins DEF Populate, WithArtifact
  <2>2. CASE Undo(t, WithArtifact(disk[Pkg(t)]))
    BY <1>4, <1>7, <2>2 DEF Populate, Undo
  <2> QED
    BY <1>7, <2>1, <2>2 DEF Populate
<1>8. ASSUME WriteRecord(t) PROVE PinsInv'
  <2>1. CASE Becomes(Pkg(t), {IF disk[Pkg(t)] \in {"staged", "whole"} THEN "whole" ELSE "hollow"})
             /\ GoTo(t, "readPins") /\ UNCHANGED mishaps
    BY <1>0, <1>1, <1>8, <2>1, FillingKeepsPins DEF WriteRecord
  <2>2. CASE Undo(t, disk[Pkg(t)])
    BY <1>4, <1>8, <2>2 DEF WriteRecord, Undo
  <2> QED
    BY <1>8, <2>1, <2>2 DEF WriteRecord
<1>9. ASSUME work[t] # NoWork, Installed(t)
      PROVE  /\ \A u \in Threads \ {t} : work'[u] = work[u]
             /\ \/ work'[t] = NoWork
                \/ work'[t].at = "load" /\ work'[t].pkg = work[t].pkg /\ work'[t].read = work[t].read
  BY <1>1, <1>3, <1>9 DEF Installed, Done
<1>10. ASSUME ReadPins(t) PROVE PinsInv'
  <2>1. CASE Failed(t)
    BY <1>4, <1>10, <2>1 DEF ReadPins
  <2>2. CASE pins[Mod(t)] > Pkg(t)[2] /\ Installed(t) /\ UNCHANGED mishaps
    <3>1. pins[Mod(t)] # NoPin
      BY <1>0, <1>10, <2>2, StageFacts, PackageFacts DEF ReadPins, NoPin
    <3> QED
      BY <1>0, <1>9, <1>10, <2>2, <3>1, OnwardKeepsPins DEF ReadPins
  <2>3. CASE ReadAs(t, "pin") /\ UNCHANGED mishaps
    BY <1>0, <1>2, <1>5, <1>10, <2>3, OnwardKeepsPins DEF ReadPins
  <2> QED
    BY <1>10, <2>1, <2>2, <2>3 DEF ReadPins
<1>11. ASSUME Pin(t) PROVE PinsInv'
  <2>1. CASE Failed(t) /\ UNCHANGED <<pins, unpinned>>
    BY <1>4, <1>11, <2>1 DEF Pin
  <2>2. CASE WritePins(t, Pkg(t)[2]) /\ Installed(t)
    <3>1. Pkg(t)[2] # NoPin
      BY <1>0, <1>11, StageFacts DEF Pin
    <3> QED
      BY <1>0, <1>9, <1>11, <2>2, <3>1, WriteKeepsPins DEF Pin
  <2> QED
    BY <1>11, <2>1, <2>2 DEF Pin
<1>12. ASSUME Load(t) PROVE PinsInv'
  <2>1. CASE Failed(t)
    BY <1>4, <1>12, <2>1 DEF Load
  <2>2. CASE ReadAs(t, "activate") /\ UNCHANGED mishaps
    BY <1>0, <1>2, <1>5, <1>12, <2>2, OnwardKeepsPins DEF Load
  <2> QED
    BY <1>12, <2>1, <2>2 DEF Load
<1>13. ASSUME Activate(t) PROVE PinsInv'
  <2>1. CASE Failed(t) /\ UNCHANGED <<pins, unpinned>>
    BY <1>4, <1>13, <2>1 DEF Activate
  <2>2. CASE WritePins(t, Pkg(t)[2]) /\ Done(t)
    BY <1>0, <1>3, <1>13, <2>2, WriteKeepsPins DEF Activate, Done
  <2> QED
    BY <1>13, <2>1, <2>2 DEF Activate
<1>14. ASSUME Remove(t) PROVE PinsInv'
  <2>1. CASE work' = [work EXCEPT ![t] = NoWork] /\ UNCHANGED <<disk, mishaps>>
    BY <1>0, <1>3, <1>14, <2>1, OnwardKeepsPins DEF Remove
  <2>2. CASE Becomes(Pkg(t), {"none"}) /\ GoTo(t, "readPin")
             /\ mishaps' = IF Contended(t) THEN mishaps \cup {Mod(t)} ELSE mishaps
    BY <1>0, <1>1, <1>14, <2>2, RemovingKeepsPins DEF Remove
  <2>3. CASE Failed(t) /\ Becomes(Pkg(t), Left(disk[Pkg(t)]))
    BY <1>4, <1>14, <2>3 DEF Remove
  <2> QED
    BY <1>14, <2>1, <2>2, <2>3 DEF Remove
<1>15. ASSUME ReadPin(t) PROVE PinsInv'
  <2>1. CASE Failed(t)
    BY <1>4, <1>15, <2>1 DEF ReadPin
  <2>2. CASE ReadAs(t, "unpin") /\ UNCHANGED mishaps
    BY <1>0, <1>2, <1>5, <1>15, <2>2, OnwardKeepsPins DEF ReadPin
  <2>3. CASE ~Active(t) /\ work' = [work EXCEPT ![t] = NoWork] /\ UNCHANGED mishaps
    BY <1>0, <1>3, <1>15, <2>3, OnwardKeepsPins DEF ReadPin, Active
  <2> QED
    BY <1>15, <2>1, <2>2, <2>3 DEF ReadPin
<1>16. ASSUME Unpin(t) PROVE PinsInv'
  <2>1. CASE Failed(t) /\ UNCHANGED <<pins, unpinned>>
    BY <1>4, <1>16, <2>1 DEF Unpin
  <2>2. CASE WritePins(t, NoPin) /\ Done(t)
    BY <1>0, <1>3, <1>16, <2>2, WriteKeepsPins DEF Unpin, Done
  <2> QED
    BY <1>16, <2>1, <2>2 DEF Unpin
<1> QED
  BY <1>6, <1>17, <1>7, <1>8, <1>10, <1>11, <1>12, <1>13, <1>14, <1>15, <1>16 DEF JobMoves

\* A thread begins with what it is asked for: it has read and written nothing yet.
LEMMA BeginKeepsPins ==
  ASSUME StoreTyped, StoreTyped', PinsInv, NEW t \in Threads, NEW what, NEW p \in Packages,
         work[t] = NoWork, NEW step \in {"clear", "remove"}, Begin(t, what, p, step),
         UNCHANGED <<disk, pins, unpinned, mishaps>>
  PROVE  PinsInv'
<1>1. /\ \A u \in Threads \ {t} : work'[u] = work[u]
      /\ work'[t].pkg = p /\ work'[t].at = step /\ work'[t].read = NoPins
      /\ work[t].at = "start"
  BY DEF Begin, StoreTyped, WorkFits, NoWork
<1>2. \A q \in Packages : (Making(q) => Making(q)') /\ (Unpinning(q) => Unpinning(q)')
  BY <1>1 DEF Making, Unpinning
<1>3. PinnedIsMade'
  BY <1>2 DEF PinsInv, PinnedIsMade
<1>4. PinnedSoonIsMade'
  <2> SUFFICES ASSUME NEW u \in Threads, work'[u].at \in {"record", "readPins", "pin", "load", "activate"},
                      Mod(u)' \notin mishaps'
               PROVE  Making(Pkg(u))'
    BY DEF PinnedSoonIsMade
  <2>1. u # t /\ Pkg(u)' = Pkg(u) /\ Mod(u)' = Mod(u) /\ work'[u] = work[u]
    BY <1>1 DEF Pkg, Mod
  <2>2. Making(Pkg(u)) /\ Pkg(u) \in Packages
    BY <2>1, StageFacts DEF PinsInv, PinnedSoonIsMade
  <2>3. PICK q : q = Pkg(u)
    OBVIOUS
  <2> QED
    BY <1>2, <2>1, <2>2, <2>3
<1>5. WholeIsPinned'
  <2> SUFFICES ASSUME NEW q \in Packages, q[1] \notin mishaps' \cup unpinned', pins'[q[1]] = NoPin,
                      disk'[q] = "whole"
               PROVE  \E u \in Threads : work'[u].at \in {"record", "readPins", "pin"} /\ Mod(u)' = q[1]
    BY DEF WholeIsPinned
  <2>1. PICK u \in Threads : work[u].at \in {"record", "readPins", "pin"} /\ Mod(u) = q[1]
    BY DEF PinsInv, WholeIsPinned
  <2>2. work'[u] = work[u]
    BY <1>1, <2>1
  <2> QED
    BY <2>1, <2>2 DEF Mod, Pkg
<1>6. PinsReal'
  BY <1>1, PackageFacts DEF PinsInv, PinsReal, Real, NoPins
<1> QED
  BY <1>3, <1>4, <1>5, <1>6 DEF PinsInv

\* The end of the process leaves the modules with jobs under way to their mishaps.
LEMMA QuitKeepsPins ==
  ASSUME StoreTyped, StoreTyped', PinsInv, Quit
  PROVE  PinsInv'
<1>1. /\ UNCHANGED <<disk, pins, unpinned>>
      /\ \A t \in Threads : work'[t] = NoWork /\ (work[t] # NoWork => Mod(t) \in mishaps')
      /\ mishaps \subseteq mishaps' /\ NoWork.at = "start" /\ NoWork.read = NoPins
  BY DEF Quit, NoWork
<1>2. \A t \in Threads : work[t].at # "start" => work[t] # NoWork /\ work[t].pkg[1] = Mod(t)
  BY <1>1 DEF Mod, Pkg
<1>3. \A p \in Packages : p[1] \notin mishaps' => (Making(p) => Making(p)') /\ ~Unpinning(p)
  BY <1>1, <1>2 DEF Making, Unpinning
<1>4. PinnedIsMade'
  BY <1>1, <1>3 DEF PinsInv, PinnedIsMade
<1>5. PinnedSoonIsMade'
  BY <1>1 DEF PinnedSoonIsMade
<1>6. WholeIsPinned'
  BY <1>1, <1>2 DEF PinsInv, WholeIsPinned
<1>7. PinsReal'
  BY <1>1, PackageFacts DEF PinsInv, PinsReal, Real, NoPins
<1> QED
  BY <1>4, <1>5, <1>6, <1>7 DEF PinsInv

\* The program's own steps, too.
LEMMA ProgramKeepsPins ==
  ASSUME StoreTyped, StoreTyped', PinsInv,
         \/ \E p \in Packages : Seed(p) \/ Retire(p)
         \/ Launch \/ LaunchUnseeded \/ BeginRetiring \/ SaveLedger \/ Ask \/ Quit
  PROVE  PinsInv'
<1>1. ASSUME UNCHANGED <<work, disk, pins, unpinned, mishaps>>
      PROVE  PinsInv'
  BY <1>1 DEF PinsInv, PinnedIsMade, PinnedSoonIsMade, WholeIsPinned, PinsReal, Real, Making,
     Unpinning, Mod, Pkg
<1>2. ASSUME NEW p \in Packages, Seed(p) PROVE PinsInv'
  BY <1>1, <1>2, BeginKeepsPins DEF Seed, Booting, Threads
<1>3. ASSUME NEW p \in Packages, Retire(p) PROVE PinsInv'
  BY <1>3, BeginKeepsPins DEF Retire, Booting, Threads
<1>4. ASSUME Ask PROVE PinsInv'
  <2>1. Idle \in Threads /\ work[Idle] = NoWork
    BY <1>4 DEF Ask, Idle, Threads
  <2>2. PICK p \in Packages : AskInstall(Idle, p) \/ AskUninstall(Idle, p)
    BY <1>4 DEF Ask
  <2> QED
    BY <1>4, <2>1, <2>2, BeginKeepsPins DEF Ask, AskInstall, AskUninstall
<1> QED
  BY <1>1, <1>2, <1>3, <1>4, QuitKeepsPins DEF Launch, LaunchUnseeded, BeginRetiring, SaveLedger

\* What is said of the pins holds in every state.
LEMMA PinsInvHolds == StoreSpec => []PinsInv
<1>1. StoreInit => PinsInv
  <2> SUFFICES ASSUME StoreInit PROVE PinsInv
    OBVIOUS
  <2>1. /\ \A p \in Packages : disk[p] = "none" /\ pins[p[1]] = NoPin
        /\ \A m \in Modules : pins[m] = NoPin
        /\ \A t \in Threads : work[t].at = "start" /\ \A m \in Modules : work[t].read[m] = NoPin
    BY PackageFacts DEF StoreInit, NoWork, NoPins
  <2> QED
    BY <2>1, PackageFacts DEF PinsInv, PinnedIsMade, PinnedSoonIsMade, WholeIsPinned, PinsReal, Real
<1>2. StoreTyped /\ StoreTyped' /\ PinsInv /\ [StoreNext]_storeVars => PinsInv'
  <2>1. UNCHANGED storeVars /\ PinsInv => PinsInv'
    BY DEF storeVars, PinsInv, PinnedIsMade, PinnedSoonIsMade, WholeIsPinned, PinsReal, Real, Making,
       Unpinning, Mod, Pkg
  <2> QED
    BY <2>1, JobsKeepPins, ProgramKeepsPins DEF StoreNext
<1> QED
  BY <1>1, <1>2, StoreTypedHolds, PTL DEF StoreSpec

\* When no thread works on a module, the lockfile pins a version of it that is there
\* whole, and pins one if there is one, whatever the requests, launches and failures:
\* but for the version the user had uninstalled, and the mishaps that are named.
THEOREM PinsHold == StoreSpec => []PinsFollowDisk
<1>1. StoreTyped /\ PinsInv => PinsFollowDisk
  <2> SUFFICES ASSUME StoreTyped, PinsInv, NEW m \in Modules \ mishaps,
                      \A t \in Threads : work[t] # NoWork => Mod(t) # m
               PROVE  IF pins[m] # NoPin THEN disk[<<m, pins[m]>>] = "whole"
                      ELSE m \in unpinned \/ \A p \in Packages : p[1] = m => disk[p] # "whole"
    BY DEF PinsFollowDisk
  <2>1. \A t \in Threads : work[t].at # "start" => work[t] # NoWork /\ Mod(t) = work[t].pkg[1]
    BY DEF NoWork, Mod, Pkg
  <2>2. CASE pins[m] # NoPin
    <3>1. PICK p \in Packages : p[1] = m /\ p[2] = pins[m]
      BY <2>2 DEF PinsInv, PinsReal, Real
    <3>2. Making(p) \/ Unpinning(p)
      BY <3>1 DEF PinsInv, PinnedIsMade
    <3>3. disk[p] = "whole"
      BY <2>1, <3>1, <3>2 DEF Making, Unpinning
    <3>4. p = <<m, pins[m]>>
      BY <3>1, PackageFacts
    <3> QED
      BY <2>2, <3>3, <3>4
  <2>3. CASE pins[m] = NoPin
    BY <2>1, <2>3 DEF PinsInv, WholeIsPinned
  <2> QED
    BY <2>2, <2>3
<1> QED
  BY <1>1, StoreTypedHolds, PinsInvHolds, PTL
-----------------------------------------------------------------------------
(* What a launch seeds and retires.                                        *)

Boots == app.stage \in {"seeding", "retiring"}
SeedsWell(p) ==
  /\ app.stage = "seeding" /\ work[Boot].pkg = p
  /\ work[Boot].at \in {"clear", "make", "populate", "record", "readPins", "pin"}

\* What the user uninstalled and the ledger did not forget was offered, is gone,
\* and nobody is filling it.
RefusedIsGone ==
  \A p \in refused \ forgotten :
    /\ p \in offered /\ disk[p] = "none"
    /\ \A t \in Threads : work[t].at \in Filling => work[t].pkg # p

\* What was offered and is gone went by the user's word, or is lost.
OfferedIsThere ==
  \A p \in offered \cup (IF Boots THEN app.seen ELSE {}) :
    disk[p] = "none" => p \in refused \cup lost

\* The seeder has the directory to itself, and fills it in order.
SeederAlone ==
  /\ Boots => offered \ forgotten \subseteq app.seen
  /\ work[Boot].at = "make" => disk[Pkg(Boot)] = "none"
  /\ work[Boot].at = "populate" => disk[Pkg(Boot)] = "empty"
  /\ work[Boot].at = "record" => disk[Pkg(Boot)] = "staged"
  /\ work[Boot].at \in {"readPins", "pin"} => disk[Pkg(Boot)] = "whole"

\* The ledger knows a version before its turn only from what was read.
TurnsAreKnown == app.stage = "seeding" => app.seen \cap app.todo \subseteq app.read

\* Nobody else is to seed the version under way.
OneTurn == app.stage = "seeding" /\ work[Boot].at # "start" => work[Boot].pkg \notin app.todo

\* It is gone, and the ledger that was read has it.
Excused(p) == p \in refused \cup lost /\ (app.stage = "seeding" => p \in app.read)

\* What a launch is through with is installed, unless it was refused or lost or a
\* file operation failed.
SeededIsWhole ==
  Boots /\ ~app.hurt =>
    \A p \in app.ships \ (IF app.stage = "seeding" THEN app.todo ELSE {}) :
      disk[p] = "whole" \/ Excused(p) \/ SeedsWell(p)

\* Only versions of modules that were renamed are retired.
RetiresRenamed ==
  app.stage = "retiring" =>
    \A p \in Packages :
      p \in app.todo \/ (work[Boot].at # "start" /\ work[Boot].pkg = p) =>
        \E r \in app.renames : r[1] = p[1]

SeedInv ==
  /\ RefusedIsGone /\ OfferedIsThere /\ SeederAlone /\ TurnsAreKnown /\ OneTurn
  /\ SeededIsWhole /\ RetiresRenamed

\* What a thread's move leaves alone, and where it takes its own package.
MoveLeaves(t) ==
  /\ \A u \in Threads \ {t} : work'[u] = work[u]
  /\ \A p \in Packages \ {Pkg(t)} :
       /\ disk'[p] = disk[p] /\ (p \in refused' <=> p \in refused)
       /\ (p \in forgotten' <=> p \in forgotten) /\ (p \in lost' <=> p \in lost)
  /\ UNCHANGED offered /\ refused \subseteq refused'
  /\ work[t].does # "uninstall" => UNCHANGED forgotten
  /\ app'.stage = app.stage /\ app'.ships = app.ships /\ app'.renames = app.renames
  /\ app'.todo = app.todo /\ app'.read = app.read /\ (app.hurt => app'.hurt)
  /\ work'[t] = NoWork \/
       (work'[t].pkg = work[t].pkg /\ work'[t].does = work[t].does /\ work'[t].at # "start")
  /\ app'.seen = app.seen \/
       (work[t].at \in {"readPins", "pin"} /\ app'.seen = app.seen \cup {Pkg(t)})

MoveFills(t) ==
  /\ UNCHANGED <<refused, forgotten>>
  /\ disk'[Pkg(t)] = "none" => Pkg(t) \in lost' \/ (disk[Pkg(t)] = "none" /\ UNCHANGED lost)
  /\ work'[t].at = "start" /\ ~app'.hurt =>
       work[t].at \notin {"clear", "make", "populate", "record"} /\ UNCHANGED <<disk, lost>>
  /\ work'[t].at = "make" => disk'[Pkg(t)] = "none"
  /\ work'[t].at = "populate" =>
       work[t].at = "make" /\ (disk[Pkg(t)] = "none" => disk'[Pkg(t)] = "empty")
  /\ work'[t].at = "record" =>
       work[t].at = "populate" /\ (disk[Pkg(t)] = "empty" => disk'[Pkg(t)] = "staged")
  /\ work'[t].at = "readPins" =>
       work[t].at = "record" /\ (disk[Pkg(t)] = "staged" => disk'[Pkg(t)] = "whole")
  /\ work'[t].at = "pin" => work[t].at = "readPins" /\ UNCHANGED disk
  /\ app'.seen # app.seen => UNCHANGED disk

MoveEmpties(t) ==
  /\ UNCHANGED <<disk, lost, refused, forgotten>> \/ disk[Pkg(t)] # "none"
  /\ Pkg(t) \in refused' \ forgotten' =>
       \/ Pkg(t) \in refused \ forgotten
       \/ Pkg(t) \in offered /\ disk'[Pkg(t)] = "none" /\ ~Contended(t)
  /\ disk'[Pkg(t)] = "none" =>
       \/ UNCHANGED <<disk, lost, refused>>
       \/ Pkg(t) \in lost'
       \/ work[t].does = "uninstall" /\ (Pkg(t) \in offered => Pkg(t) \in refused')
  /\ \/ disk'[Pkg(t)] = disk[Pkg(t)] /\ UNCHANGED <<lost, refused>>
     \/ app'.hurt
     \/ work[t].does = "uninstall" \/ Pkg(t) \in lost'
  /\ app'.seen = app.seen

\* Every move of a thread is one that fills or one that empties.
LEMMA MoveFacts ==
  ASSUME StoreTyped, NEW t \in Threads, JobMoves(t)
  PROVE  /\ work[t].at # "start" /\ MoveLeaves(t)
         /\ \/ work[t].at \in Filling /\ MoveFills(t)
            \/ work[t].at \in Emptying /\ MoveEmpties(t)
<1> USE DEF At
<1> DEFINE Goal == /\ work[t].at # "start" /\ MoveLeaves(t)
                   /\ \/ work[t].at \in Filling /\ MoveFills(t)
                      \/ work[t].at \in Emptying /\ MoveEmpties(t)
<1>0. /\ work \in [Threads -> Work] /\ NoWork.at = "start"
      /\ work[t] # NoWork => work[t].at # "start" /\ Pkg(t) \in Packages
      /\ \A states : Pkg(t) \in Packages /\ Becomes(Pkg(t), states) =>
           disk'[Pkg(t)] \in states /\ \A p \in Packages : p # Pkg(t) => disk'[p] = disk[p]
  BY StageFacts DEF StoreTyped, WorkFits, NoWork, Becomes
<1>1. ASSUME work[t] # NoWork, NEW step, GoTo(t, step) \/ ReadAs(t, step)
      PROVE  /\ \A u \in Threads \ {t} : work'[u] = work[u]
             /\ work'[t].pkg = work[t].pkg /\ work'[t].does = work[t].does /\ work'[t].at = step
  BY <1>0, <1>1 DEF GoTo, ReadAs, Work
<1>2. ASSUME work' = [work EXCEPT ![t] = NoWork]
      PROVE  work'[t] = NoWork /\ work'[t].at = "start" /\ \A u \in Threads \ {t} : work'[u] = work[u]
  BY <1>0, <1>2
<1>3. ASSUME Fault(t)
      PROVE  /\ app'.stage = app.stage /\ app'.ships = app.ships /\ app'.renames = app.renames
             /\ app'.todo = app.todo /\ app'.read = app.read /\ app'.seen = app.seen /\ app'.hurt
  BY <1>3 DEF Fault, StoreTyped, AppFits
<1>4. ASSUME Done(t)
      PROVE  /\ work' = [work EXCEPT ![t] = NoWork]
             /\ app'.stage = app.stage /\ app'.ships = app.ships /\ app'.renames = app.renames
             /\ app'.todo = app.todo /\ app'.read = app.read /\ app'.hurt = app.hurt
             /\ app'.seen = app.seen \/ (work[t].does = "seed" /\ app'.seen = app.seen \cup {Pkg(t)})
  BY <1>4 DEF Done, StoreTyped, AppFits
<1>5. \A s : s # "none" => "none" \notin Left(s)
  BY DEF Left
<1>6. ASSUME Failed(t) PROVE work' = [work EXCEPT ![t] = NoWork]
  BY <1>6 DEF Failed
<1>7. /\ work[t].at = "load" \/ work[t].at = "activate" => work[t].does = "install"
      /\ work[t].at \in Emptying => work[t].does \notin {"seed", "install"}
  BY DEF StoreTyped, WorkFits, Filling, Emptying
<1>8. ASSUME Clear(t) PROVE Goal
  <2>1. work[t].at = "clear" /\ work[t].at # "start" /\ Pkg(t) \in Packages /\ work[t] # NoWork
    BY <1>0, <1>8 DEF Clear
  <2>2. MoveLeaves(t)
    BY <1>0, <1>1, <1>2, <1>3, <1>6, <1>8, <2>1 DEF Clear, NoteGone, MoveLeaves
  <2>3. MoveFills(t)
    BY <1>0, <1>1, <1>2, <1>3, <1>6, <1>8, <2>1 DEF Clear, NoteGone, MoveFills
  <2> QED
    BY <2>1, <2>2, <2>3 DEF Filling
<1>9. ASSUME Populate(t) PROVE Goal
  <2>1. work[t].at = "populate" /\ work[t].at # "start" /\ Pkg(t) \in Packages /\ work[t] # NoWork
    BY <1>0, <1>9 DEF Populate
  <2>2. MoveLeaves(t)
    BY <1>0, <1>1, <1>2, <1>3, <1>6, <1>9, <2>1 DEF Populate, Undo, NoteGone, WithArtifact, MoveLeaves
  <2>3. MoveFills(t)
    BY <1>0, <1>1, <1>2, <1>3, <1>6, <1>9, <2>1 DEF Populate, Undo, NoteGone, WithArtifact, MoveFills
  <2> QED
    BY <2>1, <2>2, <2>3 DEF Filling
<1>10. ASSUME WriteRecord(t) PROVE Goal
  <2>1. work[t].at = "record" /\ work[t].at # "start" /\ Pkg(t) \in Packages /\ work[t] # NoWork
    BY <1>0, <1>10 DEF WriteRecord
  <2>2. MoveLeaves(t)
    BY <1>0, <1>1, <1>2, <1>3, <1>6, <1>10, <2>1 DEF WriteRecord, Undo, NoteGone, MoveLeaves
  <2>3. MoveFills(t)
    BY <1>0, <1>1, <1>2, <1>3, <1>6, <1>10, <2>1 DEF WriteRecord, Undo, NoteGone, MoveFills
  <2> QED
    BY <2>1, <2>2, <2>3 DEF Filling
<1>11. ASSUME work[t] # NoWork, Installed(t)
       PROVE  /\ \A u \in Threads \ {t} : work'[u] = work[u]
              /\ \/ work'[t] = NoWork
                 \/ work'[t].pkg = work[t].pkg /\ work'[t].does = work[t].does /\ work'[t].at = "load"
              /\ app'.stage = app.stage /\ app'.ships = app.ships /\ app'.renames = app.renames
              /\ app'.todo = app.todo /\ app'.read = app.read /\ app'.hurt = app.hurt
              /\ app'.seen = app.seen \/ app'.seen = app.seen \cup {Pkg(t)}
  BY <1>1, <1>2, <1>4, <1>11 DEF Installed
<1>12. ASSUME ReadPins(t) PROVE Goal
  <2>1. work[t].at = "readPins" /\ work[t].at # "start" /\ Pkg(t) \in Packages /\ work[t] # NoWork
    BY <1>0, <1>12 DEF ReadPins
  <2>2. MoveLeaves(t)
    BY <1>0, <1>1, <1>2, <1>3, <1>6, <1>11, <1>12, <2>1 DEF ReadPins, MoveLeaves
  <2>3. MoveFills(t)
    BY <1>0, <1>1, <1>2, <1>3, <1>6, <1>11, <1>12, <2>1 DEF ReadPins, MoveFills
  <2> QED
    BY <2>1, <2>2, <2>3 DEF Filling
<1>13. ASSUME Pin(t) PROVE Goal
  <2>1. work[t].at = "pin" /\ work[t].at # "start" /\ Pkg(t) \in Packages /\ work[t] # NoWork
    BY <1>0, <1>13 DEF Pin
  <2>2. MoveLeaves(t)
    BY <1>0, <1>1, <1>2, <1>3, <1>6, <1>11, <1>13, <2>1 DEF Pin, MoveLeaves
  <2>3. MoveFills(t)
    BY <1>0, <1>1, <1>2, <1>3, <1>6, <1>11, <1>13, <2>1 DEF Pin, MoveFills
  <2> QED
    BY <2>1, <2>2, <2>3 DEF Filling
<1>14. ASSUME Load(t) PROVE Goal
  <2>1. work[t].at = "load" /\ work[t].at # "start" /\ Pkg(t) \in Packages /\ work[t] # NoWork
    BY <1>0, <1>14 DEF Load
  <2>2. MoveLeaves(t)
    BY <1>0, <1>1, <1>2, <1>3, <1>6, <1>14, <2>1 DEF Load, MoveLeaves
  <2>3. MoveFills(t)
    BY <1>0, <1>1, <1>2, <1>3, <1>6, <1>14, <2>1 DEF Load, MoveFills
  <2> QED
    BY <2>1, <2>2, <2>3 DEF Filling
<1>15. ASSUME Activate(t) PROVE Goal
  <2>1. work[t].at = "activate" /\ work[t].at # "start" /\ Pkg(t) \in Packages /\ work[t] # NoWork
        /\ work[t].does = "install"
    BY <1>0, <1>7, <1>15 DEF Activate
  <2>2. MoveLeaves(t)
    BY <1>0, <1>2, <1>3, <1>4, <1>6, <1>15, <2>1 DEF Activate, MoveLeaves
  <2>3. MoveFills(t)
    BY <1>0, <1>2, <1>3, <1>4, <1>6, <1>15, <2>1 DEF Activate, MoveFills
  <2> QED
    BY <2>1, <2>2, <2>3 DEF Filling
<1>16. ASSUME Remove(t) PROVE Goal
  <2>1. work[t].at = "remove" /\ work[t].at # "start" /\ Pkg(t) \in Packages /\ work[t] # NoWork
    BY <1>0, <1>16 DEF Remove
  <2>2. MoveLeaves(t)
    BY <1>0, <1>1, <1>2, <1>3, <1>6, <1>16, <2>1 DEF Remove, UsersWord, MoveLeaves
  <2>3. MoveEmpties(t)
    BY <1>0, <1>1, <1>2, <1>3, <1>5, <1>6, <1>16, <2>1 DEF Remove, MoveEmpties, UsersWord
  <2> QED
    BY <2>1, <2>2, <2>3 DEF Emptying
<1>17. ASSUME ReadPin(t) PROVE Goal
  <2>1. work[t].at = "readPin" /\ work[t].at # "start" /\ Pkg(t) \in Packages /\ work[t] # NoWork
    BY <1>0, <1>17 DEF ReadPin
  <2>2. MoveLeaves(t)
    BY <1>0, <1>1, <1>2, <1>3, <1>6, <1>17, <2>1 DEF ReadPin, MoveLeaves
  <2>3. MoveEmpties(t)
    BY <1>0, <1>1, <1>2, <1>3, <1>6, <1>17, <2>1 DEF ReadPin, MoveEmpties
  <2> QED
    BY <2>1, <2>2, <2>3 DEF Emptying
<1>18. ASSUME Unpin(t) PROVE Goal
  <2>1. work[t].at = "unpin" /\ work[t].at # "start" /\ Pkg(t) \in Packages /\ work[t] # NoWork
        /\ work[t].does # "seed"
    BY <1>0, <1>7, <1>18 DEF Unpin, Emptying
  <2>2. MoveLeaves(t)
    BY <1>0, <1>2, <1>3, <1>4, <1>6, <1>18, <2>1 DEF Unpin, MoveLeaves
  <2>3. MoveEmpties(t)
    BY <1>0, <1>2, <1>3, <1>4, <1>6, <1>18, <2>1 DEF Unpin, MoveEmpties
  <2> QED
    BY <2>1, <2>2, <2>3 DEF Emptying
<1>20. ASSUME Make(t) PROVE Goal
  <2>1. work[t].at = "make" /\ work[t].at # "start" /\ Pkg(t) \in Packages /\ work[t] # NoWork
    BY <1>0, <1>20 DEF Make
  <2>2. MoveLeaves(t)
    BY <1>0, <1>1, <1>2, <1>3, <1>6, <1>20, <2>1 DEF Make, NoteGone, MoveLeaves
  <2>3. MoveFills(t)
    BY <1>0, <1>1, <1>2, <1>3, <1>6, <1>20, <2>1 DEF Make, Made, NoteGone, MoveFills
  <2> QED
    BY <2>1, <2>2, <2>3 DEF Filling
<1> HIDE DEF Goal
<1>19. Goal
  BY <1>20, <1>8, <1>9, <1>10, <1>12, <1>13, <1>14, <1>15, <1>16, <1>17, <1>18 DEF JobMoves
<1> QED
  BY <1>19 DEF Goal

\* Every move of a thread keeps what is said of launches: requests are served when a
\* launch is over, and the seeder fills one directory at a time.
LEMMA JobsKeepSeed ==
  ASSUME StoreTyped, StoreTyped', SeedInv, NEW t \in Threads, JobMoves(t)
  PROVE  SeedInv'
<1> DEFINE k == work[t].pkg
<1>0. /\ work[t].at # "start" /\ MoveLeaves(t)
      /\ \/ work[t].at \in Filling /\ MoveFills(t)
         \/ work[t].at \in Emptying /\ MoveEmpties(t)
      /\ k \in Packages /\ Pkg(t) = k /\ NoWork.at = "start" /\ NoWork.does = "nothing"
      /\ Filling \cap Emptying = {} /\ "start" \notin Filling \cup Emptying
  BY MoveFacts, StageFacts DEF NoWork, Filling, Emptying
<1>1. /\ t = Boot => app.stage \in {"seeding", "retiring"} /\ \A u \in Threads \ {t} : work[u] = NoWork
      /\ t # Boot => app.stage = "running" /\ work[Boot] = NoWork /\ work'[Boot] = NoWork
      /\ Boot \in Threads
  <2>1. t # Boot => t \in Jobs
    BY DEF Threads
  <2>2. work[t].does # "nothing"
    BY <1>0 DEF StoreTyped, WorkFits
  <2>3. t # Boot => app.stage = "running" /\ work[Boot].does = "nothing"
    BY <1>0, <2>1 DEF StoreTyped, WorkFits
  <2>4. t = Boot => app.stage \in {"seeding", "retiring"}
    BY <2>2 DEF StoreTyped, WorkFits
  <2>5. t # Boot => work[Boot] = NoWork
    BY <2>3 DEF StoreTyped, WorkFits, Threads
  <2> QED
    BY <1>0, <2>3, <2>4, <2>5 DEF StoreTyped, WorkFits, Threads, MoveLeaves
<1>2. /\ work[t].at \in Filling <=> work[t].does \in {"seed", "install"}
      /\ work'[t].at \in Filling => work[t].at \in Filling
      /\ work[t].does = "uninstall" => t # Boot
      /\ t = Boot => (work[t].at \in Filling <=> app.stage = "seeding")
      /\ t = Boot /\ work[t].at \in Filling =>
           work[t].at \in {"clear", "make", "populate", "record", "readPins", "pin"}
  <2>1. work[t].at \in Filling <=> work[t].does \in {"seed", "install"}
    BY <1>0 DEF StoreTyped, WorkFits, Filling, Emptying, Work
  <2>2. work'[t].at \in Filling => work[t].at \in Filling
    BY <1>0, <2>1 DEF StoreTyped, WorkFits, MoveLeaves, Filling, Emptying, Work, NoWork
  <2>3. t = Boot => work[t].does \in {"seed", "retire"} /\ (work[t].does = "seed" <=> app.stage = "seeding")
    BY <1>0 DEF StoreTyped, WorkFits
  <2>4. work[t].at \in Filling /\ work[t].does # "install" =>
           work[t].at \in {"clear", "make", "populate", "record", "readPins", "pin"}
    BY DEF StoreTyped, WorkFits, Filling
  <2> QED
    BY <2>1, <2>2, <2>3, <2>4
<1>3. RefusedIsGone'
  <2> SUFFICES ASSUME NEW p \in refused' \ forgotten'
               PROVE  /\ p \in offered' /\ disk'[p] = "none"
                      /\ \A u \in Threads : work'[u].at \in Filling => work'[u].pkg # p
    BY DEF RefusedIsGone
  <2>1. p \in Packages
    BY DEF StoreTyped
  <2>2. CASE p \in refused \ forgotten
    <3>1. p \in offered /\ disk[p] = "none" /\ \A u \in Threads : work[u].at \in Filling => work[u].pkg # p
      BY <2>2 DEF SeedInv, RefusedIsGone
    <3>2. p = k => work[t].at \in Emptying /\ UNCHANGED disk
      BY <1>0, <3>1 DEF MoveEmpties
    <3>3. disk'[p] = "none"
      BY <1>0, <2>1, <3>1, <3>2 DEF MoveLeaves
    <3> QED
      BY <1>0, <1>2, <3>1, <3>3 DEF MoveLeaves
  <2>3. CASE p \notin refused \ forgotten
    <3>1. p = k /\ work[t].at \in Emptying
      BY <1>0, <2>1, <2>3 DEF MoveLeaves, MoveFills
    <3>2. p \in offered /\ disk'[p] = "none" /\ ~Contended(t)
      BY <1>0, <2>3, <3>1 DEF MoveEmpties
    <3>3. \A u \in Threads \ {t} : work[u].at \in Filling => work[u].pkg # p
      BY <1>0, <3>1, <3>2 DEF Contended, Pkg, Filling
    <3> QED
      BY <1>0, <1>2, <3>1, <3>2, <3>3 DEF MoveLeaves
  <2> QED
    BY <2>2, <2>3
<1>4. OfferedIsThere'
  <2> SUFFICES ASSUME NEW p \in offered' \cup (IF Boots' THEN app'.seen ELSE {}), disk'[p] = "none"
               PROVE  p \in refused' \cup lost'
    BY DEF OfferedIsThere
  <2>1. p \in Packages
    BY DEF StoreTyped, AppFits
  <2>2. Boots' = Boots
    BY <1>0 DEF Boots, MoveLeaves
  <2>3. CASE p \in offered \cup (IF Boots THEN app.seen ELSE {})
    <3>1. disk[p] = "none" => p \in refused \cup lost
      BY <2>3 DEF SeedInv, OfferedIsThere
    <3>2. CASE p # k
      BY <1>0, <2>1, <3>1, <3>2 DEF MoveLeaves
    <3>3. CASE p = k /\ work[t].at \in Filling
      BY <1>0, <3>1, <3>3 DEF MoveFills
    <3>4. CASE p = k /\ work[t].at \in Emptying
      <4>1. \/ UNCHANGED <<disk, lost, refused>>
            \/ k \in lost'
            \/ work[t].does = "uninstall" /\ (k \in offered => k \in refused')
        BY <1>0, <3>4 DEF MoveEmpties
      <4>2. work[t].does = "uninstall" => p \in offered
        BY <1>1, <1>2, <2>3 DEF Boots
      <4> QED
        BY <3>1, <3>4, <4>1, <4>2
    <3> QED
      BY <1>0, <3>2, <3>3, <3>4
  <2>4. CASE p \notin offered \cup (IF Boots THEN app.seen ELSE {})
    <3>1. Boots /\ app'.seen # app.seen /\ work[t].at \in {"readPins", "pin"} /\ p = k
      BY <1>0, <2>2, <2>4 DEF MoveLeaves
    <3>2. t = Boot
      BY <1>1, <3>1 DEF Boots
    <3>3. disk[k] = "whole" /\ UNCHANGED disk
      BY <1>0, <3>1, <3>2 DEF SeedInv, SeederAlone, MoveFills, MoveEmpties
    <3> QED
      BY <3>1, <3>3
  <2> QED
    BY <2>3, <2>4
<1>5. SeederAlone'
  <2>1. Boots' => offered' \ forgotten' \subseteq app'.seen
    BY <1>0, <1>1, <1>2 DEF Boots, MoveLeaves, SeedInv, SeederAlone
  <2>2. CASE t # Boot
    BY <1>0, <1>1, <2>1, <2>2 DEF SeederAlone
  <2>3. CASE t = Boot
    <3>1. work'[Boot].at # "start" => Pkg(Boot)' = k
      BY <1>0, <2>3 DEF MoveLeaves, Pkg
    <3>2. CASE work[t].at \in Filling
      BY <1>0, <2>1, <2>3, <3>1, <3>2 DEF SeederAlone, SeedInv, MoveFills
    <3>3. CASE work[t].at \notin Filling
      BY <1>2, <2>1, <2>3, <3>3 DEF SeederAlone, Filling
    <3> QED
      BY <3>2, <3>3
  <2> QED
    BY <2>2, <2>3
<1>6. SeededIsWhole'
  <2> SUFFICES ASSUME Boots', ~app'.hurt,
                      NEW p \in app'.ships \ (IF app'.stage = "seeding" THEN app'.todo ELSE {})
               PROVE  disk'[p] = "whole" \/ Excused(p)' \/ SeedsWell(p)'
    BY DEF SeededIsWhole
  <2>1. Boots /\ ~app.hurt /\ p \in app.ships \ (IF app.stage = "seeding" THEN app.todo ELSE {})
        /\ app'.stage = app.stage /\ p \in Packages /\ t = Boot
    BY <1>0, <1>1 DEF Boots, MoveLeaves, StoreTyped, AppFits
  <2>2. disk[p] = "whole" \/ Excused(p) \/ SeedsWell(p)
    BY <2>1 DEF SeedInv, SeededIsWhole
  <2>3. CASE p # k
    BY <1>0, <2>1, <2>2, <2>3 DEF MoveLeaves, SeedsWell, Excused
  <2>4. CASE p = k /\ work[t].at \in Filling
    <3>1. app.stage = "seeding"
      BY <1>2, <2>1, <2>4
    <3>2. CASE work'[t].at = "start"
      <4>1. work[t].at \in {"readPins", "pin"} /\ UNCHANGED disk
        BY <1>0, <1>2, <2>1, <2>4, <3>2 DEF MoveFills
      <4> QED
        BY <1>0, <2>1, <2>4, <4>1 DEF SeedInv, SeederAlone
    <3>3. CASE work'[t].at # "start"
      <4>1. work'[t].pkg = k /\ work'[t].does = work[t].does
        BY <1>0, <3>3 DEF MoveLeaves
      <4>2. work[t].does = "seed"
        BY <1>0, <2>1, <2>4 DEF StoreTyped, WorkFits, Emptying, Filling
      <4>3. work'[t].at \in {"clear", "make", "populate", "record", "readPins", "pin"}
        BY <3>3, <4>1, <4>2 DEF StoreTyped, WorkFits, Filling
      <4> QED
        BY <2>1, <2>4, <3>1, <4>1, <4>3 DEF SeedsWell
    <3> QED
      BY <3>2, <3>3
  <2>5. CASE p = k /\ work[t].at \in Emptying
    <3>1. app.stage # "seeding" /\ work[t].does # "uninstall"
      BY <1>0, <1>2, <2>1, <2>5
    <3>2. \/ disk'[k] = disk[k] /\ UNCHANGED <<lost, refused>>
          \/ k \in lost'
      BY <1>0, <2>5, <3>1 DEF MoveEmpties
    <3> QED
      BY <2>1, <2>2, <2>5, <3>1, <3>2 DEF SeedsWell, Excused
  <2> QED
    BY <1>0, <2>3, <2>4, <2>5
<1>7. RetiresRenamed'
  <2>1. CASE t # Boot
    BY <1>0, <1>1, <2>1 DEF RetiresRenamed, MoveLeaves
  <2>2. CASE t = Boot
    <3>1. /\ app'.stage = app.stage /\ app'.renames = app.renames /\ app'.todo = app.todo
          /\ work'[Boot].at # "start" => work[Boot].at # "start" /\ work'[Boot].pkg = work[Boot].pkg
      BY <1>0, <2>2 DEF MoveLeaves
    <3> QED
      BY <3>1 DEF SeedInv, RetiresRenamed
  <2> QED
    BY <2>1, <2>2
<1>8. TurnsAreKnown'
  <2>1. app'.stage = app.stage /\ app'.todo = app.todo /\ app'.read = app.read
    BY <1>0 DEF MoveLeaves
  <2>2. CASE app'.seen = app.seen
    BY <2>1, <2>2 DEF SeedInv, TurnsAreKnown
  <2>3. CASE app'.seen # app.seen /\ app.stage = "seeding"
    <3>1. t = Boot /\ app'.seen = app.seen \cup {k}
      BY <1>0, <1>1, <2>3 DEF MoveLeaves
    <3>2. k \notin app.todo
      BY <1>0, <2>3, <3>1 DEF SeedInv, OneTurn
    <3> QED
      BY <2>1, <3>1, <3>2 DEF SeedInv, TurnsAreKnown
  <2> QED
    BY <2>1, <2>2, <2>3 DEF TurnsAreKnown
<1>9. OneTurn'
  <2>1. app'.stage = app.stage /\ app'.todo = app.todo
    BY <1>0 DEF MoveLeaves
  <2>2. work'[Boot].at # "start" => work[Boot].at # "start" /\ work'[Boot].pkg = work[Boot].pkg
    BY <1>0, <1>1 DEF MoveLeaves
  <2> QED
    BY <2>1, <2>2 DEF SeedInv, OneTurn
<1> QED
  BY <1>3, <1>4, <1>5, <1>6, <1>7, <1>8, <1>9 DEF SeedInv

\* The program's own steps, too.
LEMMA ProgramKeepsSeed ==
  ASSUME StoreTyped, StoreTyped', SeedInv,
         \/ \E p \in Packages : Seed(p) \/ Retire(p)
         \/ Launch \/ LaunchUnseeded \/ BeginRetiring \/ SaveLedger \/ Ask \/ Quit
  PROVE  SeedInv'
<1>0. /\ work \in [Threads -> Work] /\ Boot \in Threads
      /\ app \in [stage : {"down", "seeding", "retiring", "running"}, ships : SUBSET Packages,
              renames : SUBSET (Modules \X Modules), todo : SUBSET Packages,
              read : SUBSET Packages, seen : SUBSET Packages, hurt : BOOLEAN]
      /\ NoWork.at = "start" /\ NoWork.does = "nothing"
      /\ Boots => \A t \in Jobs : work[t] = NoWork
      /\ Filling = {"clear", "make", "populate", "record", "readPins", "pin", "load", "activate"}
  BY DEF StoreTyped, WorkFits, AppFits, Threads, NoWork, Boots, Filling
<1>1. ASSUME NEW p \in Packages, Seed(p) PROVE SeedInv'
  <2>1. /\ app.stage = "seeding" /\ app'.stage = "seeding" /\ work[Boot] = NoWork /\ p \in app.todo
        /\ app'.ships = app.ships /\ app'.todo = app.todo \ {p} /\ app'.renames = app.renames
        /\ \/ Settled(p) /\ UNCHANGED work /\ app'.seen = app.seen \cup {p} /\ app'.hurt = app.hurt
           \/ ~Settled(p) /\ Begin(Boot, "seed", p, "clear") /\ app'.seen = app.seen /\ app'.hurt = app.hurt
           \/ UNCHANGED work /\ app'.seen = app.seen /\ app'.hurt
           \/ disk[p] = "whole" /\ Begin(Boot, "seed", p, "clear") /\ app'.seen = app.seen /\ app'.hurt
        /\ app'.read = app.read
    BY <1>0, <1>1 DEF Seed, Booting
  <2>2. UNCHANGED <<disk, offered, refused, forgotten, lost>>
    BY <1>1 DEF Seed
  <2>3. /\ \A t \in Threads \ {Boot} : work'[t] = work[t]
        /\ \/ work'[Boot] = NoWork
           \/ /\ ~Settled(p) \/ disk[p] = "whole"
              /\ work'[Boot].at = "clear" /\ work'[Boot].pkg = p
    BY <1>0, <2>1 DEF Begin
  <2>4. RefusedIsGone'
    <3>1. p \in refused \ forgotten => Settled(p) /\ disk[p] = "none"
      BY <2>1 DEF SeedInv, RefusedIsGone, SeederAlone, Settled, Boots
    <3> QED
      BY <1>0, <2>1, <2>2, <2>3, <3>1 DEF SeedInv, RefusedIsGone
  <2>5. OfferedIsThere'
    BY <2>1, <2>2 DEF SeedInv, OfferedIsThere, Settled, Boots
  <2>6. SeederAlone'
    BY <1>0, <2>1, <2>2, <2>3 DEF SeedInv, SeederAlone, Boots
  <2>7. SeededIsWhole'
    <3> SUFFICES ASSUME ~app'.hurt, NEW q \in app.ships \ (app.todo \ {p})
                 PROVE  disk'[q] = "whole" \/ Excused(q)' \/ SeedsWell(q)'
      BY <2>1 DEF SeededIsWhole, Boots
    <3>1. CASE q # p
      <4>1. disk[q] = "whole" \/ Excused(q) \/ SeedsWell(q)
        BY <2>1, <3>1 DEF SeedInv, SeededIsWhole, Boots
      <4> QED
        BY <1>0, <2>1, <2>2, <4>1 DEF SeedsWell, Excused
    <3>2. CASE q = p /\ Settled(p)
      BY <2>1, <2>2, <3>2 DEF SeedInv, OfferedIsThere, TurnsAreKnown, Settled, Boots, Excused
    <3>3. CASE q = p /\ ~Settled(p)
      <4>1. work'[Boot].at = "clear" /\ work'[Boot].pkg = p
        BY <1>0, <2>1, <3>3 DEF Begin
      <4> QED
        BY <2>1, <3>3, <4>1 DEF SeedsWell
    <3> QED
      BY <3>1, <3>2, <3>3
  <2>8. RetiresRenamed'
    BY <2>1 DEF RetiresRenamed
  <2>9. TurnsAreKnown' /\ OneTurn'
    BY <1>0, <2>1, <2>3 DEF SeedInv, TurnsAreKnown, OneTurn
  <2> QED
    BY <2>4, <2>5, <2>6, <2>7, <2>8, <2>9 DEF SeedInv
<1>2. ASSUME NEW p \in Packages, Retire(p) PROVE SeedInv'
  <2>1. /\ app.stage = "retiring" /\ app'.stage = "retiring" /\ work[Boot] = NoWork /\ p \in app.todo
        /\ app'.ships = app.ships /\ app'.todo \subseteq app.todo /\ app'.renames = app.renames
        /\ app'.seen = app.seen /\ app'.hurt = app.hurt
        /\ UNCHANGED <<disk, offered, refused, forgotten, lost>>
        /\ work'[Boot].at = "remove" /\ work'[Boot].pkg = p
        /\ \A t \in Threads \ {Boot} : work'[t] = work[t]
    BY <1>0, <1>2 DEF Retire, Booting, Begin
  <2>2. RefusedIsGone'
    BY <1>0, <2>1 DEF SeedInv, RefusedIsGone
  <2>3. OfferedIsThere'
    BY <2>1 DEF SeedInv, OfferedIsThere, Boots
  <2>4. SeederAlone'
    BY <2>1 DEF SeedInv, SeederAlone, Boots
  <2>5. SeededIsWhole'
    BY <2>1 DEF SeedInv, SeededIsWhole, Boots, SeedsWell, Excused
  <2>6. RetiresRenamed' /\ TurnsAreKnown' /\ OneTurn'
    BY <2>1 DEF SeedInv, RetiresRenamed, TurnsAreKnown, OneTurn
  <2> QED
    BY <2>2, <2>3, <2>4, <2>5, <2>6 DEF SeedInv
<1>3. ASSUME Launch PROVE SeedInv'
  <2>1. PICK read \in {offered, {}} :
          /\ app.stage = "down" /\ app'.stage = "seeding" /\ app'.todo = app'.ships
          /\ app'.seen = read /\ app'.read = read
          /\ read # offered => offered \subseteq forgotten'
          /\ forgotten \subseteq forgotten'
          /\ UNCHANGED <<disk, offered, refused, lost, work>>
    BY <1>3 DEF Launch
  <2>2. work[Boot] = NoWork
    BY <2>1 DEF StoreTyped, WorkFits
  <2>3. RefusedIsGone' /\ OfferedIsThere'
    BY <2>1 DEF SeedInv, RefusedIsGone, OfferedIsThere
  <2>4. SeederAlone' /\ TurnsAreKnown' /\ OneTurn' /\ SeededIsWhole' /\ RetiresRenamed'
    BY <1>0, <2>1, <2>2 DEF SeederAlone, TurnsAreKnown, OneTurn, SeededIsWhole, RetiresRenamed
  <2> QED
    BY <2>3, <2>4 DEF SeedInv
<1>8. ASSUME LaunchUnseeded PROVE SeedInv'
  <2>1. app.stage = "down" /\ app'.stage = "running"
        /\ UNCHANGED <<disk, offered, refused, forgotten, lost, work>>
    BY <1>8 DEF LaunchUnseeded, NotRunning
  <2>2. work[Boot] = NoWork
    BY <2>1 DEF StoreTyped, WorkFits
  <2> QED
    BY <1>0, <2>1, <2>2 DEF SeedInv, RefusedIsGone, OfferedIsThere, SeederAlone, TurnsAreKnown,
       OneTurn, SeededIsWhole, RetiresRenamed, Boots
<1>4. ASSUME BeginRetiring PROVE SeedInv'
  <2>1. /\ app.stage = "seeding" /\ app'.stage = "retiring" /\ work[Boot] = NoWork /\ app.todo = {}
        /\ app'.ships = app.ships /\ app'.renames = app.renames
        /\ app'.seen = app.seen /\ app'.hurt = app.hurt
        /\ app'.todo = {p \in Packages : Superseded(p)}
        /\ UNCHANGED <<disk, offered, refused, forgotten, lost, work>>
    BY <1>0, <1>4 DEF BeginRetiring, Booting
  <2>2. RefusedIsGone' /\ OfferedIsThere' /\ SeederAlone' /\ TurnsAreKnown' /\ OneTurn'
    BY <2>1 DEF SeedInv, RefusedIsGone, OfferedIsThere, SeederAlone, TurnsAreKnown, OneTurn, Boots, Pkg
  <2>3. SeededIsWhole'
    BY <1>0, <2>1 DEF SeedInv, SeededIsWhole, Boots, SeedsWell, Excused
  <2>4. RetiresRenamed'
    <3> SUFFICES ASSUME NEW p \in Packages, p \in app'.todo \/ work'[Boot].at # "start"
                 PROVE  \E r \in app.renames : r[1] = p[1]
      BY <2>1 DEF RetiresRenamed
    <3>1. PICK q \in Packages : <<p[1], q[1]>> \in app.renames
      BY <1>0, <2>1 DEF Superseded
    <3>2. <<p[1], q[1]>>[1] = p[1]
      OBVIOUS
    <3> QED
      BY <3>1, <3>2
  <2> QED
    BY <2>2, <2>3, <2>4 DEF SeedInv
<1>5. ASSUME SaveLedger PROVE SeedInv'
  <2>1. /\ app.stage = "retiring" /\ app'.stage = "running" /\ work[Boot] = NoWork
        /\ UNCHANGED <<disk, refused, lost, work>>
        /\ offered' \in {offered, app.seen, {}}
        /\ forgotten' = forgotten \cup (offered \ offered')
    BY <1>0, <1>5 DEF SaveLedger, Booting
  <2>2. RefusedIsGone'
    BY <2>1 DEF SeedInv, RefusedIsGone
  <2>3. OfferedIsThere'
    BY <2>1 DEF SeedInv, OfferedIsThere, Boots
  <2>4. SeederAlone' /\ TurnsAreKnown' /\ OneTurn' /\ SeededIsWhole' /\ RetiresRenamed'
    BY <1>0, <2>1 DEF SeederAlone, TurnsAreKnown, OneTurn, SeededIsWhole, RetiresRenamed, Boots
  <2> QED
    BY <2>2, <2>3, <2>4 DEF SeedInv
<1>6. ASSUME Ask PROVE SeedInv'
  <2>1. Idle \in Jobs /\ work[Idle] = NoWork /\ app.stage = "running" /\ app' = app
        /\ UNCHANGED <<disk, offered, forgotten>>
    BY <1>6 DEF Ask, Idle
  <2>2. PICK p \in Packages : AskInstall(Idle, p) \/ AskUninstall(Idle, p)
    BY <1>6 DEF Ask
  <2>3. /\ Idle \in Threads /\ Idle # Boot /\ \A t \in Threads \ {Idle} : work'[t] = work[t]
        /\ work'[Idle].pkg = p
        /\ \/ work'[Idle].at = "clear" /\ refused' = refused \ {p}
              /\ lost' = IF disk[p] = "none" THEN lost \cup {p} ELSE lost
           \/ work'[Idle].at = "remove" /\ UNCHANGED <<refused, lost>>
    BY <1>0, <2>1, <2>2, StoreAssumption DEF AskInstall, AskUninstall, Begin, Threads
  <2>4. work[Boot] = NoWork
    BY <1>0, <2>1 DEF StoreTyped, WorkFits
  <2>5. RefusedIsGone'
    BY <1>0, <2>1, <2>3 DEF SeedInv, RefusedIsGone
  <2>6. OfferedIsThere'
    BY <2>1, <2>3 DEF SeedInv, OfferedIsThere, Boots
  <2> QED
    BY <1>0, <2>1, <2>3, <2>4, <2>5, <2>6 DEF SeedInv, SeederAlone, TurnsAreKnown, OneTurn,
       SeededIsWhole, RetiresRenamed, Boots
<1>7. ASSUME Quit PROVE SeedInv'
  <2>1. /\ app'.stage = "down" /\ \A t \in Threads : work'[t] = NoWork
        /\ UNCHANGED <<disk, offered, refused, forgotten, lost>>
    BY <1>7 DEF Quit, NotRunning
  <2> QED
    BY <1>0, <2>1 DEF SeedInv, RefusedIsGone, OfferedIsThere, SeederAlone, TurnsAreKnown, OneTurn,
       SeededIsWhole, RetiresRenamed, Boots
<1> QED
  BY <1>1, <1>2, <1>3, <1>4, <1>5, <1>6, <1>7, <1>8

\* What is said of launches holds in every state.
LEMMA SeedInvHolds == StoreSpec => []SeedInv
<1>1. StoreInit => SeedInv
  BY DEF StoreInit, SeedInv, RefusedIsGone, OfferedIsThere, SeederAlone, TurnsAreKnown, OneTurn,
     SeededIsWhole, RetiresRenamed, Boots, NotRunning, NoWork, Threads
<1>2. StoreTyped /\ StoreTyped' /\ SeedInv /\ [StoreNext]_storeVars => SeedInv'
  <2>1. UNCHANGED storeVars /\ SeedInv => SeedInv'
    BY DEF storeVars, SeedInv, RefusedIsGone, OfferedIsThere, SeederAlone, TurnsAreKnown, OneTurn,
       SeededIsWhole, RetiresRenamed, Boots, SeedsWell, Excused, Pkg
  <2> QED
    BY <2>1, JobsKeepSeed, ProgramKeepsSeed DEF StoreNext
<1> QED
  BY <1>1, <1>2, StoreTypedHolds, PTL DEF StoreSpec

\* Whatever earlier launches, requests and failures left behind, a launch without a
\* failing file operation has every bundled version there whole when it is through
\* with them, but those the ledger has and that are gone, and none that the user
\* uninstalled, unless the ledger was broken or unreadable since (seed_one,
\* Ledger::load, Ledger::save).
THEOREM SeedingFollows == StoreSpec => SeedingFollowsUser
<1>1. StoreTyped /\ SeedInv =>
        \A p \in app.ships : BeginRetiring /\ ~app.hurt =>
          /\ p \in refused \ forgotten => disk[p] = "none"
          /\ p \notin (refused \cup lost) \cap app.read => disk[p] = "whole"
  BY DEF SeedInv, RefusedIsGone, SeededIsWhole, SeedsWell, Excused, Boots, BeginRetiring, Booting,
     NoWork
<1> QED
  BY <1>1, StoreTypedHolds, SeedInvHolds, PTL DEF SeedingFollowsUser

\* A renamed module goes only while its replacement is there whole, unless the launch
\* was hurt or a bundled version was gone before (retire_renamed).
THEOREM RenamedKept == StoreSpec => RenamedKeepsOne
<1>1. StoreTyped /\ SeedInv /\ [StoreNext]_storeVars =>
        \A p \in Packages : work[Boot].does = "retire" /\ disk[p] # "none" /\ disk'[p] = "none" =>
          \/ \E q \in Packages : <<p[1], q[1]>> \in app.renames /\ disk[q] = "whole"
          \/ app.hurt \/ app.ships \cap (refused \cup lost) # {}
  <2> SUFFICES ASSUME StoreTyped, SeedInv, [StoreNext]_storeVars, NEW p \in Packages,
                      work[Boot].does = "retire", disk[p] # "none", disk'[p] = "none",
                      ~app.hurt, app.ships \cap (refused \cup lost) = {}
               PROVE  \E q \in Packages : <<p[1], q[1]>> \in app.renames /\ disk[q] = "whole"
    OBVIOUS
  <2>1. app.stage = "retiring" /\ \A t \in Jobs : work[t] = NoWork
    BY DEF StoreTyped, WorkFits
  <2>2. PICK t \in Threads : JobMoves(t)
    BY DEF StoreNext, storeVars, Seed, Retire, Launch, LaunchUnseeded, BeginRetiring, SaveLedger, Ask, Quit
  <2>3. work[t].at # "start" /\ MoveLeaves(t)
    BY <2>2, MoveFacts
  <2>4. t = Boot /\ p = work[Boot].pkg
    BY <2>1, <2>3 DEF MoveLeaves, Threads, NoWork, Pkg
  <2>5. PICK r \in app.renames : r[1] = p[1]
    BY <2>1, <2>3, <2>4 DEF SeedInv, RetiresRenamed
  <2>6. PICK q \in app.ships : q[1] = r[2]
    BY <2>5 DEF StoreTyped, AppFits
  <2>7. disk[q] = "whole"
    BY <2>1, <2>6 DEF SeedInv, SeededIsWhole, SeedsWell, Excused, Boots
  <2>8. r = <<p[1], q[1]>> /\ q \in Packages
    BY <2>5, <2>6 DEF StoreTyped, AppFits
  <2> QED
    BY <2>7, <2>8
<1> QED
  BY <1>1, StoreTypedHolds, SeedInvHolds, PTL DEF RenamedKeepsOne, StoreSpec

(***************************************************************************)
(* The services together.                                                  *)
(***************************************************************************)

\* Each service does what it does by itself, or rests.
LEMMA ServicesParts ==
  ServicesSpec => ClaimSpec /\ DiscoverySpec /\ StoreSpec /\ HostSpec
<1>1. ServicesInit => ClaimInit /\ DiscoveryInit /\ StoreInit /\ HostInit
  BY DEF ServicesInit
<1>2. [ServicesNext /\ UNCHANGED service]_servicesVars =>
        [ClaimNext]_claimVars /\ [DiscoveryNext]_discoveryVars
          /\ [StoreNext]_storeVars /\ [HostNext]_hostVars
  BY DEF servicesVars, ServicesNext
<1> QED
  BY <1>1, <1>2, PTL DEF ServicesSpec, ClaimSpec, DiscoverySpec, StoreSpec, HostSpec

\* The state of the service that runs is of its types, whichever it is: the claim on a session,
\* control.json, the store of packages, the host of a module.
THEOREM ServicesTyped == ServicesSpec => []ServicesTypeOK
BY ServicesParts, ClaimTypes, DiscoveryTyped, StoreTypes, HostTypes, PTL DEF ServicesTypeOK
=============================================================================
