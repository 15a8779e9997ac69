----------------------------- MODULE InstallStore -----------------------------
(***************************************************************************)
(* The installed modules of the program: one directory per version, and a  *)
(* lockfile that pins the active version of each module                    *)
(* (core/src/install/store.rs, lock.rs), filled at every launch from the   *)
(* bundle (install/seed.rs) and by install and uninstall requests, each a  *)
(* thread of its own (marketplace/mod.rs).  No lock is held over a         *)
(* request: directories and lockfile are read and written in steps, any of *)
(* which can fail, and the process can die between any two (in the middle  *)
(* of one it leaves what the failure of that one leaves).                  *)
(***************************************************************************)
EXTENDS Integers, FiniteSets

CONSTANTS
  Packages,    \* <<module, version>>
  Apps,        \* builds of the program: what they ship and which modules they rename
  Jobs,        \* threads that serve install and uninstall requests
  Boot,        \* the thread that starts the program
  MaxTurns,    \* bound: launches and requests
  MaxFaults    \* bound: file operations that fail

Modules == {p[1] : p \in Packages}
Versions == {p[2] : p \in Packages}

\* RETIRED: what a build renames it ships under the new name.
ASSUME StoreAssumption ==
  /\ \A p \in Packages : p = <<p[1], p[2]>> /\ p[2] \in Nat \ {0}
  /\ \A a \in Apps :
       /\ a.bundle \subseteq Packages /\ a.renames \subseteq Modules \X Modules
       /\ \A r \in a.renames : \E p \in a.bundle : p[1] = r[2]
  /\ Boot \notin Jobs /\ {MaxTurns, MaxFaults} \subseteq Nat

VARIABLES
  disk,        \* what there is of the directory of each version
  pins,        \* modules.lock: the active version of each module, or NoPin
  offered,     \* seed-ledger.json: what can be read in it, nothing when it is broken
  work,        \* what each thread is doing
  app,         \* the program: its build and how far it has come, or NotRunning
  budget,      \* bound: turns and failures so far
  refused,     \* history: bundled versions that the user uninstalled
  forgotten,   \* history: versions the ledger had when it could not be read or was broken
  unpinned,    \* history: modules whose active version was uninstalled
  lost,        \* history: versions that are gone, and not by the user's last word
  mishaps      \* history: modules a job of which failed, died, was crossed or overwritten

storeVars == <<disk, pins, offered, work, app, budget, refused, forgotten,
               unpinned, lost, mishaps>>

NoPin == 0
NoPins == [m \in Modules |-> NoPin]
Threads == Jobs \cup {Boot}
NoWork == [does |-> "nothing", pkg |-> <<>>, at |-> "start", read |-> NoPins]
NotRunning == [stage |-> "down", ships |-> {}, renames |-> {}, todo |-> {}, read |-> {},
               seen |-> {}, hurt |-> FALSE]

\* none     no directory
\* empty    a directory without artifact and record
\* staged   an artifact without record
\* hollow   a record without artifact
\* whole    load accepts it
DirStates == {"none", "empty", "staged", "hollow", "whole"}

Steps == {"start", "clear", "make", "populate", "record", "readPins", "pin", "load", "activate",
          "remove", "readPin", "unpin"}

StoreTypeOK ==
  /\ disk \in [Packages -> DirStates]
  /\ pins \in [Modules -> Versions \cup {NoPin}]
  /\ offered \subseteq Packages /\ refused \subseteq Packages
  /\ \A t \in Threads :
       /\ work[t].does \in {"nothing", "seed", "retire", "install", "uninstall"}
       /\ work[t].at \in Steps
       /\ work[t].read \in [Modules -> Versions \cup {NoPin}]
       /\ work[t] # NoWork => work[t].pkg \in Packages
  /\ app.stage \in {"down", "seeding", "retiring", "running"}
  /\ app.stage = "down" => app = NotRunning /\ \A t \in Threads : work[t] = NoWork
  /\ app.stage # "running" => \A t \in Jobs : work[t] = NoWork
  /\ {lost, forgotten, app.todo, app.read, app.seen} \subseteq SUBSET Packages
  /\ unpinned \subseteq Modules /\ mishaps \subseteq Modules

StoreInit ==
  /\ disk = [p \in Packages |-> "none"] /\ pins = NoPins /\ offered = {}
  /\ work = [t \in Threads |-> NoWork] /\ app = NotRunning
  /\ budget = [turns |-> 0, faults |-> 0]
  /\ refused = {} /\ forgotten = {} /\ unpinned = {} /\ lost = {} /\ mishaps = {}

Pkg(t) == work[t].pkg
Mod(t) == Pkg(t)[1]
At(t, step) == work[t] # NoWork /\ work[t].at = step
GoTo(t, step) == work' = [work EXCEPT ![t].at = step]
ReadAs(t, step) == work' = [work EXCEPT ![t].at = step, ![t].read = pins]
Begin(t, what, p, step) ==
  work' = [work EXCEPT ![t] = [does |-> what, pkg |-> p, at |-> step, read |-> NoPins]]
Becomes(p, states) == \E s \in states : disk' = [disk EXCEPT ![p] = s]
NoteGone(p) == lost' = IF disk'[p] = "none" THEN lost \cup {p} ELSE lost \ {p}

\* A file operation fails of itself, or because another thread works on the same
\* directory.
Contended(t) == \E u \in Threads \ {t} : work[u] # NoWork /\ Pkg(u) = Pkg(t)
Fault(t) ==
  /\ Contended(t) \/ budget.faults < MaxFaults
  /\ budget' = [budget EXCEPT !.faults = IF Contended(t) THEN @ ELSE @ + 1]
  /\ app' = [app EXCEPT !.hurt = TRUE]

\* The job ends: the seeder enters what it installed in its ledger.
Done(t) ==
  /\ work' = [work EXCEPT ![t] = NoWork]
  /\ app' = IF work[t].does = "seed" THEN [app EXCEPT !.seen = @ \cup {Pkg(t)}] ELSE app
Failed(t) == work' = [work EXCEPT ![t] = NoWork] /\ mishaps' = mishaps \cup {Mod(t)}

-----------------------------------------------------------------------------
(* InstallStore::install.                                                  *)

\* What can be left of a directory that remove_dir_all did not get rid of.
Left(s) ==
  CASE s = "whole" -> {"whole", "staged", "hollow", "empty"}
    [] s = "none" -> {"none"}
    [] OTHER -> {s, "empty"}

\* A directory that is there goes.
Clear(t) ==
  /\ At(t, "clear")
  /\ \/ Becomes(Pkg(t), {"none"}) /\ GoTo(t, "make") /\ UNCHANGED <<app, budget, mishaps>>
     \/ Fault(t) /\ Failed(t) /\ Becomes(Pkg(t), Left(disk[Pkg(t)]))
  /\ NoteGone(Pkg(t))
  /\ UNCHANGED <<pins, offered, refused, forgotten, unpinned>>

\* ensure_private_dir, which another thread may have been before.
Made(s) == IF s = "none" THEN "empty" ELSE s

Make(t) ==
  LET s == disk[Pkg(t)] IN
  /\ At(t, "make")
  /\ \/ Becomes(Pkg(t), {Made(s)}) /\ GoTo(t, "populate") /\ UNCHANGED <<app, budget, mishaps>>
     \/ Fault(t) /\ Failed(t) /\ Becomes(Pkg(t), {s, Made(s)})
  /\ NoteGone(Pkg(t))
  /\ UNCHANGED <<pins, offered, refused, forgotten, unpinned>>

\* After a failure the directory is removed, and how that went is not looked at.
Undo(t, s) == Failed(t) /\ Becomes(Pkg(t), {"none"} \cup Left(s))

WithArtifact(s) == IF s \in {"hollow", "whole"} THEN "whole" ELSE "staged"

\* copy_bytes creates the artifact and refuses one that is there.
Populate(t) ==
  LET s == disk[Pkg(t)] IN
  /\ At(t, "populate")
  /\ \/ /\ s \in {"none", "empty", "hollow"}
        /\ Becomes(Pkg(t), {WithArtifact(s)}) /\ GoTo(t, "record")
        /\ UNCHANGED <<app, budget, mishaps>>
     \/ Fault(t) /\ Undo(t, WithArtifact(s))
  /\ NoteGone(Pkg(t))
  /\ UNCHANGED <<pins, offered, refused, forgotten, unpinned>>

WriteRecord(t) ==
  LET s == disk[Pkg(t)] IN
  /\ At(t, "record")
  /\ \/ /\ Becomes(Pkg(t), {IF s \in {"staged", "whole"} THEN "whole" ELSE "hollow"})
        /\ GoTo(t, "readPins") /\ UNCHANGED <<app, budget, mishaps>>
     \/ Fault(t) /\ Undo(t, s)
  /\ NoteGone(Pkg(t))
  /\ UNCHANGED <<pins, offered, refused, forgotten, unpinned>>

\* What install answers with; a request goes on to activate.
Installed(t) ==
  IF work[t].does = "install" THEN GoTo(t, "load") /\ UNCHANGED app ELSE Done(t)

\* The lockfile is read; a newer version that is active stays so.
ReadPins(t) ==
  /\ At(t, "readPins")
  /\ \/ /\ IF pins[Mod(t)] > Pkg(t)[2] THEN Installed(t) ELSE ReadAs(t, "pin") /\ UNCHANGED app
        /\ UNCHANGED <<budget, mishaps>>
     \/ Fault(t) /\ Failed(t)
  /\ UNCHANGED <<disk, pins, offered, refused, forgotten, unpinned, lost>>

\* No other thread works on the module.
Alone(t) == \A u \in Threads \ {t} : work[u] # NoWork => Mod(u) # Mod(t)

\* The whole lockfile is written, with what the others had when it was read.
WritePins(t, v) ==
  /\ pins' = [work[t].read EXCEPT ![Mod(t)] = v]
  /\ mishaps' = (mishaps \ {m \in {Mod(t)} : Alone(t) /\ v # NoPin /\ disk[<<m, v>>] = "whole"})
                  \cup {m \in Modules : work[t].read[m] # pins[m]}
  /\ unpinned' = IF v = NoPin THEN unpinned \cup {Mod(t)} ELSE unpinned \ {Mod(t)}

Pin(t) ==
  /\ At(t, "pin")
  /\ \/ WritePins(t, Pkg(t)[2]) /\ Installed(t) /\ UNCHANGED budget
     \/ Fault(t) /\ Failed(t) /\ UNCHANGED <<pins, unpinned>>
  /\ UNCHANGED <<disk, offered, refused, forgotten, lost>>

\* InstallStore::activate reads the lockfile and loads the version.
Load(t) ==
  /\ At(t, "load")
  /\ \/ /\ disk[Pkg(t)] = "whole"
        /\ ReadAs(t, "activate")
        /\ UNCHANGED <<app, budget, mishaps>>
     \/ disk[Pkg(t)] # "whole" /\ Failed(t) /\ UNCHANGED <<app, budget>>
     \/ Fault(t) /\ Failed(t)
  /\ UNCHANGED <<disk, pins, offered, refused, forgotten, unpinned, lost>>

Activate(t) ==
  /\ At(t, "activate")
  /\ \/ WritePins(t, Pkg(t)[2]) /\ Done(t) /\ UNCHANGED budget
     \/ Fault(t) /\ Failed(t) /\ UNCHANGED <<pins, unpinned>>
  /\ UNCHANGED <<disk, offered, refused, forgotten, lost>>

-----------------------------------------------------------------------------
(* InstallStore::uninstall.                                                *)

\* Nobody else works on the version, and it is the user who has it uninstalled.
UsersWord(t) == work[t].does = "uninstall" /\ ~Contended(t)

Remove(t) ==
  /\ At(t, "remove")
  /\ \/ /\ disk[Pkg(t)] = "none"
        /\ work' = [work EXCEPT ![t] = NoWork]
        /\ UNCHANGED <<disk, app, budget, refused, forgotten, lost, mishaps>>
     \/ /\ disk[Pkg(t)] # "none"
        /\ Becomes(Pkg(t), {"none"}) /\ GoTo(t, "readPin")
        /\ refused' = IF UsersWord(t) THEN refused \cup ({Pkg(t)} \cap offered) ELSE refused
        /\ forgotten' = IF UsersWord(t) THEN forgotten \ ({Pkg(t)} \cap offered) ELSE forgotten
        /\ lost' = IF UsersWord(t) THEN lost \ {Pkg(t)} ELSE lost \cup {Pkg(t)}
        /\ mishaps' = IF Contended(t) THEN mishaps \cup {Mod(t)} ELSE mishaps
        /\ UNCHANGED <<app, budget>>
     \/ /\ disk[Pkg(t)] # "none"
        /\ Fault(t) /\ Becomes(Pkg(t), Left(disk[Pkg(t)])) /\ Failed(t)
        /\ UNCHANGED <<refused, forgotten, lost>>
  /\ UNCHANGED <<pins, offered, unpinned>>

\* Slip: the lockfile is left alone.
ActiveNever(t) == FALSE

\* lock::is_active.
Active(t) == pins[Mod(t)] = Pkg(t)[2]

ReadPin(t) ==
  /\ At(t, "readPin")
  /\ \/ /\ IF Active(t) THEN ReadAs(t, "unpin") ELSE work' = [work EXCEPT ![t] = NoWork]
        /\ UNCHANGED <<app, budget, mishaps>>
     \/ Fault(t) /\ Failed(t)
  /\ UNCHANGED <<disk, pins, offered, refused, forgotten, unpinned, lost>>

Unpin(t) ==
  /\ At(t, "unpin")
  /\ \/ WritePins(t, NoPin) /\ Done(t) /\ UNCHANGED budget
     \/ Fault(t) /\ Failed(t) /\ UNCHANGED <<pins, unpinned>>
  /\ UNCHANGED <<disk, offered, refused, forgotten, lost>>
-----------------------------------------------------------------------------
(* seed_bundled, at every launch, before requests are served.              *)

\* Ledger::load takes a ledger it cannot read for an empty one.
Launch ==
  /\ app.stage = "down" /\ budget.turns < MaxTurns
  /\ \E a \in Apps, read \in {offered, {}} :
       LET unread == read # offered IN
       /\ app' = [stage |-> "seeding", ships |-> a.bundle, renames |-> a.renames,
                  todo |-> a.bundle, read |-> read, seen |-> read, hurt |-> unread]
       /\ unread => budget.faults < MaxFaults
       /\ budget' = [turns |-> budget.turns + 1,
                     faults |-> budget.faults + (IF unread THEN 1 ELSE 0)]
       /\ forgotten' = IF unread THEN forgotten \cup offered ELSE forgotten
  /\ UNCHANGED <<disk, pins, offered, work, refused, unpinned, lost, mishaps>>

\* The directory of the bundle cannot be read.
LaunchUnseeded ==
  /\ app.stage = "down" /\ budget.turns < MaxTurns /\ budget.faults < MaxFaults
  /\ app' = [NotRunning EXCEPT !.stage = "running", !.hurt = TRUE]
  /\ budget' = [turns |-> budget.turns + 1, faults |-> budget.faults + 1]
  /\ UNCHANGED <<disk, pins, offered, work, refused, forgotten, unpinned, lost, mishaps>>

Booting(stage) == app.stage = stage /\ work[Boot] = NoWork

\* Slip: whatever is not there whole is installed.
SettledOnDisk(p) == disk[p] = "whole"

\* A live install is adopted; what was offered and is gone was uninstalled.
Settled(p) == disk[p] = "whole" \/ (disk[p] = "none" /\ p \in app.seen)

\* seed_one; the last case is a module that cannot be read: of the bundle, or an
\* installed one, which is then taken for broken.
Seed(p) ==
  /\ Booting("seeding") /\ p \in app.todo
  /\ \/ /\ Settled(p)
        /\ app' = [app EXCEPT !.todo = @ \ {p}, !.seen = @ \cup {p}]
        /\ UNCHANGED <<work, budget>>
     \/ /\ ~Settled(p)
        /\ app' = [app EXCEPT !.todo = @ \ {p}]
        /\ Begin(Boot, "seed", p, "clear")
        /\ UNCHANGED budget
     \/ /\ budget.faults < MaxFaults
        /\ app' = [app EXCEPT !.todo = @ \ {p}, !.hurt = TRUE]
        /\ budget' = [budget EXCEPT !.faults = @ + 1]
        /\ UNCHANGED work \/ (disk[p] = "whole" /\ Begin(Boot, "seed", p, "clear"))
  /\ UNCHANGED <<disk, pins, offered, refused, forgotten, unpinned, lost, mishaps>>

\* retire_renamed: any directory of the replacement counts.
Superseded(p) ==
  /\ disk[p] # "none"
  /\ \E q \in Packages : <<p[1], q[1]>> \in app.renames /\ disk[q] # "none"

\* Slip: the renamed modules go before the bundle is installed.
RetiresFirst ==
  /\ Booting("seeding")
  /\ app' = [app EXCEPT !.stage = "retiring", !.todo = {p \in Packages : Superseded(p)}]
  /\ UNCHANGED <<disk, pins, offered, work, budget, refused, forgotten, unpinned, lost,
                 mishaps>>

BeginRetiring ==
  /\ Booting("seeding") /\ app.todo = {}
  /\ app' = [app EXCEPT !.stage = "retiring", !.todo = {p \in Packages : Superseded(p)}]
  /\ UNCHANGED <<disk, pins, offered, work, budget, refused, forgotten, unpinned, lost,
                 mishaps>>

Retire(p) ==
  /\ Booting("retiring") /\ p \in app.todo
  /\ app' = [app EXCEPT !.todo = @ \ {p}]
  /\ Begin(Boot, "retire", p, "remove")
  /\ UNCHANGED <<disk, pins, offered, budget, refused, forgotten, unpinned, lost, mishaps>>

\* Ledger::save overwrites the file in place: cut short, it leaves one that cannot be
\* parsed.
SaveLedger ==
  /\ Booting("retiring") /\ app.todo = {}
  /\ app' = [app EXCEPT !.stage = "running"]
  /\ \/ app.seen = app.read /\ UNCHANGED <<offered, budget>>
     \/ app.seen # app.read /\ offered' = app.seen /\ UNCHANGED budget
     \/ /\ app.seen # app.read /\ budget.faults < MaxFaults
        /\ budget' = [budget EXCEPT !.faults = @ + 1]
        /\ offered' \in {offered, {}}
  /\ forgotten' = forgotten \cup (offered \ offered')
  /\ UNCHANGED <<disk, pins, work, refused, unpinned, lost, mishaps>>

-----------------------------------------------------------------------------
(* Requests, and the end of the process.                                   *)

\* run_install, once the artifact is there.
AskInstall(t, p) ==
  /\ Begin(t, "install", p, "clear")
  /\ refused' = refused \ {p}
  /\ lost' = IF disk[p] = "none" THEN lost \cup {p} ELSE lost

AskUninstall(t, p) ==
  /\ disk[p] # "none" /\ Begin(t, "uninstall", p, "remove")
  /\ UNCHANGED <<refused, lost>>

\* A thread is started for the request: any that has none will do.
Idle == CHOOSE t \in Jobs : work[t] = NoWork

Ask ==
  /\ app.stage = "running" /\ budget.turns < MaxTurns
  /\ \E t \in Jobs : work[t] = NoWork
  /\ budget' = [budget EXCEPT !.turns = @ + 1]
  /\ \E p \in Packages : AskInstall(Idle, p) \/ AskUninstall(Idle, p)
  /\ UNCHANGED <<disk, pins, offered, app, forgotten, unpinned, mishaps>>

\* The program quits or is killed, whatever its threads are doing.
Quit ==
  /\ app.stage # "down"
  /\ app' = NotRunning
  /\ work' = [t \in Threads |-> NoWork]
  /\ mishaps' = mishaps \cup {Mod(t) : t \in {u \in Threads : work[u] # NoWork}}
  /\ UNCHANGED <<disk, pins, offered, budget, refused, forgotten, unpinned, lost>>

JobMoves(t) ==
  \/ Clear(t) \/ Make(t) \/ Populate(t) \/ WriteRecord(t) \/ ReadPins(t) \/ Pin(t)
  \/ Load(t) \/ Activate(t) \/ Remove(t) \/ ReadPin(t) \/ Unpin(t)

StoreNext ==
  \/ \E t \in Threads : JobMoves(t)
  \/ \E p \in Packages : Seed(p) \/ Retire(p)
  \/ Launch \/ LaunchUnseeded \/ BeginRetiring \/ SaveLedger \/ Ask \/ Quit

StoreSpec == StoreInit /\ [][StoreNext]_storeVars

-----------------------------------------------------------------------------
\* When no thread works on a module, the lockfile pins a version of it that is
\* there whole, and pins one if there is one: what is installed starts at the
\* next launch.  Except after the version that was active was uninstalled, or
\* when a job on the module failed or died half way, or a version was uninstalled
\* while it was being installed, or another job wrote the lockfile as it was
\* before.
PinsFollowDisk ==
  \A m \in Modules \ mishaps :
    (\A t \in Threads : work[t] # NoWork => Mod(t) # m) =>
      IF pins[m] # NoPin THEN disk[<<m, pins[m]>>] = "whole"
      ELSE m \in unpinned \/ \A p \in Packages : p[1] = m => disk[p] # "whole"

\* At every launch in which no file operation fails, each bundled version ends
\* up installed, however an earlier install of it was cut short, unless the user
\* uninstalled it: then it stays away, as long as the ledger was never broken or
\* unreadable since.  A version of the ledger that is gone without the user may
\* stay away too: one that failed, that died between the removal of the old
\* directory and the making of the new one, or whose module was renamed.
SeedingFollowsUser ==
  [][\A p \in app.ships : BeginRetiring /\ ~app.hurt =>
       /\ p \in refused \ forgotten => disk[p] = "none"
       /\ p \notin (refused \cup lost) \cap app.read => disk[p] = "whole"]_storeVars

\* A renamed module goes only when its replacement is there whole, unless the
\* bundled replacement could not be installed in this launch or was gone before
\* (retire_renamed takes any directory for an install).
RenamedKeepsOne ==
  [][\A p \in Packages :
       work[Boot].does = "retire" /\ disk[p] # "none" /\ disk'[p] = "none" =>
         \/ \E q \in Packages : <<p[1], q[1]>> \in app.renames /\ disk[q] = "whole"
         \/ app.hurt \/ app.ships \cap (refused \cup lost) # {}]_storeVars
=============================================================================
