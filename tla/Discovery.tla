------------------------------ MODULE Discovery ------------------------------
(***************************************************************************)
(* The file control.json by which the control server of an instance is     *)
(* found (core/src/control/discovery_guard.rs and server.rs; app/src/      *)
(* control_host.rs switches the server on and off): a server that starts   *)
(* claims the file unless a live instance owns it, a server that stops     *)
(* removes it if it is its own.  Instances start, stop and die in any      *)
(* order; to abort the task of a server takes effect at its next await.    *)
(***************************************************************************)
EXTENDS Integers, FiniteSets

CONSTANTS
  Instances,   \* instances of the program, each with a pid of its own
  LastServer   \* bound: servers that are started, each on a port of its own

ASSUME DiscoveryAssumption ==
  IsFiniteSet(Instances) /\ Instances # {} /\ LastServer \in Nat

VARIABLES
  file,        \* what control.json records: a server, or NoFile
  server,      \* each server: its instance and how far it has come
  living,      \* the instances whose process is alive
  removing,    \* instances that have found the file their own, to remove it
  blurred      \* history: what the guard could not see

discoveryVars == <<file, server, living, removing, blurred>>

Servers == 1 .. LastServer
NoFile == 0

\* together   a server passed the guard while another was on its way to write
\* unnamed    the name of a live owner could not be read
\* late       a server was stopped on its way to write
Blurs == {"together", "unnamed", "late"}

Stages == {"none", "guarding", "binding", "writing", "serving", "refused",
           "aborted", "over"}

DiscoveryTypeOK ==
  /\ file \in Servers \cup {NoFile}
  /\ server \in [Servers -> [of : Instances, at : Stages]]
  /\ living \subseteq Instances /\ removing \subseteq living
  /\ \A s \in Servers : server[s].at \in Stages \ {"none", "over"} => server[s].of \in living
  /\ blurred \subseteq Blurs

Owner(s) == server[s].of

\* ControlHost.shared is there: the server was not stopped since.
Held(i) ==
  {s \in Servers : Owner(s) = i
                   /\ server[s].at \in {"guarding", "binding", "writing", "serving", "refused"}}

DiscoveryInit ==
  /\ file = NoFile
  /\ server = [s \in Servers |-> [of |-> CHOOSE i \in Instances : TRUE, at |-> "none"]]
  /\ living = Instances /\ removing = {} /\ blurred = {}

Blur(names) == blurred' = blurred \cup names

Advance(s, stage) == server' = [server EXCEPT ![s].at = stage]

-----------------------------------------------------------------------------
(* run_server.                                                             *)

\* ControlHost.start.
StartServer(i) ==
  /\ i \in living \ removing /\ Held(i) = {}
  /\ \E s \in Servers :
       /\ server[s].at = "none"
       /\ \A t \in Servers : t < s => server[t].at # "none"
       /\ server' = [server EXCEPT ![s] = [of |-> i, at |-> "guarding"]]
  /\ UNCHANGED <<file, living, removing, blurred>>

\* live_foreign_avada_owner, when the owner's name can be read.
Foreign(s) == file # NoFile /\ Owner(file) # Owner(s) /\ Owner(file) \in living

OnTheWay(s) ==
  \E t \in Servers : Owner(t) # Owner(s)
                     /\ server[t].at \in {"binding", "writing", "aborted"}

\* ensure_claimable: a refusal is retried for RETRY_TOTAL.
PassGuard(s) ==
  /\ server[s].at = "guarding"
  /\ \/ ~Foreign(s) /\ Blur({m \in {"together"} : OnTheWay(s)})
     \/ Foreign(s) /\ Blur({"unnamed"})
  /\ Advance(s, "binding")
  /\ UNCHANGED <<file, living, removing>>

Refuse(s) ==
  /\ server[s].at = "guarding" /\ Foreign(s)
  /\ Advance(s, "refused")
  /\ UNCHANGED <<file, living, removing, blurred>>

\* The listener is bound; there is no await from here to the end of
\* write_discovery.
BindPort(s) ==
  /\ server[s].at = "binding"
  /\ Advance(s, "writing")
  /\ UNCHANGED <<file, living, removing, blurred>>

\* write_discovery, and the await of axum::serve.
WriteFile(s) ==
  /\ server[s].at \in {"writing", "aborted"}
  /\ file' = s
  /\ Advance(s, IF server[s].at = "writing" THEN "serving" ELSE "over")
  /\ UNCHANGED <<living, removing, blurred>>

-----------------------------------------------------------------------------
(* ControlHost.stop, and the end of a process.                             *)

\* Slip: whoever stops removes the file.
OwnAlways(i) == file # NoFile

\* Slip: the file is left to the next instance.
OwnNever(i) == FALSE

\* remove_discovery: the recorded pid is ours.
Own(i) == file # NoFile /\ Owner(file) = i

\* The abort does not wait for a server that is between two awaits.
StopServer(i) ==
  /\ i \in living \ removing
  /\ \E s \in Held(i) :
       /\ Advance(s, IF server[s].at = "writing" THEN "aborted" ELSE "over")
       /\ Blur({m \in {"late"} : server[s].at = "writing"})
  /\ removing' = IF Own(i) THEN removing \cup {i} ELSE removing
  /\ UNCHANGED <<file, living>>

RemoveFile(i) ==
  /\ i \in removing
  /\ file' = NoFile
  /\ removing' = removing \ {i}
  /\ UNCHANGED <<server, living, blurred>>

LeftUnremoved(i) == removing \ {i}

EndInstance(i) ==
  /\ i \in living
  /\ living' = living \ {i}
  /\ server' = [s \in Servers |-> IF Owner(s) = i /\ server[s].at # "none"
                                  THEN [server[s] EXCEPT !.at = "over"] ELSE server[s]]
  /\ removing' = LeftUnremoved(i)
  /\ UNCHANGED <<file, blurred>>

DiscoveryNext ==
  \/ \E i \in Instances : StartServer(i) \/ StopServer(i) \/ RemoveFile(i) \/ EndInstance(i)
  \/ \E s \in Servers : PassGuard(s) \/ Refuse(s) \/ BindPort(s) \/ WriteFile(s)

DiscoverySpec == DiscoveryInit /\ [][DiscoveryNext]_discoveryVars

-----------------------------------------------------------------------------
\* A server that serves is the one that control.json leads to: no other instance
\* takes the file over or takes it away, unless two started together, or an
\* owner's name could not be read, or a server was stopped as it was about to
\* write.
ServersAreFound ==
  blurred = {} => \A s \in Servers : server[s].at = "serving" => file = s

\* control.json never leads to a server that has been stopped; only an instance
\* that died leaves it behind, and one that was stopped as it was about to write.
NoDeadPort ==
  blurred = {} /\ file # NoFile =>
    \/ server[file].at = "serving"
    \/ Owner(file) \in removing
    \/ Owner(file) \notin living
=============================================================================
