--------------------------- MODULE PaneSupervision ---------------------------
(***************************************************************************)
(* A supervised pane of the control server (core/src/control/server.rs,    *)
(* supervisor.rs, readmodel.rs): its session crashes, is restarted after a *)
(* backoff until the retries are used up, or is restarted by hand; a       *)
(* ticker demotes a pane whose session has vanished without an event; the  *)
(* window closes it and publishes its tree without it.  The read model     *)
(* finds the pane of an event by an index from session to pane.            *)
(***************************************************************************)
EXTENDS Integers, Sequences

CONSTANTS
  MaxRetries,    \* hp.maxRetries
  LastUid,       \* bound: the last session that can be created
  MaxHands       \* bound: commands given by hand

ASSUME SupervisionAssumption == {MaxRetries, LastUid, MaxHands} \subseteq Nat

VARIABLES
  pane,          \* the read model's entry: the session it shows and its status,
                 \* closed when there is no entry any more
  indexed,       \* the session the index uid_to_pane leads from, if any
  session,       \* what has become of each session
  exits,         \* Exit events not handled yet
  supervised,    \* hp.supervise
  retries,       \* retries_used
  backoffs,      \* restarts that are scheduled or under way
  demoting,      \* the session the ticker has found missing
  hands,         \* how many commands have been given by hand
  spent,         \* history: automatic restarts since the last sign of health
  slips          \* history: what has gone wrong for the pane

paneVars == <<pane, indexed, session, exits, supervised, retries, backoffs,
              demoting, hands, spent, slips>>

Uids == 0 .. LastUid
NoUid == -1

\* unheard   the exit of the pane's session came while the index did not lead
\*           from it, or before the pane showed it
\* mistaken  the exit of a session marked a pane that shows another
\* unmanned  an exit was handled while the pane was not supervised
\* failed    a session could not be created
\* crossed   a restart by hand came between the check of a scheduled restart
\*           and its swap
\* closed    the pane was closed between the check of a scheduled restart and
\*           its swap
\* uncounted an exit was handled before the last restart was counted
PaneSlips ==
  {"unheard", "mistaken", "unmanned", "failed", "crossed", "closed", "uncounted"}

Restart(step, of, new) == [step |-> step, of |-> of, new |-> new]

PaneTypeOK ==
  /\ pane \in [uid : Uids, status : {"running", "exited", "closed"}]
  /\ indexed \in Uids \cup {NoUid}
  /\ session \in [Uids -> {"unborn", "live", "clean", "crashed", "killed", "closed"}]
  /\ \A i \in 1 .. Len(exits) : session[exits[i]] \in {"clean", "crashed"}
  /\ supervised \in BOOLEAN
  /\ retries \in Nat /\ spent \in Nat
  /\ \A b \in backoffs :
       b \in [step : {"waiting", "checked", "created", "swapped"}, of : Uids, new : Uids \cup {NoUid}]
  /\ demoting \in Uids \cup {NoUid}
  /\ hands \in 0 .. MaxHands
  /\ slips \subseteq PaneSlips

PaneInit ==
  /\ pane = [uid |-> 0, status |-> "running"]
  /\ indexed = 0
  /\ session = [u \in Uids |-> IF u = 0 THEN "live" ELSE "unborn"]
  /\ exits = <<>> /\ supervised = TRUE /\ retries = 0 /\ backoffs = {}
  /\ demoting = NoUid /\ hands = 0 /\ spent = 0 /\ slips = {}

Slip(names) == slips' = slips \cup names

\* The read model has the pane.
Shown == pane.status # "closed"

\* uuids are never used twice.
Fresh(u) == session[u] = "unborn" /\ \A v \in Uids : v < u => session[v] # "unborn"

-----------------------------------------------------------------------------
(* The session and its events.                                             *)

SessionEnds ==
  /\ \E u \in Uids, how \in {"clean", "crashed"} :
       /\ session[u] = "live"
       /\ session' = [session EXCEPT ![u] = how]
       /\ exits' = Append(exits, u)
  /\ UNCHANGED <<pane, indexed, supervised, retries, backoffs, demoting, hands,
                 spent, slips>>

\* mark_exited: the pane the index leads to, whatever session that pane shows.
Marked(u) ==
  IF indexed = u THEN [pane EXCEPT !.status = "exited"] ELSE pane

\* Slip: the last retry is not used.
SpentEarly == retries + 1 >= MaxRetries

Spent == retries >= MaxRetries

\* on_exit, for hp.restartOn = failure.
Restarts(u) == supervised /\ session[u] = "crashed" /\ ~Spent

\* A restart has created the session, and the pane does not show it yet.
Unshown(u) == \E b \in backoffs : b.step = "created" /\ b.new = u

\* A restart has been made and is not recorded yet.
Uncounted == \E b \in backoffs : b.step = "swapped"

\* process_session_event and supervise_exit.
HandleExit ==
  /\ exits # <<>>
  /\ LET u == Head(exits)
     IN  /\ pane' = Marked(u)
         /\ backoffs' = IF indexed = u /\ Restarts(u)
                        THEN backoffs \cup {Restart("waiting", u, NoUid)} ELSE backoffs
         /\ Slip({m \in {"unheard"}  : indexed # u /\ (pane.uid = u \/ Unshown(u))}
                 \cup {m \in {"mistaken"} : pane.uid # u /\ indexed = u}
                 \cup {m \in {"unmanned"} : ~supervised}
                 \cup {m \in {"uncounted"} : Uncounted})
  /\ exits' = Tail(exits)
  /\ UNCHANGED <<indexed, session, supervised, retries, demoting, hands, spent>>

\* A prompt or the end of an agent's turn: emit_marker_liveness, note_healthy.
ShowHealth ==
  /\ indexed # NoUid /\ session[indexed] = "live" /\ retries > 0
  /\ retries' = 0 /\ spent' = 0
  /\ UNCHANGED <<pane, indexed, session, exits, supervised, backoffs, demoting,
                 hands, slips>>

-----------------------------------------------------------------------------
(* A scheduled restart: do_restart when the backoff has passed.            *)

\* Slip: the pane is not looked at again after the backoff.
StillDeadUnchecked(b) == TRUE

\* It is not when the pane was closed during the backoff.
StillDead(b) == pane.status = "exited" /\ pane.uid = b.of

CheckRestart(b) ==
  /\ b.step = "waiting"
  /\ backoffs' = (backoffs \ {b})
        \cup (IF StillDead(b) THEN {Restart("checked", b.of, NoUid)} ELSE {})
  /\ UNCHANGED <<pane, indexed, session, exits, supervised, retries, demoting,
                 hands, spent, slips>>

\* sessions.create, with no lock held; a failure is reported and that is all.
CreateForRestart(b) ==
  /\ b.step = "checked"
  /\ \/ /\ \E u \in Uids :
             /\ Fresh(u)
             /\ session' = [session EXCEPT ![u] = "live"]
             /\ backoffs' = (backoffs \ {b}) \cup {Restart("created", b.of, u)}
        /\ UNCHANGED slips
     \/ /\ backoffs' = backoffs \ {b}
        /\ Slip({"failed"})
        /\ UNCHANGED session
  /\ UNCHANGED <<pane, indexed, exits, supervised, retries, demoting, hands, spent>>

\* Slip: the pane keeps its status.
RespawnedAsIs(u) == [pane EXCEPT !.uid = u]

\* respawn_pane; it leaves the index as it is.
Respawned(u) == [uid |-> u, status |-> "running"]

\* A pane that is gone is not told of: what was created for it stays.
SwapForRestart(b) ==
  /\ b.step = "created"
  /\ \/ Shown /\ pane' = Respawned(b.new) /\ spent' = spent + 1
     \/ ~Shown /\ UNCHANGED <<pane, spent>>
  /\ backoffs' = (backoffs \ {b}) \cup {Restart("swapped", b.of, b.new)}
  /\ UNCHANGED <<indexed, session, exits, supervised, retries, demoting, hands, slips>>

\* Slip: a restart is not counted.
RecordedNot == retries

Recorded == retries + 1

\* record_restart, under a lock of its own; the entry of a pane that is gone is
\* dropped by the next reconcile_policies.
CountRestart(b) ==
  /\ b.step = "swapped"
  /\ retries' = Recorded \/ (~Shown /\ retries' = retries)
  /\ backoffs' = backoffs \ {b}
  /\ UNCHANGED <<pane, indexed, session, exits, supervised, demoting, hands,
                 spent, slips>>

-----------------------------------------------------------------------------
(* Commands, the ticker and the rest of the tree.                          *)

OneMoreHand == hands < MaxHands /\ hands' = hands + 1

\* Slip: what the session had come to is forgotten.
KilledAnyway == [session EXCEPT ![pane.uid] = "killed"]

KilledOld ==
  [session EXCEPT ![pane.uid] = IF @ = "live" THEN "killed" ELSE @]

\* restartPane, under the lock of the model: kill, which is silent, create, swap.
RestartByHand ==
  /\ Shown /\ OneMoreHand
  /\ \/ /\ \E u \in Uids : /\ Fresh(u)
                           /\ session' = [KilledOld EXCEPT ![u] = "live"]
                           /\ pane' = Respawned(u)
        /\ Slip({m \in {"crossed"} : \E b \in backoffs : b.step \in {"checked", "created"}})
     \/ /\ session' = KilledOld
        /\ Slip({"failed"})
        /\ UNCHANGED pane
  /\ UNCHANGED <<indexed, exits, supervised, retries, backoffs, demoting, spent>>

\* setMeta, reconcile_policies: the count is kept.
SetSupervise ==
  /\ Shown /\ OneMoreHand
  /\ supervised' = ~supervised
  /\ UNCHANGED <<pane, indexed, session, exits, retries, backoffs, demoting,
                 spent, slips>>

\* The window closes the pane: it kills the session, or parks it alive to be reopened,
\* and its next publish leaves the pane out and rebuilds the index.
ClosePane ==
  /\ Shown /\ OneMoreHand
  /\ pane' = [pane EXCEPT !.status = "closed"]
  /\ indexed' = NoUid
  /\ session' = [session EXCEPT ![pane.uid] = IF @ = "live" THEN "closed" ELSE @]
  /\ Slip({m \in {"closed"} : \E b \in backoffs : b.step \in {"checked", "created"}})
  /\ UNCHANGED <<exits, supervised, retries, backoffs, demoting, spent>>

\* Slip: a session that was killed counts as there.
VanishedOfItself ==
  pane.status = "running" /\ session[pane.uid] \notin {"live", "killed"}

Vanished == pane.status = "running" /\ session[pane.uid] # "live"

\* reconcile_exits: what it finds under one lock it marks under another, and
\* without asking the supervisor.
FindVanished ==
  /\ demoting = NoUid /\ Vanished
  /\ demoting' = pane.uid
  /\ UNCHANGED <<pane, indexed, session, exits, supervised, retries, backoffs,
                 hands, spent, slips>>

Demote ==
  /\ demoting # NoUid
  /\ pane' = Marked(demoting)
  /\ Slip({m \in {"mistaken"} : pane.uid # demoting /\ indexed = demoting})
  /\ demoting' = NoUid
  /\ UNCHANGED <<indexed, session, exits, supervised, retries, backoffs, hands, spent>>

\* Any pane, tab or window is added or removed: the index is rebuilt.
Reindex ==
  /\ Shown /\ indexed # pane.uid
  /\ indexed' = pane.uid
  /\ UNCHANGED <<pane, session, exits, supervised, retries, backoffs, demoting,
                 hands, spent, slips>>

-----------------------------------------------------------------------------

ServerStep ==
  \/ HandleExit \/ FindVanished \/ Demote
  \/ \E b \in backoffs :
       CheckRestart(b) \/ CreateForRestart(b) \/ SwapForRestart(b) \/ CountRestart(b)

PaneNext ==
  \/ ServerStep \/ SessionEnds \/ ShowHealth
  \/ RestartByHand \/ SetSupervise \/ ClosePane \/ Reindex

PaneSpec == PaneInit /\ [][PaneNext]_paneVars

\* The tasks of the server run and the ticker ticks.
PaneFairness ==
  /\ WF_paneVars(HandleExit) /\ WF_paneVars(FindVanished) /\ WF_paneVars(Demote)

FairPaneSpec == PaneSpec /\ PaneFairness

-----------------------------------------------------------------------------
\* The exit of a session waits to be handled.
Queued(u) == \E i \in 1 .. Len(exits) : exits[i] = u

\* A crash of a supervised pane is answered with a restart until the retries
\* are used up; unless its exit came while the index was out of date, while
\* supervision was off, or a session could not be created.
CrashIsRetried ==
  LET u == pane.uid
  IN  /\ Shown /\ session[u] = "crashed"
      /\ ~Queued(u)
      /\ \A b \in backoffs : b.of # u
      /\ slips \cap {"unheard", "unmanned", "failed", "crossed"} = {}
      => retries >= MaxRetries

\* A scheduled restart never leaves a live session without a pane: one that was
\* started by hand during the backoff stays, and none is made for a pane that was
\* closed during it.  Only a restart by hand or a close that comes between the last
\* look at the pane and the swap can orphan one.
NoSessionOrphaned ==
  slips \cap {"crossed", "closed"} = {} =>
    \A u \in Uids : session[u] = "live" =>
      (Shown /\ pane.uid = u) \/ \E b \in backoffs : b.new = u

\* Between two signs of health a pane is restarted automatically at most
\* MaxRetries times, however exits, backoffs and commands interleave.
RetriesKept == slips \cap {"crossed", "uncounted"} = {} => spent <= MaxRetries

\* A pane that is shown as exited has no live session, unless the index had led
\* the exit of another session to it.
ExitedIsOver ==
  pane.status = "exited" /\ session[pane.uid] = "live" => "mistaken" \in slips

Deserted == pane.status = "running" /\ session[pane.uid] # "live"

\* A pane whose session is gone, in whatever way, does not stay running as long
\* as the index knows the session it shows.
VanishedIsDemoted ==
  Deserted ~> (~Deserted \/ indexed # pane.uid)

\* "once a tick the cache is checked against the backend instead of trusted"
\* (server.rs, reconcile_exits): no pane stays running without a session.
DeadPanesDemoted == Deserted ~> ~Deserted
=============================================================================
