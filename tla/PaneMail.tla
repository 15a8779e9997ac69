------------------------------ MODULE PaneMail ------------------------------
(***************************************************************************)
(* The mail of an agent's pane (core/src/control/inbox.rs, nudge.rs and    *)
(* the message routes of routes.rs): a post puts a message into the inbox  *)
(* and then, in a second step, enters it in the ledger of nudges; a waiter *)
(* types one line that names where to read on, once the pane is quiet.     *)
(* Meanwhile the pane is closed and opened again, restarted, or its        *)
(* program ends.                                                           *)
(***************************************************************************)
EXTENDS Integers, FiniteSets, FiniteSetsExt

CONSTANTS
  MaxPerPane,   \* MAX_PER_PANE
  LastPost,     \* bound: messages that are posted
  LastRun       \* bound: sessions the pane shows one after the other

ASSUME MailAssumption ==
  MaxPerPane \in Nat \ {0} /\ {LastPost, LastRun} \subseteq Nat

VARIABLES
  posted,       \* the last message of the inbox
  oldest,       \* the oldest it still holds
  arming,       \* messages posted and not yet entered in the ledger
  ledger,       \* PaneNudge
  waiters,      \* tasks that wait to type, each with the session it will type to
  host,         \* the pane: whether it is there, its session, whether that ended
  quiet,        \* whether its program is between two turns
  rested,       \* whether MIN_INTERVAL_MS has passed since the last line
  told,         \* history: messages that lie behind the cursor of a line typed
  mislaid       \* history: what has gone wrong for a message

mailVars == <<posted, oldest, arming, ledger, waiters, host, quiet, rested, told,
              mislaid>>

Inbox == oldest .. posted

\* overtaken     entered in a batch after a later message
\* unentered     posted when the pane was not there, or its session over
\* mistyped      the line was typed to a session the pane no longer shows
\* stranded      the waiter left because the pane was not there
Mishandlings == {"overtaken", "unentered", "mistyped", "stranded"}

MailTypeOK ==
  /\ posted \in 0 .. LastPost /\ oldest \in 1 .. LastPost + 1
  /\ Cardinality(Inbox) <= MaxPerPane
  /\ Cardinality(waiters) <= 1
  /\ arming \subseteq 1 .. posted
  /\ ledger \in [pending : 0 .. LastPost, first : 0 .. LastPost, waiting : BOOLEAN]
  /\ ledger.pending = 0 <=> ledger.first = 0
  /\ \A w \in waiters : w \in [by : 1 .. posted, run : 0 .. LastRun]
  /\ host \in [there : BOOLEAN, run : 0 .. LastRun, over : BOOLEAN]
  /\ quiet \in BOOLEAN /\ rested \in BOOLEAN
  /\ told \subseteq 1 .. posted /\ mislaid \subseteq Mishandlings

EmptyLedger == [pending |-> 0, first |-> 0, waiting |-> FALSE]

MailInit ==
  /\ posted = 0 /\ oldest = 1 /\ arming = {}
  /\ ledger = EmptyLedger
  /\ waiters = {}
  /\ host = [there |-> TRUE, run |-> 0, over |-> FALSE]
  /\ quiet = TRUE /\ rested = TRUE /\ told = {} /\ mislaid = {}

Mislay(names) == mislaid' = mislaid \cup names

-----------------------------------------------------------------------------
(* A post.                                                                 *)

HeldFrom(last) == Max({oldest, last - MaxPerPane + 1})

\* messages_post and MessageInbox::post, under the lock of the inbox.
Post ==
  /\ posted < LastPost /\ host.there
  /\ posted' = posted + 1
  /\ oldest' = HeldFrom(posted')
  /\ arming' = arming \cup {posted'}
  /\ UNCHANGED <<ledger, waiters, host, quiet, rested, told, mislaid>>

\* Slip: the cursor is that of the last message.
EnteredLast(m) == [ledger EXCEPT !.first = m, !.pending = @ + 1, !.waiting = TRUE]

\* NudgeLedger::arm.
Entered(m) ==
  [ledger EXCEPT !.first = IF ledger.pending = 0 THEN m ELSE @,
                 !.pending = @ + 1, !.waiting = TRUE]

Spawned(m) ==
  IF ledger.waiting THEN waiters ELSE waiters \cup {[by |-> m, run |-> host.run]}

\* arm_inbox_nudge, under the lock of the ledger; the session to type to is read
\* just before, and only the first of a batch spawns a waiter.
Arm(m) ==
  /\ IF host.there /\ ~host.over
     THEN /\ ledger' = Entered(m)
          /\ waiters' = Spawned(m)
          /\ Mislay({x \in {"overtaken"} : ledger.pending > 0 /\ m < ledger.first})
     ELSE /\ Mislay({"unentered"})
          /\ UNCHANGED <<ledger, waiters>>
  /\ arming' = arming \ {m}
  /\ UNCHANGED <<posted, oldest, host, quiet, rested, told>>

-----------------------------------------------------------------------------
(* A poll of a waiter, after SETTLE_MS and then every POLL_MS.             *)

\* compute_activity is not Busy.
AtEase == quiet \/ host.over

\* The pane is not there: the task ends, the ledger is not told.
LeaveClosed(w) ==
  /\ ~host.there
  /\ waiters' = waiters \ {w}
  /\ Mislay({"stranded"})
  /\ UNCHANGED <<ledger, rested, told>>

\* The batch is kept for the next message to come.
KeptBatch == [ledger EXCEPT !.waiting = FALSE]

\* Slip: a waiter never gives up.
TooLongNever == FALSE

\* Whether MAX_WAIT_MS has passed is left open.
TooLong == TRUE

GiveUpWaiting(w) ==
  /\ host.there /\ ~(AtEase /\ rested)
  /\ TooLong
  /\ waiters' = waiters \ {w}
  /\ ledger' = KeptBatch
  /\ UNCHANGED <<rested, told, mislaid>>

\* Step::Send: the batch is taken off the ledger before the line is typed, and
\* the session typed to is the one of the time the waiter was spawned.
TypeLine(w) ==
  /\ host.there /\ AtEase /\ rested
  /\ ledger' = EmptyLedger
  /\ rested' = FALSE
  /\ waiters' = waiters \ {w}
  /\ IF w.run = host.run /\ ~host.over
     THEN /\ told' = told \cup {m \in Inbox : m >= ledger.first}
          /\ UNCHANGED mislaid
     ELSE /\ Mislay({"mistyped"})
          /\ UNCHANGED told

WaiterPolls(w) ==
  /\ LeaveClosed(w) \/ GiveUpWaiting(w) \/ TypeLine(w)
  /\ UNCHANGED <<posted, oldest, arming, host, quiet>>

-----------------------------------------------------------------------------
(* The pane and the clock.                                                 *)

\* Closed and kept for reopening, or opened again.
CloseOrReopen ==
  /\ host' = [host EXCEPT !.there = ~@]
  /\ UNCHANGED <<posted, oldest, arming, ledger, waiters, quiet, rested, told, mislaid>>

EndProgram ==
  /\ ~host.over
  /\ host' = [host EXCEPT !.over = TRUE]
  /\ UNCHANGED <<posted, oldest, arming, ledger, waiters, quiet, rested, told, mislaid>>

RestartProgram ==
  /\ host.there /\ host.run < LastRun
  /\ host' = [host EXCEPT !.run = @ + 1, !.over = FALSE]
  /\ UNCHANGED <<posted, oldest, arming, ledger, waiters, quiet, rested, told, mislaid>>

TurnBeginsOrEnds ==
  /\ quiet' = ~quiet
  /\ UNCHANGED <<posted, oldest, arming, ledger, waiters, host, rested, told, mislaid>>

IntervalPasses ==
  /\ ~rested /\ rested' = TRUE
  /\ UNCHANGED <<posted, oldest, arming, ledger, waiters, host, quiet, told, mislaid>>

MailNext ==
  \/ Post \/ \E m \in arming : Arm(m)
  \/ \E w \in waiters : WaiterPolls(w)
  \/ CloseOrReopen \/ EndProgram \/ RestartProgram
  \/ TurnBeginsOrEnds \/ IntervalPasses

MailSpec == MailInit /\ [][MailNext]_mailVars

\* The runtime polls its tasks.
MailFairness == WF_mailVars(\E w \in waiters : WaiterPolls(w))

-----------------------------------------------------------------------------
\* No message is passed over: one that the inbox still holds and that has been
\* entered lies behind the cursor of a line the agent was given, or in the batch
\* that the next line will name.  Except that a message entered after a later one
\* is not behind the cursor of their batch, and that a line can be typed to a
\* session that is over.
NoMailPassedOver ==
  mislaid \cap {"overtaken", "unentered", "mistyped"} = {} =>
    \A m \in Inbox \ arming :
      m \in told \/ (ledger.pending > 0 /\ ledger.first <= m)

\* A batch that a waiter waits for is told in the end, or the waiter makes room
\* for another.
WaitersEnd ==
  ledger.waiting ~> (~ledger.waiting \/ "stranded" \in mislaid)
=============================================================================
