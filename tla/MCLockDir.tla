--------------------------------- MODULE MCLockDir ---------------------------------
(***************************************************************************)
(* The notification lock directory and what must be delivered through it,  *)
(* one instance in each behaviour: three processes at the lock (an owner   *)
(* that goes away, a waiter that saw its marker, and one that takes the    *)
(* lock in between); two concurrent sweeps that page one event; a          *)
(* conversation with two notices and a hook that may be killed; and two    *)
(* sends beside a telemetry update, which waits for them under the registry*)
(* lock.                                                                   *)
(***************************************************************************)
EXTENDS LockDir, TLC

CONSTANTS None, Dead, t1, complete, k1, k2, c1, v1, h1, s1, s2, u1

VARIABLE part  \* the instance this behaviour is of

\* Notifications
VARIABLES pending, failed, created, old, notifKey, notifAt, coordKeyed,
          intents, inbox, rows, sent, digests, marker, pages, paneUp, sweep,
          clock, faults
noticeVars == <<pending, failed, created, old, notifKey, notifAt, coordKeyed,
                intents, inbox, rows, sent, digests, marker, pages, paneUp,
                sweep, clock, faults>>
IdleNotice == pending = "idle" /\ failed = "idle" /\ created = "idle" /\
    old = "idle" /\ notifKey = "idle" /\ notifAt = "idle" /\
    coordKeyed = "idle" /\ intents = "idle" /\ inbox = "idle" /\
    rows = "idle" /\ sent = "idle" /\ digests = "idle" /\ marker = "idle" /\
    pages = "idle" /\ paneUp = "idle" /\ sweep = "idle" /\ clock = "idle" /\
    faults = "idle"

\* NoticeInbox
VARIABLES state, offers, lease, fresh, shown, session, alive, flag, waiter,
          sampler, fails, backoff, outage, exits, hook, kills
inboxVars == <<state, offers, lease, fresh, shown, session, alive, flag,
               waiter, sampler, fails, backoff, outage, exits, hook, kills>>
IdleInbox == state = "idle" /\ offers = "idle" /\ lease = "idle" /\
    fresh = "idle" /\ shown = "idle" /\ session = "idle" /\ alive = "idle" /\
    flag = "idle" /\ waiter = "idle" /\ sampler = "idle" /\ fails = "idle" /\
    backoff = "idle" /\ outage = "idle" /\ exits = "idle" /\ hook = "idle" /\
    kills = "idle"

\* DispatchLog
VARIABLES reg, lock, log, ino, sender, transcript, updater, logSweep, updates,
          written
logVars == <<reg, lock, log, ino, sender, transcript, updater, logSweep,
             updates, written>>
IdleLog == reg = "idle" /\ lock = "idle" /\ log = "idle" /\ ino = "idle" /\
    sender = "idle" /\ transcript = "idle" /\ updater = "idle" /\
    logSweep = "idle" /\ updates = "idle" /\ written = "idle"

vars == <<part, dvars, noticeVars, inboxVars, logVars>>

-----------------------------------------------------------------------------
(* The instances. *)

Pages == INSTANCE Notifications WITH
    Procs <- {k1, k2}, Tasks <- {t1}, Managed <- {<<t1, complete>>},
    OneShot <- {}, Registered <- {t1}, Attended <- {}, MaxRaises <- 1,
    MaxFaults <- 1, NoEvent <- None

Inbox == INSTANCE NoticeInbox WITH
    NoticeCount <- 2, Sessions <- {<<c1, v1>>}, Hooks <- {h1},
    OfferLimit <- 1, MaxAsyncOffers <- 1, FaultNoticeAfter <- 2, MaxKills <- 1

Log == INSTANCE DispatchLog WITH
    Tasks <- {t1}, Senders <- {s1, s2}, TaskOf <- [s \in {s1, s2} |-> t1],
    Updaters <- {u1}, MaxUpdates <- 1, sweep <- logSweep

Init ==
  \/ part = "lockdir" /\ DirInit /\ IdleNotice /\ IdleInbox /\ IdleLog
  \/ part = "pages" /\ Pages!NoticeInit /\ DirInit /\ IdleInbox /\ IdleLog
  \/ part = "inbox" /\ Inbox!InboxInit /\ DirInit /\ IdleNotice /\ IdleLog
  \/ part = "log" /\ Log!Init /\ DirInit /\ IdleNotice /\ IdleInbox

Next ==
  \/ part = "lockdir" /\ DirNext /\ UNCHANGED <<part, noticeVars, inboxVars,
        logVars>>
  \/ part = "pages" /\ Pages!NoticeNext /\ UNCHANGED <<part, dvars, inboxVars,
        logVars>>
  \/ part = "inbox" /\ Inbox!InboxNext /\ UNCHANGED <<part, dvars, noticeVars,
        logVars>>
  \/ part = "log" /\ Log!Next /\ UNCHANGED <<part, dvars, noticeVars,
        inboxVars>>

Only(p, A) == part = p /\ A

\* A waiter at the lock runs its loop, and nobody is obliged to enter or to
\* leave; the watcher starts sweeps of the whole registry again and again and
\* a sweep runs on; hooks run on, leases expire, an open conversation sees
\* prompts, and the recipient acknowledges what it was shown; a telemetry
\* update has a monotonic deadline.
Fairness ==
  /\ \A p \in Procs : WF_dvars(Only("lockdir", WaiterStep(p)))
  /\ \A k \in {k1, k2} : /\ WF_noticeVars(Only("pages", Pages!RetrySweep(k)))
                         /\ WF_noticeVars(Only("pages", Pages!SweepStep(k)))
  /\ WF_inboxVars(Only("inbox", Inbox!HookStep(h1)))
  /\ \A n \in 1..2 : /\ WF_inboxVars(Only("inbox", Inbox!LeaseExpires(n)))
                     /\ WF_inboxVars(Only("inbox", Inbox!Acknowledge(n)))
  /\ SF_inboxVars(Only("inbox", Inbox!PromptAgain(<<c1, v1>>)))
  /\ WF_logVars(Only("log", Log!UpdaterRuns(u1)))

Spec == Init /\ [][Next]_vars
FairSpec == Spec /\ Fairness

\* What the components assume of their constants.
ASSUME InstanceAssumption ==
  /\ Pages!EventAssumption
  /\ Inbox!InboxAssumption
  /\ Log!DispatchLogAssumption

-----------------------------------------------------------------------------
(* Properties. *)

=============================================================================
