---------------------------------- MODULE MCState ----------------------------------
(***************************************************************************)
(* The files the squad keeps its state in, one instance in each behaviour: *)
(* the ledger of open work under appends, compaction and migration; the    *)
(* reaper over the pools it may empty; the archive jobs over registry rows *)
(* and finished runs; the dispatch log under sends and telemetry updates;  *)
(* the one-shot tokens of held actions; and the notices owed to a          *)
(* coordinator, from the registry to the conversation that acknowledges    *)
(* them.                                                                   *)
(***************************************************************************)
EXTENDS Integers, Sequences, FiniteSets, TLC

CONSTANTS None, Dead, w1, w2, w3, x1, x2, x3, n1, n2, fileA, fileB, fileC, fileD, y, z, t1,
          t2, s1, s2, s3, complete, review, coordination, c1, v1, v2

VARIABLE part  \* the instance this behaviour is of

\* WorkboardStore
VARIABLES file, archives, job, quoted, written
workVars == <<file, archives, job, quoted, written>>
IdleWork == file = "idle" /\ archives = "idle" /\ job = "idle" /\
    quoted = "idle" /\ written = "idle"

\* StateReaper
VARIABLES disk, index, gitUp, clock, writes, reapJob, receipt, runs, removals
reapVars == <<disk, index, gitUp, clock, writes, reapJob, receipt, runs,
              removals>>
IdleReap == disk = "idle" /\ index = "idle" /\ gitUp = "idle" /\
    clock = "idle" /\ writes = "idle" /\ reapJob = "idle" /\
    receipt = "idle" /\ runs = "idle" /\ removals = "idle"

\* StateArchive
VARIABLES registry, archive, registryLock, pruneLock, alive, hot, cold, pack,
          aged, proc, edits, archiveRuns, latest
archiveVars == <<registry, archive, registryLock, pruneLock, alive, hot, cold,
                 pack, aged, proc, edits, archiveRuns, latest>>
IdleArchive == registry = "idle" /\ archive = "idle" /\
    registryLock = "idle" /\ pruneLock = "idle" /\ alive = "idle" /\
    hot = "idle" /\ cold = "idle" /\ pack = "idle" /\ aged = "idle" /\
    proc = "idle" /\ edits = "idle" /\ archiveRuns = "idle" /\ latest = "idle"

\* DispatchLog
VARIABLES reg, lock, log, ino, sender, transcript, updater, sweep, updates,
          logWritten
logVars == <<reg, lock, log, ino, sender, transcript, updater, sweep, updates,
             logWritten>>
IdleLog == reg = "idle" /\ lock = "idle" /\ log = "idle" /\ ino = "idle" /\
    sender = "idle" /\ transcript = "idle" /\ updater = "idle" /\
    sweep = "idle" /\ updates = "idle" /\ logWritten = "idle"

\* HeldAction
VARIABLES dir, owner, pc, asks, spent, granted, unsynced, now
heldVars == <<dir, owner, pc, asks, spent, granted, unsynced, now>>
IdleHeld == dir = "idle" /\ owner = "idle" /\ pc = "idle" /\ asks = "idle" /\
    spent = "idle" /\ granted = "idle" /\ unsynced = "idle" /\ now = "idle"

\* Notifications
VARIABLES pending, failed, created, old, notifKey, notifAt, coordKeyed,
          intents, inbox, rows, sent, digests, marker, pages, paneUp,
          noticeSweep, noticeClock, faults
noticeVars == <<pending, failed, created, old, notifKey, notifAt, coordKeyed,
                intents, inbox, rows, sent, digests, marker, pages, paneUp,
                noticeSweep, noticeClock, faults>>
IdleNotice == pending = "idle" /\ failed = "idle" /\ created = "idle" /\
    old = "idle" /\ notifKey = "idle" /\ notifAt = "idle" /\
    coordKeyed = "idle" /\ intents = "idle" /\ inbox = "idle" /\
    rows = "idle" /\ sent = "idle" /\ digests = "idle" /\ marker = "idle" /\
    pages = "idle" /\ paneUp = "idle" /\ noticeSweep = "idle" /\
    noticeClock = "idle" /\ faults = "idle"

\* NoticeInbox
VARIABLES state, offers, lease, fresh, shown, session, inboxAlive, flag,
          waiter, sampler, fails, backoff, outage, exits, hook, kills
inboxVars == <<state, offers, lease, fresh, shown, session, inboxAlive, flag,
               waiter, sampler, fails, backoff, outage, exits, hook, kills>>
IdleInbox == state = "idle" /\ offers = "idle" /\ lease = "idle" /\
    fresh = "idle" /\ shown = "idle" /\ session = "idle" /\
    inboxAlive = "idle" /\ flag = "idle" /\ waiter = "idle" /\
    sampler = "idle" /\ fails = "idle" /\ backoff = "idle" /\
    outage = "idle" /\ exits = "idle" /\ hook = "idle" /\ kills = "idle"

vars == <<part, workVars, reapVars, archiveVars, logVars, heldVars,
          noticeVars, inboxVars>>

(* The ledger of open work: fresh, a checklist of at most two rows that     *)
(* predates events, or one that two editors of an earlier version left with *)
(* the same id opened twice.                                                *)
Line(kind) == [id |-> None, kind |-> kind, work |-> None, alias |-> None, text |-> None,
               act |-> None, focus |-> [to |-> "none", work |-> None, act |-> None],
               source |-> None, checked |-> FALSE]
Opening(k, al, id) == [Line(k) EXCEPT !.id = <<"EV", id, 0>>, !.work = w1, !.alias = al,
                                      !.text = n1, !.act = n1]
Rows == {[Line("row") EXCEPT !.alias = al, !.text = t, !.checked = k] :
           al \in {x1, x2, None}, k \in BOOLEAN,
           t \in [body : {n1}, next : {None, n1}, active : BOOLEAN]}
OldLedgers == UNION {[1..k -> Rows] : k \in 1..2}
                \cup {<<Opening("start", x1, -2), Opening("queue", x2, -1)>>}
\* Every kind, and the kinds that move items between states (archive acts as
\* complete, restart as nothing).
ItemKinds == {"complete", "drop", "start", "queue", "switch", "advance", "restate",
              "block", "fold", "idle"}
AllKinds == ItemKinds \cup {"archive", "restart", "compact", "adopt"}

(* The reaper: a rescued file and two markers, one dot-named, or the pools  *)
(* with a floor of newest files.                                            *)
AsWritten(files) == [f \in files |-> [kind |-> "file", ino |-> 0, mtime |-> 0, content |-> y]]
RescuePools == fileA :> "rescued_worker_artifacts" @@ fileB :> "long_running_markers"
               @@ fileC :> "long_running_markers"
FloorPools == fileA :> "notification_receipts" @@ fileB :> "notification_receipts"
              @@ fileC :> "vault_snapshots" @@ fileD :> "vault_snapshots"

-----------------------------------------------------------------------------
(* The instances. *)

Appends == INSTANCE WorkboardStore WITH
    WorkIds <- {w1, w2, w3}, Aliases <- {x1, x2}, Notes <- {n1},
    MaxProjected <- 1, InitialLedgers <- {<<>>}, Kinds <- ItemKinds,
    ArchiveNames <- {}, MaxEvents <- 4

Compaction == INSTANCE WorkboardStore WITH
    WorkIds <- {w1, w2}, Aliases <- {x1, x2}, Notes <- {n1},
    MaxProjected <- 1, InitialLedgers <- {<<>>}, Kinds <- AllKinds,
    ArchiveNames <- {"d1", "d2"}, MaxEvents <- 3

Migrate == INSTANCE WorkboardStore WITH
    WorkIds <- {w1, w2}, Aliases <- {x1, x2}, Notes <- {n1},
    MaxProjected <- 1, InitialLedgers <- OldLedgers, Kinds <- AllKinds,
    ArchiveNames <- {"d1"}, MaxEvents <- 1

Rescue == INSTANCE StateReaper WITH
    ReceiptDays <- 2, MarkerDays <- 2, RescueDays <- 1, NotificationKeep <- 1,
    SnapshotKeep <- 1, Files <- {fileA, fileB, fileC}, CategoryOf <- RescuePools,
    Written <- AsWritten({fileA, fileB, fileC}), Structural <- {fileC}, Contents <- {y, z},
    Kinds <- {"file", "link"}, MaxClock <- 2, MaxWrites <- 1, MaxRuns <- 1,
    job <- reapJob

Floor == INSTANCE StateReaper WITH
    ReceiptDays <- 2, MarkerDays <- 2, RescueDays <- 1, NotificationKeep <- 1,
    SnapshotKeep <- 1, Files <- {fileA, fileB, fileC, fileD}, CategoryOf <- FloorPools,
    Written <- AsWritten({fileA, fileB, fileC, fileD}), Structural <- {}, Contents <- {y},
    Kinds <- {"file"}, MaxClock <- 3, MaxWrites <- 1, MaxRuns <- 1,
    job <- reapJob

ArchiveRows == INSTANCE StateArchive WITH
    Archivers <- {x1, x2}, Tasks <- {t1, t2}, OldTasks <- {t1, t2},
    DayOldTasks <- {t1, t2}, Names <- {}, TaskOf <- <<>>, Rescues <- {},
    MaxEdits <- 2, MaxRuns <- 2, runs <- archiveRuns

Pack == INSTANCE StateArchive WITH
    Archivers <- {x1, x2}, Tasks <- {t1}, OldTasks <- {}, DayOldTasks <- {t1},
    Names <- {n1, n2}, TaskOf <- [n \in {n1, n2} |-> t1], Rescues <- {},
    MaxEdits <- 2, MaxRuns <- 2, runs <- archiveRuns

Rescued == INSTANCE StateArchive WITH
    Archivers <- {x1, x2}, Tasks <- {t1}, OldTasks <- {}, DayOldTasks <- {t1},
    Names <- {n1, n2}, TaskOf <- [n \in {n1, n2} |-> t1], Rescues <- {n1, n2},
    MaxEdits <- 2, MaxRuns <- 2, runs <- archiveRuns

Log == INSTANCE DispatchLog WITH
    Tasks <- {t1, t2}, Senders <- {s1, s2}, TaskOf <- s1 :> t1 @@ s2 :> t2,
    Updaters <- {x1, x2}, MaxUpdates <- 2, written <- logWritten

\* What notification and the held-action gate are given; an instance of
\* StateProofs says where it differs.
Procs == {x1, x2}
Tasks == {t1}
Managed == {<<t1, complete>>, <<t1, review>>}
OneShot == {}
Registered == {t1}
Attended == {}
NoEvent == None
MaxRaises == 1
MaxFaults == 1
Hooks == {x1, x2}
Sessions == {<<c1, v1>>}
NoticeCount == 2
OfferLimit == 1
MaxAsyncOffers == 1
FaultNoticeAfter == 2
MaxKills == 1
Callers == {x1, x2}
Nil == None
\* Tokens of held actions: a good, a foreign and a forged one.
Tokens == {"t1", "t2", "forged"}
Binding == "t1" :> "deploy-1" @@ "t2" :> "deploy-2" @@ "forged" :> "deploy-1"
Signed == {"t1", "t2"}
Expires == "t1" :> 1 @@ "t2" :> 0 @@ "forged" :> 1
Requests == {"deploy-1", "deploy-2"}
MaxTime == 1

Overlap == INSTANCE StateProofs WITH
    Callers <- {x1, x2, x3},
    sweep <- noticeSweep, clock <- noticeClock, alive <- inboxAlive

Crash == INSTANCE StateProofs WITH
    sweep <- noticeSweep, clock <- noticeClock, alive <- inboxAlive

Sweeps == INSTANCE StateProofs WITH
    sweep <- noticeSweep, clock <- noticeClock, alive <- inboxAlive

Publish == INSTANCE StateProofs WITH
    MaxRaises <- 2, Procs <- {x1}, Tasks <- {t1, t2},
    Managed <- {<<t1, complete>>, <<t2, complete>>},
    OneShot <- {<<t2, coordination>>},
    Attended <- {<<t1, complete>>, <<t2, coordination>>},
    sweep <- noticeSweep, clock <- noticeClock, alive <- inboxAlive

Notices == INSTANCE StateProofs WITH
    sweep <- noticeSweep, clock <- noticeClock, alive <- inboxAlive

Resumed == INSTANCE StateProofs WITH
    NoticeCount <- 0, Sessions <- {<<c1, v1>>, <<c1, v2>>},
    sweep <- noticeSweep, clock <- noticeClock, alive <- inboxAlive

Init ==
  \/ part = "append" /\ Appends!Init /\ IdleReap /\ IdleArchive /\ IdleLog /\
        IdleHeld /\ IdleNotice /\ IdleInbox
  \/ part = "compact" /\ Compaction!Init /\ IdleReap /\ IdleArchive /\
        IdleLog /\ IdleHeld /\ IdleNotice /\ IdleInbox
  \/ part = "migrate" /\ Migrate!Init /\ IdleReap /\ IdleArchive /\ IdleLog /\
        IdleHeld /\ IdleNotice /\ IdleInbox
  \/ part = "rescue" /\ Rescue!Init /\ IdleWork /\ IdleArchive /\ IdleLog /\
        IdleHeld /\ IdleNotice /\ IdleInbox
  \/ part = "floor" /\ Floor!Init /\ IdleWork /\ IdleArchive /\ IdleLog /\
        IdleHeld /\ IdleNotice /\ IdleInbox
  \/ part = "rows" /\ ArchiveRows!Init /\ IdleWork /\ IdleReap /\ IdleLog /\
        IdleHeld /\ IdleNotice /\ IdleInbox
  \/ part = "pack" /\ Pack!Init /\ IdleWork /\ IdleReap /\ IdleLog /\
        IdleHeld /\ IdleNotice /\ IdleInbox
  \/ part = "rescued" /\ Rescued!Init /\ IdleWork /\ IdleReap /\ IdleLog /\
        IdleHeld /\ IdleNotice /\ IdleInbox
  \/ part = "log" /\ Log!Init /\ IdleWork /\ IdleReap /\ IdleArchive /\
        IdleHeld /\ IdleNotice /\ IdleInbox
  \/ part = "overlap" /\ Overlap!Init /\ IdleWork /\ IdleReap /\
        IdleArchive /\ IdleLog /\ IdleNotice /\ IdleInbox
  \/ part = "crash" /\ Crash!Init /\ IdleWork /\ IdleReap /\ IdleArchive /\
        IdleLog /\ IdleNotice /\ IdleInbox
  \/ part = "sweeps" /\ Sweeps!NoticeInit /\ IdleWork /\ IdleReap /\
        IdleArchive /\ IdleLog /\ IdleHeld /\ IdleInbox
  \/ part = "publish" /\ Publish!NoticeInit /\ IdleWork /\ IdleReap /\
        IdleArchive /\ IdleLog /\ IdleHeld /\ IdleInbox
  \/ part = "notices" /\ Notices!InboxInit /\ IdleWork /\ IdleReap /\
        IdleArchive /\ IdleLog /\ IdleHeld /\ IdleNotice
  \/ part = "sessions" /\ Resumed!InboxInit /\ IdleWork /\ IdleReap /\
        IdleArchive /\ IdleLog /\ IdleHeld /\ IdleNotice

Next ==
  \/ part = "append" /\ Appends!Next /\ UNCHANGED <<part, reapVars,
        archiveVars, logVars, heldVars, noticeVars, inboxVars>>
  \/ part = "compact" /\ Compaction!Next /\ UNCHANGED <<part, reapVars,
        archiveVars, logVars, heldVars, noticeVars, inboxVars>>
  \/ part = "migrate" /\ Migrate!Next /\ UNCHANGED <<part, reapVars,
        archiveVars, logVars, heldVars, noticeVars, inboxVars>>
  \/ part = "rescue" /\ Rescue!Next /\ UNCHANGED <<part, workVars,
        archiveVars, logVars, heldVars, noticeVars, inboxVars>>
  \/ part = "floor" /\ Floor!Next /\ UNCHANGED <<part, workVars, archiveVars,
        logVars, heldVars, noticeVars, inboxVars>>
  \/ part = "rows" /\ ArchiveRows!Next /\ UNCHANGED <<part, workVars,
        reapVars, logVars, heldVars, noticeVars, inboxVars>>
  \/ part = "pack" /\ Pack!Next /\ UNCHANGED <<part, workVars, reapVars,
        logVars, heldVars, noticeVars, inboxVars>>
  \/ part = "rescued" /\ Rescued!Next /\ UNCHANGED <<part, workVars, reapVars,
        logVars, heldVars, noticeVars, inboxVars>>
  \/ part = "log" /\ Log!Next /\ UNCHANGED <<part, workVars, reapVars,
        archiveVars, heldVars, noticeVars, inboxVars>>
  \/ part = "overlap" /\ Overlap!Live /\ UNCHANGED <<part, workVars, reapVars,
        archiveVars, logVars, noticeVars, inboxVars>>
  \/ part = "crash" /\ Crash!Next /\ UNCHANGED <<part, workVars, reapVars,
        archiveVars, logVars, noticeVars, inboxVars>>
  \/ part = "sweeps" /\ Sweeps!NoticeNext /\ UNCHANGED <<part, workVars,
        reapVars, archiveVars, logVars, heldVars, inboxVars>>
  \/ part = "publish" /\ Publish!NoticeNext /\ UNCHANGED <<part, workVars,
        reapVars, archiveVars, logVars, heldVars, inboxVars>>
  \/ part = "notices" /\ Notices!InboxNext /\ UNCHANGED <<part, workVars,
        reapVars, archiveVars, logVars, heldVars, noticeVars>>
  \/ part = "sessions" /\ Resumed!InboxNext /\ UNCHANGED <<part, workVars,
        reapVars, archiveVars, logVars, heldVars, noticeVars>>

Spec == Init /\ [][Next]_vars

\* What the components assume of their constants.
ASSUME InstanceAssumption ==
  /\ Appends!BoundsAssumption
  /\ Compaction!BoundsAssumption
  /\ Migrate!BoundsAssumption
  /\ Rescue!ReaperAssumption
  /\ Floor!ReaperAssumption
  /\ ArchiveRows!ArchiveAssumption
  /\ Pack!ArchiveAssumption
  /\ Rescued!ArchiveAssumption
  /\ Log!DispatchLogAssumption
  /\ Sweeps!EventAssumption
  /\ Publish!EventAssumption
  /\ Notices!InboxAssumption
  /\ Resumed!InboxAssumption

\* No instance tells x1 from x2, or one work id from the other, after its
\* initial state.
Symmetric == Permutations({x1, x2}) \cup Permutations({w1, w2})

-----------------------------------------------------------------------------
(* Properties. *)

\* Whatever is appended, the ledger of open work folds to a valid board, its
\* compaction folds to the same one, the active item is shown and no event is
\* lost; an item is closed only by an event of its own, and a checklist from
\* before events is migrated whole (workboard.py).
LedgerIsSound ==
  /\ [](part = "append" =>
           /\ Appends!LedgerValid
           /\ Appends!CompactionSound
           /\ Appends!ActiveShown)
  /\ [](part = "compact" =>
           /\ Compaction!WorkboardTypeOK
           /\ Compaction!NoEventLost)
  /\ [][part = "compact" => Compaction!ClosedByOwnEvent]_vars
  /\ [](part = "migrate" => Migrate!NoEventLost /\ Migrate!MigrationSound)

\* The reaper removes only what has expired and reports each removal, removes
\* a rescued file only while git tracks it, and leaves each pool its newest
\* files (reap_unbounded_state.py); the archive keeps a task's newest row,
\* what is still owed active and every byte it packs, and moves finished runs
\* only (state_archive.py); concurrent telemetry updates keep each other's
\* stamps in the dispatch log and the row of every queued delivery.
NothingLiveIsPurged ==
  /\ [](part = "rescue" =>
           /\ Rescue!ReaperTypeOK
           /\ Rescue!FiredIsVisible
           /\ Rescue!OnlyExpiredGo)
  /\ [][part = "rescue" => Rescue!RescueWasTracked]_vars
  /\ [][part = "floor" => Floor!FloorIsHeld]_vars
  /\ [](part = "rows" =>
           /\ ArchiveRows!NewestRowSurvives
           /\ ArchiveRows!OwedStaysActive)
  /\ [](part = "pack" => Pack!BytesSurvive)
  /\ [][part = "pack" => Pack!MembersAreKept /\ Pack!OnlyFinishedMove]_vars
  /\ [](part = "rescued" => Rescued!BytesSurvive)
  /\ [][part = "rescued" => Rescued!MembersAreKept]_vars
  /\ [](part = "log" => Log!DispatchLogTypeOK /\ Log!QueuedRowsSurvive)
  /\ [][part = "log" => Log!StampsSurvive]_vars

\* While no caller is killed a held-action token authorizes one action
\* however many present it, and with kills anywhere every action still
\* answers to a valid token for that very request
\* (HeldActionStore.check_and_consume).
TokenIsSpentOnce ==
  /\ part = "overlap" => Overlap!OneGrantPerToken
  /\ part = "crash" => Crash!GrantsAreAccounted

\* The obligations of module Obligations as publication and as the inbox keep
\* them; the other behaviours owe nothing.
Raised == {<<t1, complete>>, <<t2, complete>>, <<t2, coordination>>}
Publication == INSTANCE Obligations WITH
    Events <- Raised,
    owed <- IF part = "publish" THEN Publish!Owed ELSE [e \in Raised |-> "none"]
Offering == INSTANCE Obligations WITH
    Events <- 1..2,
    owed <- IF part = "notices" THEN Notices!InboxOwed ELSE [n \in 1..2 |-> "none"]

\* A page is sent only after its record is durable, a digest can be rebuilt,
\* a page is not repeated and a record retires only once delivered.
\* Publication and inbox each implement the durable obligation: what was
\* raised stays owed, as an intent or as a notice, until its recipient
\* acknowledges it, no old producer's replay raises it again and no offer,
\* lease, kill or expiry loses it (publish_durable_notices). A fault is
\* counted once and one waiter owns a conversation.
NoticesAreOwed ==
  /\ Publication!ObSpec
  /\ Offering!ObSpec
  /\ [](part = "sweeps" =>
           /\ Sweeps!NoticeTypeOK
           /\ Sweeps!DurableFirst
           /\ Sweeps!DigestRecoverable)
  /\ [][part = "sweeps" => Sweeps!NoDuplicatePage /\ Sweeps!RetiredOnlyIfDelivered]_vars
  /\ [](part = "publish" => Publish!RaisedIsOwed)
  /\ [](part = "notices" => Notices!InboxTypeOK /\ Notices!FaultsCountedOnce)
  /\ [](part = "sessions" => Resumed!OneWaiter)
=============================================================================
