------------------------------ MODULE LockDir ------------------------------
(***************************************************************************)
(* The mkdir lock of the notification journal and queue                     *)
(* (scripts/python/registry_reconciler.py, lockdir): the directory is made  *)
(* first and its owner.pid written into it; release and breaking a stale    *)
(* lock both unlink the marker and then remove the directory.  Every file   *)
(* operation is a step.                                                     *)
(*                                                                         *)
(* Time: the five-minute age of a directory without a usable marker never   *)
(* elapses while a live process is between two steps of making or removing  *)
(* it.  Pids are not reused.                                                *)
(***************************************************************************)
EXTENDS Naturals, FiniteSets

CONSTANTS
    Procs,  \* processes that take the lock
    NoProc  \* no pid: a missing marker

ASSUME NoProcAssumption == NoProc \notin Procs

VARIABLES
    dir,    \* the lock directory exists
    owner,  \* the pid in its owner.pid, NoProc if the marker is missing
    pc,     \* where each process is in lockdir
    seen    \* the marker a waiter last read

dvars == <<dir, owner, pc, seen>>

Waiting == {"mkdir", "read", "probe", "break-unlink", "break-rmdir"}
Holding == {"critical", "unlink"}

DirTypeOK ==
    /\ dir \in BOOLEAN
    /\ owner \in Procs \cup {NoProc}
    /\ ~dir => owner = NoProc
    /\ pc \in [Procs -> {"idle", "mark", "rmdir", "gone"} \cup Waiting \cup Holding]
    /\ seen \in [Procs -> Procs \cup {NoProc}]

DirInit ==
    /\ dir = FALSE
    /\ owner = NoProc
    /\ pc = [p \in Procs |-> "idle"]
    /\ seen = [p \in Procs |-> NoProc]

Goes(p, from, to) == pc[p] = from /\ pc' = [pc EXCEPT ![p] = to]

\* _lockdir_wait_or_timeout
WaitOrTimeout(p, from) == Goes(p, from, "mkdir") \/ Goes(p, from, "idle")

Enter(p) == Goes(p, "idle", "mkdir") /\ UNCHANGED <<dir, owner, seen>>

Mkdir(p) ==
    /\ Goes(p, "mkdir", IF dir THEN "read" ELSE "mark")
    /\ dir' = TRUE
    /\ UNCHANGED <<owner, seen>>

\* Writing into a directory someone removed raises.
WriteOwner(p) ==
    /\ Goes(p, "mark", IF dir THEN "critical" ELSE "idle")
    /\ owner' = IF dir THEN p ELSE owner
    /\ UNCHANGED <<dir, seen>>

ReadOwner(p) ==
    /\ Goes(p, "read", "probe")
    /\ seen' = [seen EXCEPT ![p] = owner]
    /\ UNCHANGED <<dir, owner>>

\* More than five minutes old and without a marker, see the note on time above.
Aged == dir /\ owner = NoProc /\ \A q \in Procs : pc[q] \notin {"mark", "rmdir", "break-rmdir"}

\* Mutant: a missing marker is broken at once, without the age test.
ProbeMarkerless(p) ==
    /\ pc[p] = "probe"
    /\ IF seen[p] = NoProc \/ pc[seen[p]] = "gone"
       THEN Goes(p, "probe", "break-unlink") ELSE WaitOrTimeout(p, "probe")
    /\ seen' = [seen EXCEPT ![p] = NoProc]
    /\ UNCHANGED <<dir, owner>>
\* Mutant: no owner is ever found dead.
ProbeNeverBreaks(p) ==
    /\ WaitOrTimeout(p, "probe")
    /\ seen' = [seen EXCEPT ![p] = NoProc]
    /\ UNCHANGED <<dir, owner>>
ProbeOwner(p) ==
    /\ \/ /\ pc[p] = "probe" /\ seen[p] # NoProc
          /\ IF pc[seen[p]] = "gone"
             THEN Goes(p, "probe", "break-unlink") ELSE WaitOrTimeout(p, "probe")
       \/ /\ seen[p] = NoProc
          /\ WaitOrTimeout(p, "probe") \/ (Aged /\ Goes(p, "probe", "break-unlink"))
    /\ seen' = [seen EXCEPT ![p] = NoProc]
    /\ UNCHANGED <<dir, owner>>

\* unlink(missing_ok)
Unlink(p, from, to) ==
    /\ Goes(p, from, to)
    /\ owner' = NoProc
    /\ UNCHANGED <<dir, seen>>

BreakUnlink(p) == Unlink(p, "break-unlink", "break-rmdir")

\* rmdir refuses a missing or a marked directory
BreakRmdir(p) ==
    /\ IF dir /\ owner = NoProc
       THEN Goes(p, "break-rmdir", "mkdir") /\ dir' = FALSE
       ELSE WaitOrTimeout(p, "break-rmdir") /\ UNCHANGED dir
    /\ UNCHANGED <<owner, seen>>

Leave(p) == Goes(p, "critical", "unlink") /\ UNCHANGED <<dir, owner, seen>>

\* The release does not look whose marker it unlinks.
ReleaseUnlink(p) == Unlink(p, "unlink", "rmdir")

ReleaseRmdir(p) ==
    /\ Goes(p, "rmdir", "idle")
    /\ dir' = (dir /\ owner # NoProc)
    /\ UNCHANGED <<owner, seen>>

\* kill -9 anywhere, or a normal exit outside the lock
Gone(p) ==
    /\ pc[p] # "gone"
    /\ pc' = [pc EXCEPT ![p] = "gone"]
    /\ UNCHANGED <<dir, owner, seen>>

WaiterStep(p) ==
    Mkdir(p) \/ WriteOwner(p) \/ ReadOwner(p) \/ ProbeOwner(p) \/ BreakUnlink(p) \/ BreakRmdir(p)

DirNext ==
    \E p \in Procs :
        Enter(p) \/ WaiterStep(p) \/ Leave(p) \/ ReleaseUnlink(p) \/ ReleaseRmdir(p) \/ Gone(p)

DirSpec == DirInit /\ [][DirNext]_dvars

-----------------------------------------------------------------------------
(* Properties.                                                              *)

(* "Never broken automatically for a live owner": the directory of a        *)
(* process that is inside its critical section still names it.              *)
LiveOwnerKeepsLock == \A p \in Procs : pc[p] = "critical" => dir /\ owner = p

(* While no process has gone, nobody loses the lock it holds, although a    *)
(* marker is missing for a moment in every acquisition and release.         *)
KeepsLockWhileAllLive == (\A p \in Procs : pc[p] # "gone") => LiveOwnerKeepsLock

(* A crashed holder does not wedge the journal: while anyone keeps waiting, *)
(* its marked directory is broken.                                          *)
DeadOwnerBroken ==
    \A d \in Procs : owner = d /\ pc[d] = "gone" ~>
        owner # d \/ \A p \in Procs : pc[p] \notin Waiting
=============================================================================
