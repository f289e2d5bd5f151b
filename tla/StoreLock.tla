----------------------------- MODULE StoreLock -----------------------------
(***************************************************************************)
(* The delegation store's lock (scripts/python/coordination.py,             *)
(* _store_lock): a directory that is prepared with its owner marker and     *)
(* published by one rename, and torn down by one rename.  A waiter reads    *)
(* the marker, probes the pid in it and tears the lock down if that process *)
(* is gone: three steps, between which others run.                          *)
(*                                                                         *)
(* A process holds one pid for life and pids are not reused.                *)
(***************************************************************************)
EXTENDS Naturals, FiniteSets

CONSTANTS
    Procs,  \* processes that use the store
    NoProc  \* no process: the lock directory does not exist

ASSUME NoProcAssumption == NoProc \notin Procs

VARIABLES
    owner,  \* the pid in the published lock directory, NoProc if there is none
    pc,     \* where each process is in _store_lock
    seen    \* the owner marker a waiter last read

lvars == <<owner, pc, seen>>

Waiting == {"rename", "read", "probe", "teardown"}
Holding == {"critical", "releasing"}

LockTypeOK ==
    /\ owner \in Procs \cup {NoProc}
    /\ pc \in [Procs -> {"idle", "gone"} \cup Waiting \cup Holding]
    /\ seen \in [Procs -> Procs \cup {NoProc}]
    /\ \A p \in Procs : pc[p] = "probe" => seen[p] # NoProc \* the pid probed is a pid

LockInit ==
    /\ owner = NoProc
    /\ pc = [p \in Procs |-> "idle"]
    /\ seen = [p \in Procs |-> NoProc]

Goes(p, from, to) == pc[p] = from /\ pc' = [pc EXCEPT ![p] = to]

\* Sleep and try again, or raise TimeoutError at the deadline.
RetryOrTimeout(p, from) == Goes(p, from, "rename") \/ Goes(p, from, "idle")

Enter(p) == Goes(p, "idle", "rename") /\ UNCHANGED <<owner, seen>>

\* rename fails on a lock directory that holds a marker
PublishLock(p) ==
    /\ \/ owner = NoProc /\ owner' = p /\ Goes(p, "rename", "critical")
       \/ owner # NoProc /\ UNCHANGED owner /\ Goes(p, "rename", "read")
    /\ UNCHANGED seen

\* Mutant: a missing marker is torn down like a dead owner's.
ReadOwnerMissingIsStale(p) ==
    /\ seen' = [seen EXCEPT ![p] = owner]
    /\ Goes(p, "read", IF owner = NoProc THEN "teardown" ELSE "probe")
    /\ UNCHANGED owner
\* A missing marker is deliberately not a sign of staleness.
ReadOwner(p) ==
    /\ seen' = [seen EXCEPT ![p] = owner]
    /\ IF owner = NoProc THEN RetryOrTimeout(p, "read") ELSE Goes(p, "read", "probe")
    /\ UNCHANGED owner

Forget(p) == seen' = [seen EXCEPT ![p] = NoProc]

\* Mutant: the probe calls every owner live.
ProbeNeverStale(p) == RetryOrTimeout(p, "probe") /\ Forget(p) /\ UNCHANGED owner
ProbeOwner(p) ==
    /\ pc[p] = "probe"
    /\ IF pc[seen[p]] = "gone" THEN Goes(p, "probe", "teardown") ELSE RetryOrTimeout(p, "probe")
    /\ Forget(p)
    /\ UNCHANGED owner

\* Whatever lock is there now; a failing rename is ignored.
Reclaim(p) ==
    /\ Goes(p, "teardown", "rename")
    /\ owner' = NoProc
    /\ UNCHANGED seen

\* Mutant: the ownership test of the release is inverted.
ReleaseUnlessForeign(p) ==
    /\ Goes(p, "critical", IF owner = p THEN "idle" ELSE "releasing")
    /\ UNCHANGED <<owner, seen>>
ReleaseCheck(p) ==
    /\ Goes(p, "critical", IF owner = p THEN "releasing" ELSE "idle")
    /\ UNCHANGED <<owner, seen>>

ReleaseTeardown(p) ==
    /\ Goes(p, "releasing", "idle")
    /\ owner' = NoProc
    /\ UNCHANGED seen

\* kill -9 anywhere, or a normal exit outside the lock
Gone(p) ==
    /\ pc[p] # "gone"
    /\ pc' = [pc EXCEPT ![p] = "gone"]
    /\ UNCHANGED <<owner, seen>>

WaiterStep(p) == PublishLock(p) \/ ReadOwner(p) \/ ProbeOwner(p) \/ Reclaim(p)

LockNext ==
    \E p \in Procs : Enter(p) \/ WaiterStep(p) \/ ReleaseCheck(p) \/ ReleaseTeardown(p) \/ Gone(p)

LockSpec == LockInit /\ [][LockNext]_lvars

-----------------------------------------------------------------------------
(* Properties.                                                              *)

(* What the docstring of _store_lock claims: reclaiming the lock of a       *)
(* confirmed-dead pid is safe, so at most one process is ever inside.       *)
Mutex == \A p, q \in Procs : pc[p] \in Holding /\ pc[q] \in Holding => p = q

(* As long as no process of the store has gone, the lock excludes: neither  *)
(* a slow reader of the marker nor a release under way can cost a holder    *)
(* its lock.                                                                *)
MutexWhileAllLive == (\A p \in Procs : pc[p] # "gone") => Mutex

(* The published lock never names a live process that is outside its        *)
(* critical section, whatever was reclaimed or stolen in between: such a    *)
(* lock would be probed alive forever and deny the store to everyone.       *)
NoOrphanLock == \A p \in Procs : owner = p => pc[p] \in Holding \cup {"gone"}

(* A crashed holder does not wedge the store: while anyone keeps waiting,   *)
(* its lock is reclaimed.                                                   *)
DeadOwnerReclaimed ==
    \A d \in Procs : owner = d /\ pc[d] = "gone" ~>
        owner # d \/ \A p \in Procs : pc[p] \notin Waiting
=============================================================================
