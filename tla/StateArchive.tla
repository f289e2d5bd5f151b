---------------------------- MODULE StateArchive ---------------------------
(***************************************************************************)
(* scripts/python/state_archive.py: settled registry rows move to the      *)
(* registry archive, the dispatch files of settled tasks to the dispatch   *)
(* archive, and old archived or rescued files into a monthly pack.  Two    *)
(* archivers may overlap, registry writers and rescue writers run beside   *)
(* them, and an archiver may die between any two of its writes.            *)
(*                                                                         *)
(* A file is the number of the write that made its bytes; any change gives *)
(* it a new number, as it gives it a new ctime in _identity.  One month of *)
(* one pool is one pack.                                                   *)
(***************************************************************************)
EXTENDS Naturals, FiniteSets

CONSTANTS Archivers,      \* processes running main --apply
          Tasks,
          OldTasks,       \* tasks dated before the registry cutoff
          DayOldTasks,    \* tasks dated before the dispatch cutoff
          Names,          \* files of the dispatch and rescue pools
          TaskOf,         \* dispatch file -> its task
          Rescues,        \* names in rescued-worker-artifacts
          MaxEdits, MaxRuns,    \* bounds of the model
          None

ArchiveAssumption ==
    /\ OldTasks \subseteq DayOldTasks /\ DayOldTasks \subseteq Tasks
    /\ Rescues \in {{}, Names}      \* one pool is modelled at a time
    /\ TaskOf \in [Names -> Tasks]
    /\ MaxEdits \in Nat /\ MaxRuns \in Nat

VARIABLES registry, archive,   \* task -> its row there, or None
          registryLock, pruneLock,
          alive,               \* tasks whose recorded pid runs
          hot, cold, pack,     \* name -> the bytes in board-dispatch, in the
                               \* archive pool, in the pack; 0 for none
          aged,                \* archived files older than 30 days
          proc,                \* archiver -> its progress; reopened is history:
                               \* the tasks reopened since it read the registry
          edits, runs,
          latest               \* history: the newest row of every task and the
                               \* newest bytes of every file

vars == <<registry, archive, registryLock, pruneLock, alive, hot, cold, pack,
          aged, proc, edits, runs, latest>>

rows == <<registry, archive>>
files == <<hot, cold, pack, aged>>

SETTLED == {"complete"}
Rows == [status: {"in-progress", "complete"}, pending: BOOLEAN, ver: 0..MaxEdits]
Idle == [pc |-> "idle"]

Init ==
    /\ registry \in [Tasks -> {[status |-> "in-progress", pending |-> FALSE, ver |-> 0],
                               [status |-> "complete", pending |-> TRUE, ver |-> 0],
                               [status |-> "complete", pending |-> FALSE, ver |-> 0]}]
    /\ archive = [t \in Tasks |-> None]
    /\ registryLock = None /\ pruneLock = None
    /\ alive = Tasks
    /\ hot = [n \in Names |-> IF n \in Rescues THEN 0 ELSE 1]
    /\ cold = [n \in Names |-> IF n \in Rescues THEN 1 ELSE 0]
    /\ pack = [n \in Names |-> 0]
    /\ aged = {}
    /\ proc = [j \in Archivers |-> Idle]
    /\ edits = 0 /\ runs = 0
    /\ latest = [row |-> registry, file |-> [n \in Names |-> 1]]

-----------------------------------------------------------------------------
(* archive_registry, under the registry lock. *)

Movable(t) ==
    /\ registry[t] # None
    /\ registry[t].status \in SETTLED
    /\ t \in OldTasks
    /\ ~ registry[t].pending

\* What the dispatch sweep will use: the archived status, or the live one.
Statuses ==
    [t \in Tasks |-> IF registry[t] # None THEN registry[t].status
                     ELSE IF archive[t] # None THEN archive[t].status ELSE None]

ReadRegistry(j) ==
    /\ proc[j].pc = "idle" /\ runs < MaxRuns
    /\ registryLock = None
    /\ runs' = runs + 1
    /\ LET move == {t \in Tasks : Movable(t)}
           p == [live |-> registry, archived |-> archive, move |-> move,
                 statuses |-> Statuses]
       IN IF move = {}
          THEN /\ proc' = [proc EXCEPT ![j] = [pc |-> "scan", statuses |-> Statuses,
                                                 reopened |-> {}]]
               /\ UNCHANGED registryLock
          ELSE /\ proc' = [proc EXCEPT ![j] = [pc |-> "archive", read |-> p]]
               /\ registryLock' = j
    /\ UNCHANGED <<rows, pruneLock, alive, files, edits, latest>>

WriteArchive(j) ==
    /\ proc[j].pc = "archive"
    /\ archive' = [t \in Tasks |-> IF t \in proc[j].read.move THEN proc[j].read.live[t]
                                   ELSE proc[j].read.archived[t]]
    /\ proc' = [proc EXCEPT ![j].pc = "registry"]
    /\ UNCHANGED <<registry, registryLock, pruneLock, alive, files, edits, runs, latest>>

WriteRegistry(j) ==
    /\ proc[j].pc = "registry"
    /\ registry' = [t \in Tasks |-> IF t \in proc[j].read.move THEN None
                                    ELSE proc[j].read.live[t]]
    /\ registryLock' = None
    /\ proc' = [proc EXCEPT ![j] = [pc |-> "scan", statuses |-> proc[j].read.statuses,
                                    reopened |-> {}]]
    /\ UNCHANGED <<archive, pruneLock, alive, files, edits, runs, latest>>

-----------------------------------------------------------------------------
(* archive_dispatch, under no lock, on the statuses read above. *)

\* The listing, grouped by task.
Scan(j) ==
    /\ proc[j].pc = "scan"
    /\ proc' = [proc EXCEPT ![j] =
          [pc |-> "judge", statuses |-> @.statuses, tasks |-> Tasks,
           reopened |-> @.reopened, seen |-> {n \in Names : hot[n] # 0}, moving |-> {}]]
    /\ UNCHANGED <<rows, registryLock, pruneLock, alive, files, edits, runs, latest>>

Disposable(j, t) ==
    /\ t \in DayOldTasks
    /\ proc[j].statuses[t] \in SETTLED
    /\ t \notin alive

\* One task of the listing is kept, or its files are to be moved.
Judge(j) ==
    /\ proc[j].pc = "judge" /\ proc[j].moving = {}
    /\ \E t \in proc[j].tasks :
          proc' = [proc EXCEPT ![j].tasks = @ \ {t},
                               ![j].moving = IF Disposable(j, t)
                                   THEN {n \in proc[j].seen : TaskOf[n] = t} ELSE {}]
    /\ UNCHANGED <<rows, registryLock, pruneLock, alive, files, edits, runs, latest>>

\* One os.replace; a file another sweep moved first is skipped.
MoveFile(j) ==
    /\ proc[j].pc = "judge"
    /\ \E n \in proc[j].moving :
          /\ proc' = [proc EXCEPT ![j].moving = @ \ {n}]
          /\ IF hot[n] # 0
             THEN hot' = [hot EXCEPT ![n] = 0] /\ cold' = [cold EXCEPT ![n] = hot[n]]
             ELSE UNCHANGED <<hot, cold>>
    /\ UNCHANGED <<rows, registryLock, pruneLock, alive, pack, aged, edits, runs, latest>>

-----------------------------------------------------------------------------
(* pack_history, under the prune lock. *)

\* _pack_history lists what is old enough and _pack_month takes the identities.
PackBegin(j) ==
    /\ proc[j].pc = "judge" /\ proc[j].tasks = {} /\ proc[j].moving = {}
    /\ pruneLock = None
    /\ LET old == {n \in Names : cold[n] # 0 /\ n \in aged} IN
       IF old = {}
       THEN proc' = [proc EXCEPT ![j] = Idle] /\ UNCHANGED pruneLock
       ELSE /\ pruneLock' = j
            /\ proc' = [proc EXCEPT ![j] = [pc |-> "merge", old |-> old,
                          previous |-> pack, identity |-> [n \in old |-> cold[n]]]]
    /\ UNCHANGED <<rows, registryLock, alive, files, edits, runs, latest>>

\* An exception leaves the whole run.
Raise(j) ==
    proc' = [proc EXCEPT ![j] = Idle] /\ pruneLock' = None

\* The new pack: the members of the old one and the files not yet in it.
Merged(j) ==
    [n \in Names |-> IF proc[j].previous[n] # 0 THEN proc[j].previous[n]
                     ELSE IF n \in proc[j].old THEN cold[n] ELSE 0]

Conflicts(j) ==
    \E n \in proc[j].old :
        \/ cold[n] = 0
        \/ proc[j].previous[n] # 0 /\ proc[j].previous[n] # cold[n]

\* Mutant: the source replaces a member that differs from it.
Merge_Overwrites(j) ==
    /\ proc[j].pc = "merge"
    /\ proc' = [proc EXCEPT ![j] = [pc |-> "publish", old |-> @.old,
                  previous |-> @.previous, identity |-> @.identity,
                  new |-> [n \in Names |-> IF n \in proc[j].old /\ cold[n] # 0 THEN cold[n]
                                           ELSE proc[j].previous[n]]]]
    /\ UNCHANGED <<rows, registryLock, pruneLock, alive, files, edits, runs, latest>>

\* Every source is read into the new tar, compressed, and read back.
Merge(j) ==
    /\ proc[j].pc = "merge"
    /\ IF Conflicts(j)
       THEN Raise(j)
       ELSE /\ proc' = [proc EXCEPT ![j] = [pc |-> "publish", old |-> @.old,
                          previous |-> @.previous, identity |-> @.identity,
                          new |-> Merged(j)]]
            /\ UNCHANGED pruneLock
    /\ UNCHANGED <<rows, registryLock, alive, files, edits, runs, latest>>

Unchanged(j, n) == cold[n] = proc[j].identity[n]

\* Neither the old pack nor a source may have changed since the start.
Publish(j) ==
    /\ proc[j].pc = "publish"
    /\ IF pack = proc[j].previous /\ \A n \in proc[j].old : Unchanged(j, n)
       THEN /\ pack' = proc[j].new
            /\ proc' = [proc EXCEPT ![j] = [pc |-> "remove", old |-> @.old,
                                            identity |-> @.identity]]
            /\ UNCHANGED pruneLock
       ELSE Raise(j) /\ UNCHANGED pack
    /\ UNCHANGED <<rows, registryLock, alive, hot, cold, aged, edits, runs, latest>>

\* The identity check and the unlink of one original are one step.
RemoveOriginal(j) ==
    /\ proc[j].pc = "remove" /\ proc[j].old # {}
    /\ \E n \in proc[j].old :
          IF Unchanged(j, n)
          THEN /\ cold' = [cold EXCEPT ![n] = 0] /\ aged' = aged \ {n}
               /\ proc' = [proc EXCEPT ![j].old = @ \ {n}]
               /\ UNCHANGED pruneLock
          ELSE Raise(j) /\ UNCHANGED <<cold, aged>>
    /\ UNCHANGED <<rows, registryLock, alive, hot, pack, edits, runs, latest>>

Done(j) ==
    /\ proc[j].pc = "remove" /\ proc[j].old = {}
    /\ proc' = [proc EXCEPT ![j] = Idle]
    /\ pruneLock' = None
    /\ UNCHANGED <<rows, registryLock, alive, files, edits, runs, latest>>

\* A killed archiver drops its locks.
Crash(j) ==
    /\ proc[j].pc # "idle"
    /\ proc' = [proc EXCEPT ![j] = Idle]
    /\ registryLock' = IF registryLock = j THEN None ELSE registryLock
    /\ pruneLock' = IF pruneLock = j THEN None ELSE pruneLock
    /\ UNCHANGED <<rows, alive, files, edits, runs, latest>>

-----------------------------------------------------------------------------
(* The rest of the system. *)

\* A registry writer settles a row, reopens it (--reopen, --repair-envelope),
\* stages or drains a notice; it holds the registry lock for its read, change
\* and write.  It knows no archived row.
EditRow(t) ==
    /\ registryLock = None /\ edits < MaxEdits
    /\ registry[t] # None
    /\ \E s \in {"in-progress", "complete"}, b \in BOOLEAN :
          LET row == [status |-> s, pending |-> b, ver |-> edits + 1]
              again == registry[t].status \in SETTLED /\ s \notin SETTLED
          IN /\ registry' = [registry EXCEPT ![t] = row]
             /\ latest' = [latest EXCEPT !.row[t] = row]
             /\ proc' = [j \in Archivers |-> IF again /\ proc[j].pc \in {"scan", "judge"}
                            THEN [proc[j] EXCEPT !.reopened = @ \cup {t}] ELSE proc[j]]
    /\ edits' = edits + 1
    /\ UNCHANGED <<archive, registryLock, pruneLock, alive, files, runs>>

\* The recorded process of a task ends.
Exit(t) ==
    /\ t \in alive
    /\ alive' = alive \ {t}
    /\ UNCHANGED <<rows, registryLock, pruneLock, files, proc, edits, runs, latest>>

\* A task that is not settled is dispatched again.
Restart(t) ==
    /\ t \notin alive /\ edits < MaxEdits
    /\ registry[t] # None /\ registry[t].status \notin SETTLED
    /\ alive' = alive \cup {t}
    /\ edits' = edits + 1
    /\ UNCHANGED <<rows, registryLock, pruneLock, files, proc, runs, latest>>

\* A process that still holds a file open appends to it, wherever it is now.
Append(n) ==
    /\ edits < MaxEdits
    /\ n \notin Rescues
    /\ LET v == edits + 2 IN
       /\ \/ hot[n] # 0 /\ hot' = [hot EXCEPT ![n] = v] /\ UNCHANGED cold
          \/ cold[n] # 0 /\ cold' = [cold EXCEPT ![n] = v] /\ UNCHANGED hot
       /\ latest' = [latest EXCEPT !.file[n] = v]
    /\ aged' = aged \ {n}
    /\ edits' = edits + 1
    /\ UNCHANGED <<rows, registryLock, pruneLock, alive, pack, proc, runs>>

\* The prune script rescues a file, under the prune lock.
Rescue(n) ==
    /\ pruneLock = None /\ edits < MaxEdits
    /\ n \in Rescues
    /\ cold' = [cold EXCEPT ![n] = edits + 2]
    /\ latest' = [latest EXCEPT !.file[n] = edits + 2]
    /\ aged' = aged \ {n}
    /\ edits' = edits + 1
    /\ UNCHANGED <<rows, registryLock, pruneLock, alive, hot, pack, proc, runs>>

\* Thirty days pass for an archived file.
Ages(n) ==
    /\ cold[n] # 0 /\ n \notin aged
    /\ aged' = aged \cup {n}
    /\ UNCHANGED <<rows, registryLock, pruneLock, alive, hot, cold, pack, proc,
                   edits, runs, latest>>

Archiver(j) ==
    \/ ReadRegistry(j) \/ WriteArchive(j) \/ WriteRegistry(j)
    \/ Scan(j) \/ Judge(j) \/ MoveFile(j)
    \/ PackBegin(j) \/ Merge(j) \/ Publish(j) \/ RemoveOriginal(j) \/ Done(j)
    \/ Crash(j)

Next ==
    \/ \E j \in Archivers : Archiver(j)
    \/ \E t \in Tasks : EditRow(t) \/ Exit(t) \/ Restart(t)
    \/ \E n \in Names : Append(n) \/ Rescue(n) \/ Ages(n)

Spec == Init /\ [][Next]_vars

-----------------------------------------------------------------------------
(* Properties. *)

\* The newest row of every task survives every crash and every overlap: it is
\* the live row, or, when there is no live row, the archived one
\* (archive_registry: archive first, "it never loses one").
NewestRowSurvives ==
    \A t \in Tasks :
        latest.row[t] = IF registry[t] # None THEN registry[t] ELSE archive[t]

\* Retry consumers scan the active registry only: a task that still owes a
\* notice is in it (_has_pending_events).
OwedStaysActive ==
    \A t \in Tasks : latest.row[t].pending => registry[t] # None

\* The newest bytes of every file are in place, in the archive or in the pack,
\* whatever the moment of a crash or of a late append.
BytesSurvive ==
    \A n \in Names : latest.file[n] \in {hot[n], cold[n], pack[n]}

\* pack_history: "Existing monthly members are retained forever".
MembersAreKept ==
    \A n \in Names : pack[n] # 0 => pack'[n] = pack[n]

\* archive_dispatch judges by a status it read earlier and a process it looked
\* for once: it takes away the files of tasks that are settled and whose process
\* is gone at the very moment of the move, except of a task that was reopened
\* after this run read the registry.
OnlyFinishedMove ==
    \A j \in Archivers : proc[j].pc = "judge" /\ proc'[j].pc = "judge" =>
        \A n \in proc[j].moving \ proc'[j].moving : (hot[n] # 0 /\ hot'[n] = 0) =>
           \/ TaskOf[n] \in proc[j].reopened
           \/ /\ latest.row[TaskOf[n]].status \in SETTLED
              /\ TaskOf[n] \notin alive
=============================================================================
