--------------------------- MODULE WorkboardStore ---------------------------
(***************************************************************************)
(* The ledger file OPEN-WORK.md and its writers: append_event, the         *)
(* migration of a legacy checklist with its rollback, and compaction into  *)
(* an archive beside the ledger (src/scripts/python/chrono_state/          *)
(* workboard.py).  Every writer holds the exclusive flock on the parent    *)
(* directory from its first read to its last write, so a writer is one     *)
(* step, except compaction, which publishes two files and may die between  *)
(* them: the kernel then drops its lock and leaves what it wrote.          *)
(***************************************************************************)
EXTENDS Workboard

CONSTANTS InitialLedgers,   \* the ledgers the file may start as
          Kinds,            \* the event kinds the callers append
          ArchiveNames,     \* archive file names (one for each UTC date)
          MaxEvents,        \* bound on the events appended
          MaxProjected      \* MAX_PROJECTED_ITEMS

BoundsAssumption ==
  Kinds \subseteq EventKinds /\ MaxEvents \in Nat /\ MaxProjected \in Nat \ {0}

VARIABLES file,       \* [records, marker, torn]: the bytes of OPEN-WORK.md
          archives,   \* archive name -> records
          job,        \* the compaction that holds the lock
          quoted,     \* the file a migration dry run planned for
          written     \* the events append_event returned, a history variable

vars == <<file, archives, job, quoted, written>>

NoJob == [step |-> "none", name |-> None, source |-> None]
Free == job.step = "none"
records == file.records
board == project_workboard(records)

Init ==
  /\ file \in [records : InitialLedgers, marker : {None}, torn : {FALSE}]
  /\ archives = <<>>
  /\ job = NoJob
  /\ quoted = None
  /\ written = {}

-----------------------------------------------------------------------------
(* append_event *)

\* A torn last line swallows the candidate's line, so the candidate does not
\* parse and nothing is written.
Accept(p, e) == ~file.torn /\ Accepted(records, p, e)

\* The write either completes, or stops half way (no space, a crash) and
\* leaves a torn line that no code path truncates.
append_event(p, e0) ==
  LET e == [e0 EXCEPT !.id = <<"EV", Cardinality(written) + 1, 0>>]
  IN /\ e.kind \in Kinds /\ Accept(p, e)
     /\ \/ /\ file' = [file EXCEPT !.records = Append(@, e)]
           /\ written' = written \cup {e.id}
        \/ file' = [file EXCEPT !.torn = TRUE] /\ UNCHANGED written
     /\ UNCHANGED <<archives, job, quoted>>

UsedIds ==
  LET In(led) == {led[i].work : i \in DOMAIN led}
  IN In(records) \cup UNION {In(archives[n]) : n \in DOMAIN archives}

Targets(p) == {w \in Open(p) \cup p.terminal : Nameable(p, w)}

Foci(p, kinds) ==
  {NoFocus} \cup {[NoFocus EXCEPT !.to = "idle"]}
    \cup [to : kinds, work : Targets(p), act : Notes]

\* start and queue: the alias names no open item, the id is generated fresh.
AppendOpening(p) ==
  \E k \in OpeningKinds, w \in WorkIds \ UsedIds, a \in Aliases, t, n \in Notes :
    /\ \A v \in Open(p) : p.items[v].alias # a
    /\ append_event(p, [Facts(k, w, n) EXCEPT !.alias = a, !.text = t])

AppendTransition(p) ==
  \E k \in {"switch", "advance"}, w \in Targets(p), n \in Notes :
    append_event(p, Facts(k, w, n))

AppendRestate(p) ==
  \E w \in Targets(p), t, n \in Notes :
    append_event(p, [Facts("restate", w, n) EXCEPT !.text = t])

AppendBlock(p) ==
  \E w \in Targets(p), n \in Notes, f \in Foci(p, {"successor"}) :
    append_event(p, [Facts("block", w, n) EXCEPT !.focus = f])

AppendClose(p) ==
  \E k \in {"complete", "archive"}, w \in Targets(p), f \in Foci(p, {"successor", "waiting"}) :
    append_event(p, [Facts(k, w, None) EXCEPT !.focus = f])

AppendDrop(p) ==
  \E w \in Targets(p) \cup {Legacy(a) : a \in Aliases}, f \in Foci(p, {"successor", "waiting"}) :
    append_event(p, [Facts("drop", w, None) EXCEPT !.focus = f])

AppendFold(p) ==
  \E a \in Aliases, w \in Targets(p), n \in Notes :
    append_event(p, [Facts("fold", w, n) EXCEPT !.alias = a])

AppendAdopt(p) ==
  \E i \in DOMAIN records, w \in WorkIds \ UsedIds :
    /\ records[i].kind \in OpeningKinds
    /\ append_event(p, [Facts("adopt", w, None) EXCEPT !.source = records[i].id,
                                                    !.alias = records[i].alias])

AppendMark(p) == \E k \in {"idle", "restart"} : append_event(p, Facts(k, None, None))

-----------------------------------------------------------------------------
(* migrate_workboard *)

CanMigrate ==
  /\ file.marker = None /\ ~file.torn
  /\ MigratableRows(records) /\ board.issues = {} /\ MigrationHolds(records)

\* The marker names the plan; any line after the migrated body refuses.
CanRollBack ==
  /\ file.marker # None /\ ~file.torn
  /\ Len(records) = file.marker.size
  /\ Restored(records) = file.marker.source
  /\ SameCensus(records, Restored(records))

MigrateDryRun ==
  /\ Free
  /\ CanMigrate \/ CanRollBack
  /\ quoted' = file
  /\ UNCHANGED <<file, archives, job, written>>

\* Apply demands the plan of a preceding dry run.  Publishing is a rename, and
\* a failed publish restores the source: the file is the source or the target.
MigrateApply ==
  /\ Free /\ quoted = file /\ CanMigrate
  /\ LET body == Migrated(records)
     IN file' = [file EXCEPT !.records = body,
                             !.marker = [size |-> Len(body), source |-> records]]
  /\ UNCHANGED <<archives, job, quoted, written>>

MigrateRollback ==
  /\ Free /\ quoted = file /\ CanRollBack
  /\ file' = [file EXCEPT !.records = Restored(SubSeq(records, 1, file.marker.size)),
                          !.marker = None]
  /\ UNCHANGED <<archives, job, quoted, written>>

\* Before the migration the checklist is edited by hand: an item is ticked.
HandTick ==
  /\ Free /\ ~Structured(records)
  /\ \E i \in DOMAIN records :
       /\ ~records[i].checked
       /\ file' = [file EXCEPT !.records[i].checked = TRUE]
  /\ UNCHANGED <<archives, job, quoted, written>>

-----------------------------------------------------------------------------
(* compact *)

CompactArchive ==
  /\ Free /\ ~file.torn
  /\ Compactable(records, board) /\ PlanHolds(records, board)
  /\ \E n \in ArchiveNames \ DOMAIN archives :
       /\ archives' = (n :> Archived(records, board)) @@ archives
       /\ job' = [step |-> "archived", name |-> n, source |-> file]
  /\ UNCHANGED <<file, quoted, written>>

CompactReplace ==
  /\ job.step = "archived"
  /\ file' = [records |-> Compacted(records, board), marker |-> None, torn |-> FALSE]
  /\ job' = [job EXCEPT !.step = "replaced"]
  /\ UNCHANGED <<archives, quoted, written>>

CompactDone ==
  /\ job.step = "replaced"
  /\ job' = NoJob
  /\ UNCHANGED <<file, archives, quoted, written>>

\* The rename raised, or the bytes read back differ from the plan.
CompactFails ==
  /\ job.step \in {"archived", "replaced"}
  /\ job' = [job EXCEPT !.step = "failed"]
  /\ UNCHANGED <<file, archives, quoted, written>>

\* The compensating restore puts the source back, then removes the archive.
CompactRestore ==
  /\ job.step = "failed"
  /\ file' = job.source
  /\ job' = [job EXCEPT !.step = "restored"]
  /\ UNCHANGED <<archives, quoted, written>>

CompactUnlink ==
  /\ job.step = "restored"
  /\ archives' = Restrict(archives, DOMAIN archives \ {job.name})
  /\ job' = NoJob
  /\ UNCHANGED <<file, quoted, written>>

\* The process dies, or the restore or the unlink raises.
CompactAbandoned ==
  /\ ~Free
  /\ job' = NoJob
  /\ UNCHANGED <<file, archives, quoted, written>>

-----------------------------------------------------------------------------
Appends ==
  /\ Free /\ Cardinality(written) < MaxEvents
  /\ LET p == board
     IN \/ AppendOpening(p) \/ AppendTransition(p) \/ AppendRestate(p) \/ AppendBlock(p)
        \/ AppendClose(p) \/ AppendDrop(p) \/ AppendFold(p) \/ AppendAdopt(p) \/ AppendMark(p)

Next ==
  \/ Appends
  \/ MigrateDryRun \/ MigrateApply \/ MigrateRollback \/ HandTick
  \/ CompactArchive \/ CompactReplace \/ CompactDone \/ CompactFails
  \/ CompactRestore \/ CompactUnlink \/ CompactAbandoned

Spec == Init /\ [][Next]_vars

-----------------------------------------------------------------------------
(* Properties *)

\* The file, the archives and the compaction in progress have their types.
WorkboardTypeOK ==
  /\ file.torn \in BOOLEAN
  /\ \A i \in DOMAIN records : records[i].kind \in EventKinds \cup {"row"}
  /\ DOMAIN archives \subseteq ArchiveNames
  /\ job.step \in {"none", "archived", "replaced", "failed", "restored"}
  /\ Cardinality(written) <= MaxEvents

\* Whatever sequence of appends, migrations and compactions wrote it, a ledger
\* projects exactly one active item, or idle, or one open item it waits on, and
\* no closed item is open: the only issue it may carry is an opening collision
\* that it was started with and nobody adopted yet (append_event's simulation).
LedgerValid ==
  \A i \in Issues(records) : i[1] = "opening reuses work id"

\* The refusals at the end of _build_compaction_plan never fire: a valid ledger
\* whose open items compaction v1 can re-emit has a candidate that validates,
\* keeps the projection and, with the archive, every item and event once.  (An
\* adopted collision is the exception: its archive may hold the rejected
\* opening before the opening it collided with.)
CompactionSound ==
  Compactable(records, board) /\ (\A i \in DOMAIN records : records[i].kind # "adopt")
    => PlanHolds(records, board)

\* No event append_event returned is ever lost: it stands in the ledger or in
\* an archive, also when compaction dies or is undone between its two files
\* and when a migration is rolled back.
NoEventLost ==
  written \subseteq Ids(records) \cup UNION {Ids(archives[n]) : n \in DOMAIN archives}

\* The active item is among the rows of the bounded resume block, however many
\* items are open and however long ago it last changed (render_resume_rows).
ActiveShown == Active(board) \subseteq Shown(board, MaxProjected)

\* An open item leaves the projection only by a complete, archive or drop of
\* its own: a migration, its rollback, a compaction, a crash or the focus
\* change of another item never closes it (a hand-ticked checklist row aside).
ClosedByOwnEvent ==
  LET after == project_workboard(file'.records)
  IN \A w \in Open(board) \ Open(after) :
       \/ ~Structured(records) /\ ~Structured(file'.records)
       \/ /\ Len(file'.records) = Len(records) + 1
          /\ Last(file'.records).kind \in TerminalKinds
          /\ Last(file'.records).work = w

\* A checklist without open anonymous rows always migrates once its shape is
\* right, and the migrated body reads back to exactly that checklist.
MigrationSound ==
  MigratableRows(records) /\ board.issues = {} =>
    /\ Restored(Migrated(records)) = records
    /\ (\A i \in DOMAIN records : Explicit(records[i]) \/ records[i].checked)
         => MigrationHolds(records)
=============================================================================
