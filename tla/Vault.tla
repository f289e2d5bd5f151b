------------------------------- MODULE Vault -------------------------------
(***************************************************************************)
(* The chrono-vault store: canonical note files and the disposable search  *)
(* index over them (plugins/chrono-vault/notes.py, lifecycle.py, index.py, *)
(* recall.py, curation_queue.py).                                          *)
(*                                                                         *)
(* Files are written one at a time by atomic replacement; the index is a   *)
(* SQLite database changed in transactions under index/.kg.lock.  record() *)
(* writes its file and parses it back without that lock and only then      *)
(* takes it; set_status() holds it while it publishes up to three files    *)
(* and commits the index; usage feedback, recall bookkeeping, sync and     *)
(* rebuild each take it once.                                              *)
(*                                                                         *)
(* A note's text is left out; what is kept of it is its status, revision   *)
(* and supersession pointers, and whether the file still parses.           *)
(***************************************************************************)
EXTENDS Naturals, FiniteSets

CONSTANTS
  Notes,       \* note ids
  Seeded,      \* notes recorded, verified and indexed beforehand
  Procs,       \* processes using the store
  Recalls,     \* recall ids
  Kinds,       \* operations processes start: SUBSET OpKinds
  Headers,     \* what callers of record() declare: [status, by, sup]
  MaxOps,      \* operations started in all
  MaxFaults,   \* failed publishes, schema upgrades, hand edits
  MaxUnread,   \* rebuilds that could not read the database they replace
  MaxCrashes   \* processes killed

OpKinds == {"record", "status", "usage", "recall", "sync", "rebuild"}
Absent == "none"
Gone == "gone"                          \* an id that names no note
Statuses == {"candidate", "verified", "superseded", "invalidated", "archived"}
Outcomes == {"used", "incorrect"}

VaultAssumption ==
  /\ Kinds \subseteq OpKinds /\ Seeded \subseteq Notes
  /\ Headers \subseteq [status : Statuses, by : Notes \cup {Absent, Gone}, sup : SUBSET Notes]
  /\ MaxOps \in Nat /\ MaxFaults \in Nat /\ MaxUnread \in Nat /\ MaxCrashes \in Nat
  /\ Absent \notin Notes \cup Procs \cup Recalls /\ Gone \notin Notes

VARIABLES
  file,     \* file[n]: the note file, or NoFile
  db,       \* kg.db
  lock,     \* holder of .kg.lock, or Absent
  job,      \* job[p]: the operation p is executing
  flags,    \* flags[r, n]: rows of the curation queue for that signal
  blind,    \* a transition replaced a note its caller had not read
  used      \* operations and faults spent; stuck: notes a rollback left behind

vars == <<file, db, lock, job, flags, blind, used>>

\* own: the pointer, or the status that goes with one, is its author's word.
NoFile == [status |-> Absent, rev |-> 0, by |-> Absent, sup |-> {}, ok |-> TRUE,
           own |-> FALSE]
Exists(n) == n \in Notes /\ file[n].rev > 0

Idle == [op |-> Absent, note |-> Absent, seen |-> NoFile, new |-> <<>>, old |-> <<>>,
         left |-> {}, recall |-> Absent]

NoRow == [status |-> Absent, rev |-> 0]
RowOf(f) == [status |-> f.status, rev |-> f.rev]

At(p, op) == job[p].op = op
Done(p) == job' = [job EXCEPT ![p] = Idle]
Begin == used.ops < MaxOps /\ used' = [used EXCEPT !.ops = @ + 1]
Fault == used.faults < MaxFaults /\ used' = [used EXCEPT !.faults = @ + 1]

----------------------------------------------------------------------------
(* The index.                                                              *)

\* What a full scan of the note files indexes; a file that does not parse is
\* quarantined.
Scan == [n \in Notes |-> IF Exists(n) /\ file[n].ok THEN RowOf(file[n]) ELSE NoRow]

\* Mutant: the fresh database starts with an empty usage table.
RebuiltBare(unread) ==
  [state |-> "current", gen |-> db.gen + 1, row |-> Scan, usage |-> {},
   returned |-> db.returned, lost |-> db.lost + Cardinality(unread)]
\* rebuild_index: a complete new database, carrying the generation, the usage
\* feedback and the recall bookkeeping of the old one, each as far as its
\* reader can: on a sqlite3.Error it returns nothing and the rebuild goes on.
Rebuilt(unread) ==
  [state |-> "current", row |-> Scan,
   gen |-> IF "generation" \in unread THEN 1 ELSE db.gen + 1,
   usage |-> IF "usage" \in unread THEN {} ELSE db.usage,
   returned |-> IF "returned" \in unread THEN {} ELSE db.returned,
   lost |-> db.lost + Cardinality(unread)]
\* What the readers of a rebuild may miss.
Unreads ==
  IF db.state = "absent" THEN {{}}
  ELSE {u \in SUBSET {"generation", "usage", "returned"} : db.lost + Cardinality(u) <= MaxUnread}

\* sync_index: documents added, replaced or removed; a new generation when
\* something changed.
Synced ==
  [db EXCEPT !.row = Scan, !.state = "current",
             !.gen = IF Scan # db.row \/ \E n \in Notes : Exists(n) /\ ~file[n].ok
                     THEN @ + 1 ELSE @]

\* Every index writer first rebuilds a database of an older schema.
Sync(p) ==
  /\ "sync" \in Kinds /\ At(p, Absent)
  /\ lock = Absent
  /\ Begin
  /\ IF db.state = "stale" THEN \E u \in Unreads : db' = Rebuilt(u) ELSE db' = Synced
  /\ UNCHANGED <<file, lock, job, flags, blind>>

Rebuild(p) ==
  /\ "rebuild" \in Kinds /\ At(p, Absent)
  /\ lock = Absent
  /\ Begin
  /\ \E u \in Unreads : db' = Rebuilt(u)
  /\ UNCHANGED <<file, lock, job, flags, blind>>

----------------------------------------------------------------------------
(* record().                                                               *)

\* The file is published.  Its author may give it any status and pointers to
\* other notes; the id is drawn at random, so no pointer names a note to come.
RecordFile(p, n, h) ==
  /\ "record" \in Kinds /\ At(p, Absent)
  /\ ~Exists(n)
  /\ h.by \in {Absent, Gone} \/ Exists(h.by)
  /\ \A m \in h.sup : Exists(m)
  /\ Begin
  /\ file' = [file EXCEPT ![n] = [status |-> h.status, rev |-> 1, by |-> h.by,
                                  sup |-> h.sup, ok |-> TRUE,
                                  own |-> h.by # Absent \/ h.status = "superseded"]]
  /\ job' = [job EXCEPT ![p] = [Idle EXCEPT !.op = "parse", !.note = n]]
  /\ UNCHANGED <<db, lock, flags, blind>>

\* upsert parses the file before it takes the lock.
ParseNote(p) ==
  /\ At(p, "parse")
  /\ job' = [job EXCEPT ![p] = IF file[job[p].note].ok
                               THEN [@ EXCEPT !.op = "upsert", !.seen = file[job[p].note]]
                               ELSE Idle]
  /\ UNCHANGED <<file, db, lock, flags, blind, used>>

\* The parsed note goes into the index; a stale database is rebuilt instead.
Upsert(p) ==
  /\ At(p, "upsert")
  /\ lock = Absent
  /\ IF db.state = "stale" THEN \E u \in Unreads : db' = Rebuilt(u)
     ELSE db' = [db EXCEPT !.row[job[p].note] = RowOf(job[p].seen), !.gen = @ + 1]
  /\ Done(p)
  /\ UNCHANGED <<file, lock, flags, blind, used>>

----------------------------------------------------------------------------
(* set_status().                                                           *)

\* The controller reads the note it will judge (get_note, under the lock).
GetNote(p, n) ==
  /\ "status" \in Kinds /\ At(p, Absent)
  /\ lock = Absent
  /\ Exists(n) /\ file[n].ok
  /\ Begin
  /\ job' = [job EXCEPT ![p] = [Idle EXCEPT !.op = "decide", !.note = n, !.seen = file[n]]]
  /\ UNCHANGED <<file, db, lock, flags, blind>>

\* The compare of the compare-and-swap.
SameRevision(p) == file[job[p].note].rev = job[p].seen.rev

\* The chain of replacements from n; a note that does not parse ends it.
Chain(n) ==
  LET walk[k \in 0 .. Cardinality(Notes)] ==
        IF k = 0 THEN {n}
        ELSE LET s == walk[k - 1]
             IN s \cup ({file[m].by : m \in {m \in s : Exists(m) /\ file[m].ok}} \ {Absent})
  IN walk[Cardinality(Notes)]

\* A replacement must be current, and must not itself be replaced by n.
GoodReplacement(n, r) ==
  /\ Exists(r) /\ file[r].ok
  /\ file[r].status = "verified"
  /\ n \notin Chain(r)

\* _updated_notes: the note, the replacement it leaves and the one it gains.
Updates(n, status, r) ==
  LET old == file[n].by
      leaves == IF old # Absent /\ old # r THEN {old} ELSE {}
      gains == IF r # Absent /\ n \notin file[r].sup THEN {r} ELSE {}
      primary == [file[n] EXCEPT !.status = status, !.by = r, !.rev = @ + 1]
  IN [m \in {n} \cup leaves \cup gains |->
        IF m = n THEN primary
        ELSE IF m \in leaves THEN [file[m] EXCEPT !.sup = @ \ {n}, !.rev = @ + 1]
        ELSE [file[m] EXCEPT !.sup = @ \cup {n}, !.rev = @ + 1]]

\* The guards hold and the new contents are staged, under the lock.  An index
\* that is absent or of an older schema has been rebuilt first.
SetStatus(p, status, r) ==
  LET n == job[p].note IN
  /\ At(p, "decide")
  /\ lock = Absent
  /\ (status = "superseded") = (r # Absent)
  /\ r # n
  /\ Exists(n) /\ file[n].ok /\ SameRevision(p)
  /\ r # Absent => GoodReplacement(n, r)
  /\ file[n].by # Absent => Exists(file[n].by) /\ file[file[n].by].ok
  /\ LET new == Updates(n, status, r) IN
     /\ job' = [job EXCEPT ![p] = [@ EXCEPT !.op = "publish", !.new = new,
                                    !.old = [m \in DOMAIN new |-> file[m]],
                                    !.left = DOMAIN new]]
     /\ blind' = (blind \/ file[n] # job[p].seen)
  /\ IF db.state # "current" THEN \E u \in Unreads : db' = Rebuilt(u) ELSE db' = db
  /\ lock' = p
  /\ UNCHANGED <<file, flags, used>>

\* A guard refuses: conflict, missing or unverified replacement, cycle.
Refuse(p) ==
  /\ At(p, "decide")
  /\ lock = Absent
  /\ Done(p)
  /\ UNCHANGED <<file, db, lock, flags, blind, used>>

\* One staged file replaces its note.
Publish(p, m) ==
  /\ At(p, "publish")
  /\ m \in job[p].left
  /\ file' = [file EXCEPT ![m] = job[p].new[m]]
  /\ job' = [job EXCEPT ![p].left = @ \ {m}]
  /\ UNCHANGED <<db, lock, flags, blind, used>>

\* The index transaction commits and the lock is released.
CommitStatus(p) ==
  /\ At(p, "publish")
  /\ job[p].left = {}
  /\ db' = [db EXCEPT !.row = [n \in Notes |-> IF n \in DOMAIN job[p].new
                                               THEN RowOf(job[p].new[n]) ELSE @[n]],
                      !.gen = @ + 1]
  /\ lock' = Absent
  /\ Done(p)
  /\ UNCHANGED <<file, flags, blind, used>>

\* A publish or the transaction fails: the published files are put back.
PublishFails(p) ==
  /\ At(p, "publish")
  /\ Fault
  /\ job' = [job EXCEPT ![p] = [@ EXCEPT !.op = "restore", !.left = DOMAIN job[p].new \ job[p].left]]
  /\ UNCHANGED <<file, db, lock, flags, blind>>

\* _restore_published, one file after the other.
Restore(p, m) ==
  /\ At(p, "restore")
  /\ m \in job[p].left
  /\ file' = [file EXCEPT ![m] = job[p].old[m]]
  /\ job' = [job EXCEPT ![p].left = @ \ {m}]
  /\ UNCHANGED <<db, lock, flags, blind, used>>

\* One of them cannot be put back: the others still are, and the error names it.
RestoreFails(p, m) ==
  /\ At(p, "restore")
  /\ m \in job[p].left
  /\ used' = [used EXCEPT !.stuck = @ \cup {m}]
  /\ job' = [job EXCEPT ![p].left = @ \ {m}]
  /\ UNCHANGED <<file, db, lock, flags, blind>>

\* The original files are back; the error is raised and the lock released.
Restored(p) ==
  /\ At(p, "restore")
  /\ job[p].left = {}
  /\ lock' = Absent
  /\ Done(p)
  /\ UNCHANGED <<file, db, flags, blind, used>>

----------------------------------------------------------------------------
(* recall() and record_usage().                                            *)

\* Ranked results come from the index alone, under the shared lock.
Recall(p, r) ==
  /\ "recall" \in Kinds /\ At(p, Absent)
  /\ lock = Absent
  /\ db.state = "current"
  /\ \A pair \in db.returned : pair[1] # r
  /\ \A q \in Procs : job[q].recall # r
  /\ Begin
  /\ LET hits == {n \in Notes : db.row[n].status \in {"candidate", "verified"}} IN
     /\ hits # {}
     /\ job' = [job EXCEPT ![p] = [Idle EXCEPT !.op = "returns", !.recall = r,
                                               !.left = hits]]
  /\ UNCHANGED <<file, db, lock, flags, blind>>

\* What was handed out is recorded before the caller sees it.
RecordReturns(p) ==
  /\ At(p, "returns")
  /\ lock = Absent
  /\ db' = [db EXCEPT !.returned = @ \cup ({job[p].recall} \X job[p].left)]
  /\ Done(p)
  /\ UNCHANGED <<file, lock, flags, blind, used>>

Prior(d, r, n) == {u \in d.usage : u.recall = r /\ u.note = n}

\* An identical retry is the same observation.
NewSignal(d, r, n) == Prior(d, r, n) = {}

\* One feedback row per recall and note; a different second report is refused.
RecordUsage(p, r, n, outcome) ==
  /\ "usage" \in Kinds /\ At(p, Absent)
  /\ lock = Absent
  /\ Exists(n) /\ file[n].ok
  /\ Begin
  /\ \E ready \in IF db.state = "current" THEN {db} ELSE {Rebuilt(u) : u \in Unreads} :
     LET same == [recall |-> r, note |-> n, outcome |-> outcome]
     IN IF Prior(ready, r, n) \subseteq {same}
        THEN /\ db' = [ready EXCEPT !.usage = @ \cup {same}]
             /\ job' = [job EXCEPT ![p] =
                         IF NewSignal(ready, r, n) /\ outcome # "used"
                         THEN [Idle EXCEPT !.op = "flag", !.recall = r, !.note = n]
                         ELSE Idle]
        ELSE db' = ready /\ UNCHANGED job
  /\ UNCHANGED <<file, lock, flags, blind>>

\* flag_for_curation, after the commit and outside the lock.
FlagForCuration(p) ==
  /\ At(p, "flag")
  /\ flags' = [flags EXCEPT ![<<job[p].recall, job[p].note>>] = @ + 1]
  /\ Done(p)
  /\ UNCHANGED <<file, db, lock, blind, used>>

----------------------------------------------------------------------------
(* The environment.                                                        *)

\* A process dies: its open transaction is gone, its published files stay.
Crash(p) ==
  /\ ~At(p, Absent)
  /\ used.crashes < MaxCrashes
  /\ used' = [used EXCEPT !.crashes = @ + 1]
  /\ Done(p)
  /\ lock' = IF lock = p THEN Absent ELSE lock
  /\ UNCHANGED <<file, db, flags, blind>>

\* An upgrade of the code finds a database of the previous schema.
Upgrade ==
  /\ db.state = "current"
  /\ Fault
  /\ db' = [db EXCEPT !.state = "stale"]
  /\ UNCHANGED <<file, lock, job, flags, blind>>

\* Someone edits a note by hand so that it no longer parses.
HandEdit(n) ==
  /\ lock = Absent
  /\ Exists(n) /\ file[n].ok
  /\ Fault
  /\ file' = [file EXCEPT ![n].ok = FALSE]
  /\ UNCHANGED <<db, lock, job, flags, blind>>

Init ==
  /\ file = [n \in Notes |-> IF n \in Seeded
                             THEN [NoFile EXCEPT !.status = "verified", !.rev = 1]
                             ELSE NoFile]
  /\ db = [state |-> IF Seeded = {} THEN "absent" ELSE "current",
           gen |-> Cardinality(Seeded),
           row |-> [n \in Notes |-> IF n \in Seeded
                                    THEN [status |-> "verified", rev |-> 1] ELSE NoRow],
           usage |-> {}, returned |-> {}, lost |-> 0]
  /\ lock = Absent
  /\ job = [p \in Procs |-> Idle]
  /\ flags = [s \in Recalls \X Notes |-> 0]
  /\ blind = FALSE
  /\ used = [ops |-> 0, faults |-> 0, crashes |-> 0, stuck |-> {}]

Next ==
  \/ \E p \in Procs :
       \/ Sync(p) \/ Rebuild(p)
       \/ \E n \in Notes, h \in Headers : RecordFile(p, n, h)
       \/ ParseNote(p) \/ Upsert(p)
       \/ \E n \in Notes : GetNote(p, n)
       \/ \E s \in Statuses, r \in Notes \cup {Absent} : SetStatus(p, s, r)
       \/ Refuse(p)
       \/ \E m \in Notes : Publish(p, m) \/ Restore(p, m) \/ RestoreFails(p, m)
       \/ CommitStatus(p) \/ PublishFails(p) \/ Restored(p)
       \/ \E r \in Recalls : Recall(p, r)
       \/ RecordReturns(p)
       \/ \E r \in Recalls, n \in Notes, o \in Outcomes : RecordUsage(p, r, n, o)
       \/ FlagForCuration(p)
       \/ Crash(p)
  \/ Upgrade
  \/ \E n \in Notes : HandEdit(n)

Spec == Init /\ [][Next]_vars

----------------------------------------------------------------------------
(* Properties.                                                             *)

\* Every note is in one of the lifecycle's states and the lock is held only by
\* a status change in progress.
VaultTypeOK ==
  /\ \A n \in Notes : file[n].status \in Statuses \cup {Absent}
  /\ db.state \in {"absent", "current", "stale"}
  /\ \A p \in Procs : (lock = p) = (job[p].op \in {"publish", "restore"})

\* A transition is always decided on the note it replaces: two controllers
\* that read the same revision never both change it, and pointer updates made
\* on a note's behalf count as changes (set_status's expected_revision).
TransitionsInformed == ~blind

\* No chain of readable notes returns to its start, whatever pointers their
\* authors gave them and whatever crashes and restorations the updates went
\* through; a note that does not parse ends every chain through it
\* (_creates_supersession_cycle).
SupersessionAcyclic ==
  \A n \in Notes :
    Exists(n) /\ file[n].ok /\ file[n].by # Absent => n \notin Chain(file[n].by)

\* The lifecycle never separates a note's status from its pointer, at any
\* instant of a publish, a restoration or a crash: a note whose author gave it
\* neither is superseded exactly while it names its replacement.
PointerMatchesStatus ==
  \A n \in Notes : Exists(n) /\ ~file[n].own =>
    ((file[n].status = "superseded") = (file[n].by # Absent))

\* Between status changes, and while no process has died inside one, every
\* note that the lifecycle superseded is listed by its replacement, failed and
\* rolled back updates included; only a note that the rollback's error named
\* (_restore_published) may be left apart.
PointersMirrored ==
  (lock = Absent /\ used.crashes = 0) =>
    \A n \in Notes :
      Exists(n) /\ ~file[n].own /\ file[n].by # Absent
        => n \in file[file[n].by].sup \/ {n, file[n].by} \cap used.stuck # {}

\* Usage feedback and recall bookkeeping outlive every rebuild of the index
\* that holds them, unless the rebuild could not read them.
FeedbackKept ==
  db'.lost = db.lost => db.usage \subseteq db'.usage /\ db.returned \subseteq db'.returned

\* What recall can return never changes without a new index generation, which
\* is what a result's provenance cites, unless a rebuild could not read the
\* old one.
GenerationNamesContent ==
  db'.lost = db.lost =>
    /\ db'.gen >= db.gen
    /\ db'.row # db.row => db'.gen > db.gen

\* A demotion signal reaches the curation queue at most once, however often
\* its report is retried; each rebuild that lost what it could not read may
\* have made a retry look new.
FlaggedOnce == \A s \in DOMAIN flags : flags[s] <= 1 + db.lost

=============================================================================
