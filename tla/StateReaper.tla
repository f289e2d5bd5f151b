---------------------------- MODULE StateReaper ----------------------------
(***************************************************************************)
(* The retention reaper, scripts/python/reap_unbounded_state.py: it plans  *)
(* which notification receipts, long-running markers, vault snapshots and  *)
(* rescued worker artifacts may go, publishes the plan, and then removes   *)
(* the planned files one by one while the board keeps writing beside it.   *)
(*                                                                         *)
(* A file is [kind, ino, mtime, content]: ino numbers the write that made  *)
(* it and stands, with kind and mtime, for the fingerprint (device, inode, *)
(* mode, size, mtime_ns).  Time is a clock of ticks.  The order in which   *)
(* candidates are removed is left open; the code sorts them by category    *)
(* and path.                                                               *)
(***************************************************************************)
EXTENDS Naturals, FiniteSets, Sequences

CONSTANTS Files,          \* paths in the four pools
          CategoryOf,     \* path -> the pool it lies in
          Structural,     \* paths whose name starts with a dot
          Contents,       \* what a file or a Git blob may hold
          Kinds,          \* what lstat may report: "file", "link"
          ReceiptDays, MarkerDays, RescueDays,    \* ages, in ticks
          NotificationKeep, SnapshotKeep,         \* floors of newest files
          Written,        \* the initial contents of the pools
          MaxClock, MaxWrites, MaxRuns,           \* bounds of the model
          None

ReaperAssumption ==
    /\ {ReceiptDays, MarkerDays, RescueDays, NotificationKeep, SnapshotKeep,
        MaxClock, MaxWrites, MaxRuns} \subseteq Nat
    /\ Structural \subseteq Files

VARIABLES disk,      \* path -> the file there, or None
          index,     \* contents of the regular blobs of the Git index
          gitUp,     \* whether git answers
          clock, writes,
          job,       \* the running reaper, or None; raced, seen and gone are
                     \* history: a write between a look at a file and the
                     \* next, what the index held, and what others deleted
                     \* since the run began
          receipt,   \* mode -> the published latest-<mode>.json, or None
          runs,      \* reapers started so far
          removals   \* history: every removal, as the file was when it went

vars == <<disk, index, gitUp, clock, writes, job, receipt, runs, removals>>

Notes     == "notification_receipts"
Markers   == "long_running_markers"
Snapshots == "vault_snapshots"
Rescued   == "rescued_worker_artifacts"
Pools     == <<Notes, Markers, Snapshots, Rescued>>
Modes     == {"preserve", "apply"}

FileRecords == [kind: Kinds, ino: 0..MaxWrites, mtime: 0..MaxClock,
                content: Contents]

file_fingerprint(r) == <<r.kind, r.ino, r.mtime>>

\* The regular files directly in a pool.
direct_regular_files(c) ==
    {f \in Files : CategoryOf[f] = c /\ disk[f] # None
                     /\ disk[f].kind = "file"}

\* The keep newest of a set of files; a tie on mtime goes to either.
Newest(keep, fs) ==
    {s \in SUBSET fs :
        /\ Cardinality(s) = IF Cardinality(fs) < keep THEN Cardinality(fs) ELSE keep
        /\ \A f \in s, g \in fs \ s : disk[f].mtime >= disk[g].mtime}

\* mtime <= cutoff, the cutoff taken from the clock the run read at its start;
\* snapshots have no age.
Expired(c, f, now) ==
    CASE c = Notes     -> disk[f].mtime + ReceiptDays <= now
      [] c = Markers   -> disk[f].mtime + MarkerDays <= now
      [] c = Snapshots -> TRUE
      [] c = Rescued   -> disk[f].mtime + RescueDays <= now

\* What a planner retains by the listing alone: the newest of a floor, the
\* dot-named markers, every rescued file while git cannot read its index.
Protected(c) ==
    LET files == direct_regular_files(c) IN
    CASE c = Notes     -> Newest(NotificationKeep, files)
      [] c = Markers   -> {files \cap Structural}
      [] c = Snapshots -> Newest(SnapshotKeep, files)
      [] c = Rescued   -> {IF gitUp THEN {} ELSE files}

candidate_for_file(l) ==
    [file |-> l.file, mtime |-> l.mtime, fp |-> file_fingerprint(disk[l.file]),
     blob |-> l.blob, raced |-> l.raced]

Receipt(status, planned, removed) ==
    [run |-> runs, status |-> status, removed |-> removed,
     planned |-> {c.file : c \in planned}]

Init ==
    /\ disk = Written
    /\ index \in SUBSET Contents
    /\ gitUp = TRUE
    /\ clock = 0 /\ writes = 0 /\ runs = 0
    /\ job = None
    /\ receipt = [m \in Modes |-> None]
    /\ removals = {}

-----------------------------------------------------------------------------
(* The reaper. *)

\* main, up to the receipt that is published before anything is scanned.
Start(mode) ==
    /\ job = None /\ runs < MaxRuns
    /\ runs' = runs + 1
    /\ job' = [pc |-> "plan", mode |-> mode, now |-> clock, todo |-> Pools,
               listed |-> None, look |-> None, blobs |-> {}, planned |-> {},
               left |-> {}, current |-> None, removed |-> {}, errors |-> FALSE,
               raced |-> FALSE, seen |-> index, gone |-> {}]
    /\ receipt' = [receipt EXCEPT ![mode] =
                      [run |-> runs + 1, status |-> "planning", planned |-> {},
                       removed |-> {}]]
    /\ UNCHANGED <<disk, index, gitUp, clock, writes, removals>>

Planning == job # None /\ job.pc = "plan" /\ job.todo # <<>>
OnlyJob == UNCHANGED <<disk, index, gitUp, clock, writes, receipt, runs, removals>>

\* A planner lists its pool and sorts it; the rescue planner reads the index.
ListPool ==
    /\ Planning /\ job.listed = None
    /\ LET c == Head(job.todo) IN
       \E kept \in Protected(c) :
          job' = [job EXCEPT !.blobs = index, !.listed =
                     {[file |-> f, mtime |-> disk[f].mtime, blob |-> None, raced |-> FALSE] :
                         f \in direct_regular_files(c) \ kept}]
    /\ OnlyJob

\* The age of one listed file is looked at.
LookAt(l) ==
    /\ Planning /\ job.listed # None /\ job.look = None
    /\ l \in job.listed
    /\ disk[l.file] # None
    /\ job' = [job EXCEPT !.listed = @ \ {l},
                          !.look = IF Expired(Head(job.todo), l.file, job.now)
                                   THEN l ELSE None]
    /\ OnlyJob

\* A rescued file is read next: its blob must be one of the index.
HashRescued ==
    /\ Planning /\ job.look # None /\ job.look.blob = None
    /\ Head(job.todo) = Rescued
    /\ disk[job.look.file] # None
    /\ LET d == disk[job.look.file].content IN
       job' = IF d \in job.blobs THEN [job EXCEPT !.look.blob = d]
              ELSE [job EXCEPT !.look = None]
    /\ OnlyJob

\* Only then is the fingerprint taken, by an lstat of its own.
Fingerprint ==
    /\ Planning /\ job.look # None
    /\ Head(job.todo) = Rescued => job.look.blob # None
    /\ disk[job.look.file] # None
    /\ job' = [job EXCEPT !.planned = @ \cup {candidate_for_file(job.look)}, !.look = None]
    /\ OnlyJob

\* A file that cannot be read, or is gone by now: the rescue planner retains
\* that file; any other planner raises and its category is retained whole.
PlanRaises ==
    /\ Planning /\ job.listed # None
    /\ LET c == Head(job.todo) IN
       \/ /\ c = Rescued /\ job.look # None
          /\ job' = [job EXCEPT !.look = None]
       \/ /\ c = Rescued /\ job.look = None
          /\ \E l \in job.listed : job' = [job EXCEPT !.listed = @ \ {l}]
       \/ /\ c # Rescued
          /\ job' = [job EXCEPT !.todo = Tail(@), !.listed = None, !.look = None,
                                !.errors = TRUE,
                                !.planned = {p \in @ : CategoryOf[p.file] # c}]
    /\ OnlyJob

PlanCategory ==
    /\ Planning /\ job.listed = {} /\ job.look = None
    /\ job' = [job EXCEPT !.todo = Tail(@), !.listed = None]
    /\ OnlyJob

\* The full plan is published before the first removal; a dry run and a run
\* one of whose planners failed stop here.
PublishPlan ==
    /\ job # None /\ job.pc = "plan" /\ job.todo = <<>>
    /\ receipt' = [receipt EXCEPT ![job.mode] =
          Receipt(IF job.errors THEN "planning_failure"
                  ELSE IF job.mode = "apply" THEN "in_progress" ELSE "complete",
                  job.planned, {})]
    /\ job' = IF job.mode = "apply" /\ ~ job.errors
              THEN [job EXCEPT !.pc = "remove", !.left = job.planned] ELSE None
    /\ UNCHANGED <<disk, index, gitUp, clock, writes, runs, removals>>

verify_candidate(c) ==
    /\ disk[c.file] # None
    /\ file_fingerprint(disk[c.file]) = c.fp
    /\ CategoryOf[c.file] = Rescued => disk[c.file].content = c.blob

\* The loop over the plan, up to the unlink of the next file.
Verify ==
    /\ job # None /\ job.pc = "remove" /\ job.current = None
    /\ \E c \in job.left :
          job' = IF verify_candidate(c)
                 THEN [job EXCEPT !.left = @ \ {c}, !.current = c, !.raced = c.raced]
                 ELSE [job EXCEPT !.left = @ \ {c}, !.errors = TRUE]
    /\ UNCHANGED <<disk, index, gitUp, clock, writes, receipt, runs, removals>>

\* remove_candidate: the unlink, which may fail.
Unlink ==
    /\ job # None /\ job.pc = "remove" /\ job.current # None
    /\ LET f == job.current.file IN
       \/ /\ disk[f] # None
          /\ disk' = [disk EXCEPT ![f] = None]
          /\ removals' = removals \cup
                {[run |-> runs, file |-> f, was |-> disk[f], at |-> job.now,
                  raced |-> job.raced, tracked |-> disk[f].content \in index]}
          /\ job' = [job EXCEPT !.current = None, !.removed = @ \cup {f}]
       \/ /\ job' = [job EXCEPT !.current = None, !.errors = TRUE]
          /\ UNCHANGED <<disk, removals>>
    /\ UNCHANGED <<index, gitUp, clock, writes, receipt, runs>>

\* The exact result replaces the in-progress receipt.
Finish ==
    /\ job # None /\ job.pc = "remove" /\ job.left = {} /\ job.current = None
    /\ receipt' = [receipt EXCEPT !["apply"] =
          Receipt(IF job.errors THEN "partial_failure" ELSE "complete",
                  job.planned, job.removed)]
    /\ job' = None
    /\ UNCHANGED <<disk, index, gitUp, clock, writes, runs, removals>>

\* The reaper dies, or a receipt cannot be written.
Crash ==
    /\ job # None
    /\ job' = None
    /\ UNCHANGED <<disk, index, gitUp, clock, writes, receipt, runs, removals>>

-----------------------------------------------------------------------------
(* The rest of the system, which takes no lock the reaper knows of. *)

\* A write to f between two looks of the reaper at it.
Raced(f) ==
    IF job = None THEN None
    ELSE [job EXCEPT !.raced = @ \/ (job.current # None /\ job.current.file = f),
                     !.look = IF @ # None /\ job.look.file = f
                              THEN [@ EXCEPT !.raced = TRUE] ELSE @]

\* A pool's writer creates or replaces a file.
Write(f) ==
    /\ writes < MaxWrites
    /\ \E k \in Kinds, d \in Contents :
          disk' = [disk EXCEPT ![f] = [kind |-> k, ino |-> writes + 1,
                                       mtime |-> clock, content |-> d]]
    /\ writes' = writes + 1
    /\ job' = Raced(f)
    /\ UNCHANGED <<index, gitUp, clock, receipt, runs, removals>>

\* Another process deletes a file: delivered digests, packed rescues, markers.
Delete(f) ==
    /\ writes < MaxWrites
    /\ disk[f] # None
    /\ disk' = [disk EXCEPT ![f] = None]
    /\ writes' = writes + 1
    /\ job' = IF job = None THEN None ELSE [job EXCEPT !.gone = @ \cup {f}]
    /\ UNCHANGED <<index, gitUp, clock, receipt, runs, removals>>

\* An in-place copy that keeps inode, size and timestamp.
Overwrite(f) ==
    /\ writes < MaxWrites
    /\ disk[f] # None /\ disk[f].kind = "file"
    /\ \E d \in Contents \ {disk[f].content} :
          disk' = [disk EXCEPT ![f].content = d]
    /\ writes' = writes + 1
    /\ job' = Raced(f)
    /\ UNCHANGED <<index, gitUp, clock, receipt, runs, removals>>

\* git add, git rm, a checkout; or git stops answering.
GitChanges ==
    /\ writes < MaxWrites
    /\ writes' = writes + 1
    /\ index' \in SUBSET Contents
    /\ gitUp' \in BOOLEAN
    /\ job' = IF job = None THEN None ELSE [job EXCEPT !.seen = @ \cup index']
    /\ UNCHANGED <<disk, clock, receipt, runs, removals>>

Tick ==
    /\ clock < MaxClock
    /\ clock' = clock + 1
    /\ UNCHANGED <<disk, index, gitUp, writes, job, receipt, runs, removals>>

Next ==
    \/ \E m \in Modes : Start(m)
    \/ ListPool \/ HashRescued \/ Fingerprint \/ PlanRaises \/ PlanCategory
    \/ Planning /\ job.listed # None /\ \E l \in job.listed : LookAt(l)
    \/ PublishPlan \/ Verify \/ Unlink \/ Finish \/ Crash
    \/ \E f \in Files : Write(f) \/ Delete(f) \/ Overwrite(f)
    \/ GitChanges \/ Tick

Spec == Init /\ [][Next]_vars

-----------------------------------------------------------------------------
(* Properties. *)

\* The state keeps its shape.
ReaperTypeOK ==
    /\ disk \in [Files -> FileRecords \cup {None}]
    /\ index \subseteq Contents /\ gitUp \in BOOLEAN
    /\ clock \in 0..MaxClock /\ writes \in 0..MaxWrites /\ runs \in 0..MaxRuns
    /\ \A m \in Modes : receipt[m] # None =>
          /\ receipt[m].status \in {"planning", "planning_failure", "in_progress",
                                    "complete", "partial_failure"}
          /\ receipt[m].removed \subseteq receipt[m].planned

\* A reaper that fired never looks like one that did not (main publishes before
\* it removes): whatever the latest run removed, also when it was killed, the
\* apply receipt is that run's, its plan names the file, and a final receipt
\* lists exactly the files that went.
FiredIsVisible ==
    LET mine == {r.file : r \in {q \in removals : q.run = runs}} IN
    mine # {} =>
        /\ receipt["apply"] # None
        /\ receipt["apply"].run = runs
        /\ receipt["apply"].status \in {"in_progress", "complete", "partial_failure"}
        /\ mine \subseteq receipt["apply"].planned
        /\ receipt["apply"].status # "in_progress" => mine = receipt["apply"].removed

\* A file rewritten after the plan was made keeps its grace period: what goes
\* was a regular file, older than its pool's age at the run's start, unless it
\* was rewritten between the look at its age and its fingerprint, or between
\* its verification and its unlink; the code has these two windows.
OnlyExpiredGo ==
    \A r \in removals : ~ r.raced =>
        /\ r.was.kind = "file"
        /\ CategoryOf[r.file] = Notes   => r.was.mtime + ReceiptDays <= r.at
        /\ CategoryOf[r.file] = Markers => r.was.mtime + MarkerDays <= r.at
        /\ CategoryOf[r.file] = Markers => r.file \notin Structural
        /\ CategoryOf[r.file] = Rescued => r.was.mtime + RescueDays <= r.at

\* The step is the reaper's unlink of f.
Reaped(f) ==
    /\ job # None /\ disk[f] # None /\ disk'[f] = None
    /\ job.current # None /\ job.current.file = f /\ job'.current = None

\* The floors survive writers that run beside the removals: when the reaper
\* takes a receipt or a snapshot, the pool still holds its floor of files, each
\* at least as new as the removed one was when the pool was listed, but for
\* those another process deleted since the run began.
FloorIsHeld ==
    \A f \in Files :
       Reaped(f) =>
           LET c == CategoryOf[f]
               kept == {g \in Files \ {f} :
                          /\ CategoryOf[g] = c
                          /\ \/ g \in job.gone
                             \/ disk[g] # None /\ disk[g].mtime >= job.current.mtime}
           IN /\ c = Notes     => Cardinality(kept) >= NotificationKeep
              /\ c = Snapshots => Cardinality(kept) >= SnapshotKeep

\* A rescued artifact goes only if the very bytes that go were in the Git index
\* at some moment of the run (plan_rescue, verify_candidate): an in-place copy
\* that keeps size and timestamp is caught by the second hash.  A file written
\* between its verification and its unlink is not looked at again.
RescueWasTracked ==
    \A f \in Files :
       Reaped(f) /\ CategoryOf[f] = Rescued /\ ~ job.raced
           => disk[f].content \in job.seen

=============================================================================
