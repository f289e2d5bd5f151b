---------------------------- MODULE DispatchLog ----------------------------
(***************************************************************************)
(* scripts/python/dispatch_log.py and the senders it shares the dispatch   *)
(* log with (bin/send-task.sh): a sender registers a delivery under the    *)
(* registry lock and appends its row after releasing it; the telemetry     *)
(* updater stamps a skill count on a row by replacing the whole file; the  *)
(* retention sweep expires old worker transcripts.                         *)
(*                                                                         *)
(* A sender is one run of send-task.sh and names the attempt it makes.     *)
(* ino numbers the replacements of the file: a row written through a       *)
(* descriptor opened before a replacement goes to a file nobody reads.     *)
(***************************************************************************)
EXTENDS Naturals, Sequences, FiniteSets

CONSTANTS Tasks, Senders,
          TaskOf,        \* sender -> the task it sends
          Updaters,
          MaxUpdates,    \* bound of the model: telemetry updates
          None

DispatchLogAssumption ==
    TaskOf \in [Senders -> Tasks] /\ MaxUpdates \in Nat

VARIABLES reg,         \* task -> registry row: status, delivery state, attempt
          lock,        \* holder of active-tasks.json.lock, or None
          log, ino,    \* rows of dispatch-log.jsonl, and which file it is
          sender,      \* sender -> its progress and the file it opened
          transcript,  \* attempt -> "none", "recent", "old", "gone"
          updater,     \* record-skills processes
          sweep,       \* the retention sweep, or None
          updates,
          written      \* history: rows written, with whether the delivery
                       \* was still registered as queued

vars == <<reg, lock, log, ino, sender, transcript, updater, sweep, updates, written>>

Resting == [pc |-> "idle"]
LIVE_STATUSES == {"in-flight"}
\* Statuses from which a task still has to move.
Nonterminal == {"in-flight", "review-required"}

Queued(s) == [status |-> "in-flight", delivery |-> "queued", attempt |-> s]

Init ==
    /\ reg = [t \in Tasks |-> [status |-> "absent", delivery |-> "none", attempt |-> None]]
    /\ lock = None
    /\ log = <<>> /\ ino = 0
    /\ sender = [s \in Senders |-> [pc |-> "none", ino |-> 0]]
    /\ transcript = [s \in Senders |-> "none"]
    /\ updater = [u \in Updaters |-> Resting]
    /\ sweep = None
    /\ updates = 0
    /\ written = {}

-----------------------------------------------------------------------------
(* The senders. *)

\* --register-task, under the registry lock; sending the same task again
\* registers nothing and goes on.
Register(s) ==
    /\ lock = None
    /\ sender[s].pc = "none"
    /\ reg' = IF reg[TaskOf[s]].status = "absent"
              THEN [reg EXCEPT ![TaskOf[s]] = Queued(s)] ELSE reg
    /\ sender' = [sender EXCEPT ![s].pc = "registered"]
    /\ UNCHANGED <<lock, log, ino, transcript, updater, sweep, updates, written>>

\* The shell opens the log for appending ...
OpenLog(s) ==
    /\ sender[s].pc = "registered"
    /\ sender' = [sender EXCEPT ![s] = [pc |-> "opened", ino |-> ino]]
    /\ UNCHANGED <<reg, lock, log, ino, transcript, updater, sweep, updates, written>>

\* ... and printf writes the row.
AppendRow(s) ==
    /\ sender[s].pc = "opened"
    /\ log' = IF sender[s].ino = ino
              THEN Append(log, [task |-> TaskOf[s], sender |-> s, skills |-> FALSE])
              ELSE log
    /\ sender' = [sender EXCEPT ![s].pc = "appended"]
    /\ written' = written \cup {[sender |-> s, queued |-> reg[TaskOf[s]] = Queued(s)]}
    /\ UNCHANGED <<reg, lock, ino, transcript, updater, sweep, updates>>

\* A sender is killed before its append; its entry stays queued.
SenderKilled(s) ==
    /\ sender[s].pc \in {"registered", "opened"}
    /\ sender' = [sender EXCEPT ![s].pc = "done"]
    /\ UNCHANGED <<reg, lock, log, ino, transcript, updater, sweep, updates, written>>

\* The claim of the queued delivery, after which the worker's log exists; a
\* sender whose attempt is not the registered one dies, and its die handler
\* cancels a delivery that is still queued, whoever made it.
Claim(s) ==
    /\ lock = None
    /\ sender[s].pc = "appended"
    /\ sender' = [sender EXCEPT ![s].pc = "done"]
    /\ LET t == TaskOf[s] IN
       IF reg[t] = Queued(s)
       THEN /\ reg' = [reg EXCEPT ![t].delivery = "in-progress"]
            /\ transcript' = [transcript EXCEPT ![s] = "recent"]
       ELSE /\ reg' = IF reg[t].status = "in-flight" /\ reg[t].delivery = "queued"
                      THEN [reg EXCEPT ![t].status = "cancelled",
                                       ![t].delivery = "terminal"]
                      ELSE reg
            /\ UNCHANGED transcript
    /\ UNCHANGED <<lock, log, ino, updater, sweep, updates, written>>

\* The reconciler or the operator ends a delivery.
Settle(t) ==
    /\ lock = None
    /\ reg[t].status \in Nonterminal
    /\ \E st \in {"review-required", "complete", "cancelled"} \ {reg[t].status} :
          /\ st # "cancelled" => reg[t].delivery # "queued"
          /\ reg' = [reg EXCEPT ![t].status = st, ![t].delivery = "terminal"]
    /\ UNCHANGED <<lock, log, ino, sender, transcript, updater, sweep, updates, written>>

-----------------------------------------------------------------------------
(* record-skills. *)

\* The watcher saw a response: the transcript of the task's attempt is counted;
\* one that is gone is refused, never counted as zero.
Measure(u, s) ==
    /\ updater[u].pc = "idle" /\ updates < MaxUpdates
    /\ transcript[s] # "none"
    /\ updates' = updates + 1
    /\ updater' = IF transcript[s] = "gone" THEN updater
                  ELSE [updater EXCEPT ![u] = [pc |-> "measured", task |-> TaskOf[s]]]
    /\ UNCHANGED <<reg, lock, log, ino, sender, transcript, sweep, written>>

\* The deliveries whose row must be in the log before it may be replaced.
Required ==
    {t \in Tasks : reg[t].status = "in-flight" /\ reg[t].delivery = "queued"}

RowsOf(rows, t) == {k \in 1..Len(rows) : rows[k].task = t}

TakeLock(u) ==
    /\ updater[u].pc = "measured"
    /\ lock = None
    /\ lock' = u
    /\ updater' = [updater EXCEPT ![u].pc = "wait"]
    /\ UNCHANGED <<reg, log, ino, sender, transcript, sweep, updates, written>>

\* _wait_for_registered_appends: a row for the one generation every delivery
\* has.  The registry cannot change while the lock is held; the file is read
\* here.
Drained(u) ==
    /\ updater[u].pc = "wait"
    /\ \A t \in Required : Cardinality(RowsOf(log, t)) >= 1
    /\ updater' = [updater EXCEPT ![u] =
          [pc |-> "replace", task |-> @.task, before |-> log]]
    /\ UNCHANGED <<reg, lock, log, ino, sender, transcript, sweep, updates, written>>

\* The deadline passes, or another reason makes the update fail.
TimesOut(u) ==
    /\ updater[u].pc = "wait"
    /\ updater' = [updater EXCEPT ![u] = Resting]
    /\ lock' = None
    /\ UNCHANGED <<reg, log, ino, sender, transcript, sweep, updates, written>>

\* The newest row of the task receives the count; the others keep their bytes.
Rendered(rows, t) ==
    LET last == CHOOSE k \in RowsOf(rows, t) : \A h \in RowsOf(rows, t) : k >= h
    IN [rows EXCEPT ![last].skills = TRUE]

\* The rewritten file replaces the log, unless nothing changes or the task has
\* no row.
Replace(u) ==
    /\ updater[u].pc = "replace"
    /\ LET rows == updater[u].before
           t == updater[u].task
       IN IF RowsOf(rows, t) # {} /\ Rendered(rows, t) # rows
          THEN log' = Rendered(rows, t) /\ ino' = ino + 1
          ELSE UNCHANGED <<log, ino>>
    /\ updater' = [updater EXCEPT ![u] = Resting]
    /\ lock' = None
    /\ UNCHANGED <<reg, sender, transcript, sweep, updates, written>>

-----------------------------------------------------------------------------
(* enforce_transcript_retention. *)

\* The registry and the descriptors are read once.
SweepStart ==
    /\ sweep = None
    /\ \E s \in Senders : transcript[s] = "old"
    /\ sweep' = [status |-> [t \in Tasks |-> reg[t].status],
                 left |-> {s \in Senders : transcript[s] # "none"}]
    /\ UNCHANGED <<reg, lock, log, ino, sender, transcript, updater, updates, written>>


Expires(s) ==
    /\ transcript[s] = "old"
    /\ sweep.status[TaskOf[s]] \notin LIVE_STATUSES

SweepOne(s) ==
    /\ sweep # None /\ s \in sweep.left
    /\ transcript' = IF Expires(s) THEN [transcript EXCEPT ![s] = "gone"] ELSE transcript
    /\ sweep' = IF sweep.left = {s} THEN None ELSE [sweep EXCEPT !.left = @ \ {s}]
    /\ UNCHANGED <<reg, lock, log, ino, sender, updater, updates, written>>

\* Thirty days pass without a write to a transcript.
Ages(s) ==
    /\ transcript[s] = "recent"
    /\ transcript' = [transcript EXCEPT ![s] = "old"]
    /\ UNCHANGED <<reg, lock, log, ino, sender, updater, sweep, updates, written>>

Next ==
    \/ \E t \in Tasks : Settle(t)
    \/ \E s \in Senders : \/ Register(s) \/ OpenLog(s) \/ AppendRow(s)
                          \/ SenderKilled(s) \/ Claim(s)
                          \/ SweepOne(s) \/ Ages(s)
    \/ \E u \in Updaters : \/ TakeLock(u) \/ Drained(u) \/ TimesOut(u) \/ Replace(u)
                           \/ \E s \in Senders : Measure(u, s)
    \/ SweepStart

Spec == Init /\ [][Next]_vars

\* The updater is a running process with a monotonic deadline.
UpdaterRuns(u) == Drained(u) \/ TimesOut(u) \/ Replace(u)
FairSpec == Spec /\ \A u \in Updaters : WF_vars(UpdaterRuns(u))

-----------------------------------------------------------------------------
(* Properties. *)

\* The state keeps its shape.
DispatchLogTypeOK ==
    /\ \A k \in 1..Len(log) : log[k] \in [task: Tasks, sender: Senders, skills: BOOLEAN]
    /\ transcript \in [Senders -> {"none", "recent", "old", "gone"}]
    /\ lock # None => updater[lock].pc \in {"wait", "replace"}

InLog(s) == \E k \in 1..Len(log) : log[k].sender = s

\* _wait_for_registered_appends: a row that was written while its delivery was
\* queued is in the log after every replacement.  It counts rows of the task,
\* not of the attempt, so the row of another send of the same task, which
\* registers nothing, lets a replacement through in its place: then that row
\* is there, and a queued delivery is never without one.
QueuedRowsSurvive ==
    \A w \in written : w.queued =>
        \/ InLog(w.sender)
        \/ \E s \in Senders \ {w.sender} : TaskOf[s] = TaskOf[w.sender] /\ InLog(s)

\* A measured run keeps its count: no later update of another run undoes it
\* (update_dispatch_log).
StampsSurvive ==
    \A k \in 1..Len(log) :
       log[k].skills => \E h \in 1..Len(log') : log'[h] = log[k]

\* The transcript of the attempt that is in flight is never expired, although
\* the sweep reads the registry once and removes later.
InFlightIsKept ==
    \A s \in Senders :
       (transcript[s] = "old" /\ transcript'[s] = "gone")
           => ~ (reg[TaskOf[s]].status = "in-flight" /\ reg[TaskOf[s]].attempt = s)

=============================================================================
