----------------------- MODULE CoordinationMigration -----------------------
(***************************************************************************)
(* migrate_untriggered_needs_review of                                     *)
(* scripts/python/registry_reconciler.py: a dry run shows a plan, apply    *)
(* carries out exactly that plan on two files that are written one after   *)
(* the other (queue, then registry), and a rollback undoes it from what    *)
(* each entry recorded.  Both files are locked throughout; what is not     *)
(* covered by a lock is the time between the dry run and the apply, a      *)
(* failing write, and a crash between the two.                             *)
(***************************************************************************)
EXTENDS Naturals, Sequences, FiniteSets

CONSTANTS Tasks,
          Declared,    \* tasks whose packet declares a review
          MaxAppends,  \* queue lines other writers add
          MaxEdits,    \* registry changes other writers make
          MaxFaults,   \* failing writes and crashes
          None

VARIABLES reg,      \* task -> its registry entry
          queue,    \* the lines of the Chrono queue
          lock,     \* the command is inside both locks
          op,       \* the running command
          plan,     \* the digest a dry run printed, or None
          applied,  \* digests of the migrations that were applied, with the
                    \* entries and the lines they replaced
          appends, edits, faults

vars == <<reg, queue, lock, op, plan, applied, appends, edits, faults>>

Idle == [pc |-> "idle", kind |-> None, reg |-> None, queue |-> None,
         oldReg |-> None, oldQueue |-> None, plan |-> None]
Line(t, status, id) == [task |-> t, status |-> status, id |-> id]

Init == /\ reg \in [Tasks -> {[status |-> s, requested |-> FALSE, edit |-> 0, mig |-> None]
                               : s \in {"needs_review", "blocked"}}]
        /\ queue \in UNION {[1..n -> {Line(t, "needs_review", 0) : t \in Tasks}]
                              : n \in 0..Cardinality(Tasks)}
        /\ lock = FALSE /\ op = Idle /\ plan = None /\ applied = {}
        /\ appends = 0 /\ edits = 0 /\ faults = 0

(***************************************************************************)
(* The plan.                                                               *)
(***************************************************************************)

\* The queue lines of t the plan may be about.
Rows(t) == {i \in DOMAIN queue :
              queue[i].task = t /\ queue[i].status \in {"needs_review", "COORDINATION"}}

Candidates == {t \in Tasks : reg[t].status = "needs_review" /\ t \notin Declared}

Plannable == \A t \in Candidates : Cardinality(Rows(t)) = 1

RowOf(t) == CHOOSE i \in Rows(t) : TRUE

\* The digest names each candidate, its entry, and its line before and after:
\* the same whether or not the line was already published.
MigrationPlan ==
  {[task |-> t, entry |-> reg[t],
    before |-> [queue[RowOf(t)] EXCEPT !.status = "needs_review"]] : t \in Candidates}

Members(id) == {t \in Tasks : reg[t].mig # None /\ reg[t].mig.plan = id}

\* The lines a member's rollback may find: the migrated one or, after a crash
\* between the two writes of an earlier rollback, the original one.
RollbackRows(t) == {i \in DOMAIN queue : queue[i] = reg[t].mig.before
                      \/ queue[i] = [reg[t].mig.before EXCEPT !.status = "COORDINATION"]}

Unchanged(t) == reg[t].status = "complete" /\ reg[t].requested

RollbackPlannable(id) ==
  /\ Members(id) # {}
  /\ \A t \in Members(id) : Unchanged(t) /\ Cardinality(RollbackRows(t)) = 1

(***************************************************************************)
(* Dry run, apply and rollback up to the first write.                      *)
(***************************************************************************)
DryRun ==
  /\ ~lock /\ Plannable /\ MigrationPlan # {}
  /\ plan' = MigrationPlan
  /\ UNCHANGED <<reg, queue, lock, op, applied, appends, edits, faults>>

\* The entries and the lines after an apply of the present plan.
MigratedEntry(t) ==
  [reg[t] EXCEPT !.status = "complete", !.requested = TRUE,
     !.mig = [plan |-> plan, prior |-> reg[t],
              before |-> [queue[RowOf(t)] EXCEPT !.status = "needs_review"]]]

PlanMatches == MigrationPlan = plan

Apply ==
  /\ ~lock /\ plan # None /\ Plannable /\ PlanMatches /\ Candidates # {}
  /\ lock' = TRUE
  /\ op' = [pc |-> "queue", kind |-> "apply", oldReg |-> reg, oldQueue |-> queue,
            plan |-> plan,
            reg |-> [t \in Tasks |-> IF t \in Candidates THEN MigratedEntry(t) ELSE reg[t]],
            queue |-> [i \in DOMAIN queue |->
                         IF \E t \in Candidates : i = RowOf(t)
                         THEN [queue[i] EXCEPT !.status = "COORDINATION"] ELSE queue[i]]]
  /\ UNCHANGED <<reg, queue, plan, applied, appends, edits, faults>>

Rollback(id) ==
  /\ ~lock /\ RollbackPlannable(id)
  /\ lock' = TRUE
  /\ op' = [pc |-> "queue", kind |-> "rollback", oldReg |-> reg, oldQueue |-> queue,
            plan |-> id,
            reg |-> [t \in Tasks |-> IF t \in Members(id)
                       THEN [reg[t] EXCEPT !.status = reg[t].mig.prior.status,
                               !.requested = FALSE, !.mig = None]
                       ELSE reg[t]],
            queue |-> [i \in DOMAIN queue |->
                         IF \E t \in Members(id) : i \in RollbackRows(t)
                         THEN [queue[i] EXCEPT !.status = "needs_review"] ELSE queue[i]]]
  /\ UNCHANGED <<reg, queue, plan, applied, appends, edits, faults>>

(***************************************************************************)
(* _commit_registry_and_queue.                                             *)
(***************************************************************************)
Fails == faults < MaxFaults /\ faults' = faults + 1

WriteQueue ==
  /\ op.pc = "queue"
  /\ \/ queue' = op.queue /\ op' = [op EXCEPT !.pc = "registry"] /\ faults' = faults
     \/ Fails /\ queue' = queue /\ op' = [op EXCEPT !.pc = "undo-registry"]
  /\ UNCHANGED <<reg, lock, plan, applied, appends, edits>>

WriteRegistry ==
  /\ op.pc = "registry"
  /\ \/ /\ reg' = op.reg /\ op' = Idle /\ lock' = FALSE /\ faults' = faults
        /\ applied' = IF op.kind = "apply" THEN applied \cup {op.plan}
                                           ELSE applied \ {op.plan}
     \/ Fails /\ UNCHANGED <<reg, lock, applied>> /\ op' = [op EXCEPT !.pc = "undo-registry"]
  /\ UNCHANGED <<queue, plan, appends, edits>>

UndoRegistry ==
  /\ op.pc = "undo-registry"
  /\ \/ reg' = op.oldReg /\ faults' = faults
     \/ Fails /\ reg' = reg
  /\ op' = [op EXCEPT !.pc = "undo-queue"]
  /\ UNCHANGED <<queue, lock, plan, applied, appends, edits>>

UndoQueue ==
  /\ op.pc = "undo-queue"
  /\ \/ queue' = op.oldQueue /\ faults' = faults
     \/ Fails /\ queue' = queue
  /\ op' = Idle /\ lock' = FALSE
  /\ UNCHANGED <<reg, plan, applied, appends, edits>>

Crash ==
  /\ op.pc # "idle" /\ Fails
  /\ op' = Idle /\ lock' = FALSE
  /\ UNCHANGED <<reg, queue, plan, applied, appends, edits>>

(***************************************************************************)
(* Other writers, each under its own file's lock.                          *)
(***************************************************************************)

AppendLine(t) ==
  /\ ~lock /\ appends < MaxAppends
  /\ appends' = appends + 1
  /\ queue' = Append(queue, Line(t, "complete", appends + 1))
  /\ UNCHANGED <<reg, lock, op, plan, applied, edits, faults>>

\* A sweep touches an entry; a review declared later is a status change.
EditEntry(t, status) ==
  /\ ~lock /\ edits < MaxEdits
  /\ edits' = edits + 1
  /\ reg' = [reg EXCEPT ![t].edit = @ + 1, ![t].status = status]
  /\ UNCHANGED <<queue, lock, op, plan, applied, appends, faults>>

Next == \/ DryRun \/ Apply
        \/ \E id \in applied : Rollback(id)
        \/ WriteQueue \/ WriteRegistry \/ UndoRegistry \/ UndoQueue \/ Crash
        \/ \E t \in Tasks : AppendLine(t)
        \/ \E t \in Tasks : \E s \in {reg[t].status, "closed"} : EditEntry(t, s)

Spec == Init /\ [][Next]_vars

\* The command itself runs to its end, and the operator repeats an apply that
\* is still possible.
Command == WriteQueue \/ WriteRegistry \/ UndoRegistry \/ UndoQueue
FairSpec == Spec /\ WF_vars(Command) /\ SF_vars(Apply)

(***************************************************************************)
(* Properties.                                                             *)
(***************************************************************************)
\* The shape of the state: the locks are held by the command that writes, and
\* an entry's migration record belongs to an applied plan.
MigrationTypeOK ==
  /\ lock <=> op.pc # "idle"
  /\ \A t \in Tasks : reg[t].mig # None => reg[t].mig.plan \in applied

\* apply --apply-plan-sha256: an entry is migrated only as the printed plan
\* showed it, although sweeps and appends run between the two commands.
MigratesWhatWasShown ==
  \A t \in Tasks : reg[t].mig # None /\ reg[t].status = "complete" =>
    \E item \in reg[t].mig.plan :
      /\ item.task = t /\ item.entry = reg[t].mig.prior
      /\ item.before = reg[t].mig.before

\* _build_coordination_rollback_plan: whatever write failed or crash came
\* between, a migration whose entries nobody touched can be rolled back: each
\* has exactly one of its two lines.
RollbackStaysPossible ==
  ~lock => \A t \in Tasks : reg[t].mig # None /\ Unchanged(t)
                             => Cardinality(RollbackRows(t)) = 1

\* _build_coordination_migration_plan: a crash between the two writes leaves
\* the printed plan valid, so that repeating the apply completes it.
CrashKeepsPlan ==
  ~lock /\ plan # None /\ Plannable
    /\ Candidates = {item.task : item \in plan}
    /\ (\A item \in plan : reg[item.task] = item.entry)
    => PlanMatches

\* The queue lock is held over both writes and the restore: a line another
\* writer appended is never lost.
AppendsSurvive ==
  \A n \in 1..appends : \E i \in DOMAIN queue : queue[i].id = n

\* The rollback restores entry and line from the entry's own record: what it
\* changes back is what the plan had found, other writers' changes stay.
RollbackRestores ==
  op.pc = "registry" /\ op.kind = "rollback" /\ reg' # reg =>
    \A t \in Members(op.plan) :
      /\ reg'[t].edit = reg[t].edit /\ reg'[t].mig = None
      /\ \E item \in op.plan : /\ item.task = t
                               /\ reg'[t].status = item.entry.status
                               /\ \E i \in DOMAIN queue : queue[i] = item.before

\* A plan whose entries are as it found them, and a manifest line that is published.
AsPlanned == /\ plan # None /\ Candidates = {item.task : item \in plan}
             /\ \A item \in plan : reg[item.task] = item.entry
Published == \E i \in DOMAIN queue : queue[i].status = "COORDINATION"
=============================================================================
