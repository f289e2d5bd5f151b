----------------------------- MODULE Settlement -----------------------------
(***************************************************************************)
(* Settlement of the active-task registry (scripts/python/                 *)
(* registry_reconciler.py): one registry row per task, the sweep that       *)
(* settles rows from what is on disk, and the controller's commands         *)
(* (--settle-review, --repair-envelope, --reopen, --close-task).            *)
(*                                                                         *)
(* The files the rows are settled from are written by other processes that  *)
(* do not hold the registry lock: the outbox response, the terminal board   *)
(* receipt, the dispatch descriptor and the return artifact.  This module   *)
(* leaves those writers open: any file may appear or change between any two *)
(* steps.  Board.tla closes the system with the real writers.               *)
(*                                                                         *)
(* Every registry operation runs under one exclusive flock.  A pass of the  *)
(* sweep over a row is two steps, because it reads the receipt once to      *)
(* decide whether it preempts the response and reads the files again when   *)
(* it settles; writers may act in between, other registry operations not.   *)
(***************************************************************************)
EXTENDS FiniteSets

CONSTANTS
    Tasks,             \* task ids
    ResponseStatuses,  \* statuses a response file may carry
    ReceiptOutcomes    \* terminal outcomes a board receipt may carry

Settleable == {"complete", "needs_review", "blocked", "needs_human", "cancelled"}
LifecycleClosed == {"superseded", "closed"}
Statuses == Settleable \cup LifecycleClosed \cup
    {"absent", "in-flight", "review-required", "work-done-no-envelope", "needs_rework"}

(* "none": no review declared.  "exempt": a typed terminal-review contract, *)
(* declared but not pending.  "held": mandatory review by a valid distinct  *)
(* lane.  "malformed": mandatory review whose lanes or class are unusable.  *)
ReviewKinds == {"none", "exempt", "held", "malformed"}

\* "quarantine" is a needs_review outcome that carries the whole controller fence.
AllOutcomes == {"complete", "needs_review", "needs_human", "blocked", "cancelled",
                "failed", "denied", "quarantine"}

ASSUME ResponseStatusesAssumption == ResponseStatuses \subseteq Settleable \cup {"invalid"}
ASSUME ReceiptOutcomesAssumption == ReceiptOutcomes \subseteq AllOutcomes

VARIABLES
    entry,       \* the registry row of each task
    pass,        \* settlement rail of an open sweep pass over a row, "none" if closed
    response,    \* the outbox response file
    receipt,     \* the terminal board receipt, written once
    descriptor,  \* the dispatch descriptor exists
    artifact     \* the file at the return_artifact path

files == <<response, receipt, descriptor, artifact>>
svars == <<entry, pass, response, receipt, descriptor, artifact>>

Markers == {"none", "controller", "chrono-reopened"}
Dispositions == {"none", "not-required", "read-only-verdict-exemption",
                 "transport-quarantine-not-required"}

Entries == [status: Statuses,
            review: ReviewKinds,
            delivery: {"queued", "in-progress", "terminal"},
            started: BOOLEAN,       \* delivery_history holds the board in-progress row
            marker: Markers,        \* review_settled_by
            verdict: {"none", "APPROVE", "other"},
            disposition: Dispositions,
            closedBy: {"none", "auto", "explicit"},
            repaired: BOOLEAN]      \* envelope_repaired_by = chrono-explicit

Responses == [st: Settleable \cup {"invalid", "absent"},
              fenced: BOOLEAN,                \* echoes id, attempt and generation
              issue: {"none", "pin", "hash"}, \* capability/worker pin, declared hash
              quarantined: BOOLEAN]           \* controller quarantine marker in the body

NoResponse == [st |-> "absent", fenced |-> FALSE, issue |-> "none", quarantined |-> FALSE]

NoEntry == [status |-> "absent", review |-> "none", delivery |-> "queued",
            started |-> FALSE, marker |-> "none", verdict |-> "none",
            disposition |-> "none", closedBy |-> "none", repaired |-> FALSE]

TypeOK ==
    /\ entry \in [Tasks -> Entries]
    /\ pass \in [Tasks -> {"none", "v1", "v2", "v2-preempted", "invalid"}]
    /\ response \in [Tasks -> Responses]
    /\ receipt \in [Tasks -> AllOutcomes \cup {"none"}]
    /\ descriptor \in [Tasks -> BOOLEAN]
    /\ artifact \in [Tasks -> {"none", "stub", "work"}]

Init ==
    /\ entry = [t \in Tasks |-> NoEntry]
    /\ pass = [t \in Tasks |-> "none"]
    /\ response = [t \in Tasks |-> NoResponse]
    /\ receipt = [t \in Tasks |-> "none"]
    /\ descriptor = [t \in Tasks |-> FALSE]
    /\ artifact = [t \in Tasks |-> "none"]

-----------------------------------------------------------------------------
(* What the reconciler derives from a row and the files.                   *)

RegistryFree == \A t \in Tasks : pass[t] = "none"

Declares(t) == entry[t].review # "none"

ReviewPending(t) == entry[t].review \in {"held", "malformed"}

(* A queued row without a descriptor is on the v1 rail; a started row       *)
(* without a descriptor, or a v2 descriptor without a start, is on neither. *)
Schema(t) == CASE entry[t].started /\ descriptor[t]   -> "v2"
               [] ~entry[t].started /\ ~descriptor[t] -> "v1"
               [] OTHER                               -> "invalid"

Candidate(t, rail) == rail \in {"v1", "v2"} /\ response[t].st # "absent"

Landed(t, rail) ==
    /\ Candidate(t, rail)
    /\ response[t].st \in Settleable
    /\ rail = "v2" => response[t].fenced

\* Mutant: a cancelled receipt is no receipt of the attempt.
ReceiptFencedUnlessCancelled(t, rail) ==
    rail \in {"v2", "v2-preempted"} /\ receipt[t] \notin {"none", "cancelled"}
ReceiptFenced(t, rail) == rail \in {"v2", "v2-preempted"} /\ receipt[t] # "none"

Quarantine(t) == receipt[t] = "quarantine"

\* Mutant: the receipt's own status, not failed closed.
ReceiptStatusRaw(t) == receipt[t]
\* failed, denied and the raw quarantine candidate fail closed to blocked
ReceiptStatus(t) ==
    IF receipt[t] \in {"failed", "denied", "quarantine"} THEN "blocked" ELSE receipt[t]

\* A worker cannot create review debt the packet did not declare.
ResolveWorkerStatus(t, st) ==
    IF st = "needs_review" /\ ~Declares(t) THEN "complete" ELSE st

\* Mutant: only an approving settlement counts as one.
ExplicitlySettledIfApproved(t) ==
    entry[t].status = "complete" /\ entry[t].marker = "controller" /\ entry[t].verdict = "APPROVE"
ExplicitlySettled(t) ==
    entry[t].status = "complete" /\ entry[t].marker = "controller"

\* Mutant: only a quarantine holds the row.
HoldRequiredOnQuarantine(t, quarantine) == quarantine /\ Declares(t)
HoldRequired(t, quarantine) == (quarantine /\ Declares(t)) \/ ReviewPending(t)

\* Terminal delivery and the disposition a settled status records.
MarkDeliveryTerminal(e) == [e EXCEPT !.delivery = "terminal"]

\* mark_delivery_terminal retires a blocked stub only when it makes the delivery terminal
StubRetired(t) ==
    IF entry[t].delivery # "terminal" /\ artifact[t] = "stub"
    THEN [artifact EXCEPT ![t] = "none"] ELSE artifact
StubReleased(S) ==
    [t \in Tasks |-> IF t \in S /\ artifact[t] = "stub" THEN "none" ELSE artifact[t]]

Held(e) == [MarkDeliveryTerminal(e) EXCEPT !.status = "review-required"]

Settled(e, st, disposition) ==
    [MarkDeliveryTerminal(e) EXCEPT
        !.status = st,
        !.disposition = IF st = "complete" THEN disposition ELSE @]

-----------------------------------------------------------------------------
(* The sweep: reconcile().  Scan opens a pass over one row.                 *)

QuarantineAlreadySettled(t) ==
    /\ Quarantine(t) /\ ~Declares(t)
    /\ entry[t].disposition = "transport-quarantine-not-required"

(* A blocked or complete row with a fenced receipt is held, completed as a  *)
(* transport quarantine, or closed for good.                                *)
ReceiptClosable(t) ==
    /\ entry[t].status \in {"blocked", "complete"}
    /\ ~ExplicitlySettled(t)
    /\ ReceiptFenced(t, Schema(t))
    /\ ~QuarantineAlreadySettled(t)
    /\ ReceiptStatus(t) \in {"blocked", "complete"}

\* Mutant: any receipt closes the row.
AutoCloseAnyReceipt(t) ==
    /\ entry' = [entry EXCEPT ![t] =
                    [MarkDeliveryTerminal(@) EXCEPT !.status = "closed", !.closedBy = "auto"]]
    /\ artifact' = StubReleased({t})
AutoClose(t) ==
    /\ ~HoldRequired(t, Quarantine(t))
    /\ ~Quarantine(t)
    /\ entry' = [entry EXCEPT ![t] =
                    [MarkDeliveryTerminal(@) EXCEPT !.status = "closed", !.closedBy = "auto"]]
    /\ artifact' = StubReleased({t})

ReconcileClose(t) ==
    /\ RegistryFree /\ ReceiptClosable(t)
    /\ \/ /\ HoldRequired(t, Quarantine(t))
          /\ entry' = [entry EXCEPT ![t] = Held(@)]
          /\ artifact' = StubRetired(t)
       \/ /\ ~HoldRequired(t, Quarantine(t)) /\ Quarantine(t)
          /\ entry' = [entry EXCEPT ![t] =
                          Settled(@, "complete", "transport-quarantine-not-required")]
          /\ artifact' = StubRetired(t)
       \/ AutoClose(t)
    /\ UNCHANGED <<pass, response, receipt, descriptor>>

\* Mutant: a needs_review row is open whoever reviewed it.
OpenToReconcileAnyReview(t) ==
    entry[t].status \in {"in-flight", "work-done-no-envelope", "review-required", "needs_review"}
OpenToReconcile(t) ==
    \/ entry[t].status \in {"in-flight", "work-done-no-envelope", "review-required"}
    \/ entry[t].status = "needs_review" /\ ReviewPending(t)

\* already-settled: only the delivery is made terminal
ReconcileSettledRow(t) ==
    /\ RegistryFree
    /\ entry[t].status # "absent"
    /\ ~ReceiptClosable(t) /\ ~OpenToReconcile(t)
    /\ entry' = [entry EXCEPT ![t] = MarkDeliveryTerminal(@)]
    /\ artifact' = StubRetired(t)
    /\ UNCHANGED <<pass, response, receipt, descriptor>>

ReconcileScan(t) ==
    /\ RegistryFree
    /\ ~ReceiptClosable(t) /\ OpenToReconcile(t)
    /\ pass' = [pass EXCEPT ![t] = IF ReceiptFenced(t, Schema(t))
                                   THEN "v2-preempted" ELSE Schema(t)]
    /\ UNCHANGED <<entry, files>>

EndPass(t) == pass' = [pass EXCEPT ![t] = "none"]

(* A response that exists but cannot settle keeps the row open and undoes a *)
(* provisional settlement.  On the v1 rail it may also be too young.        *)
ReconcileUnusableResponse(t) ==
    /\ Candidate(t, pass[t])
    /\ ~Landed(t, pass[t]) \/ pass[t] = "v1"
    /\ entry' = IF entry[t].status = "work-done-no-envelope"
                THEN [entry EXCEPT ![t].status = "in-flight"] ELSE entry
    /\ EndPass(t)
    /\ UNCHANGED files

\* A pin, fence or declared-hash mismatch holds the row open, whatever it was.
ReconcileContractHold(t) ==
    /\ Landed(t, pass[t]) /\ response[t].issue # "none"
    /\ entry' = [entry EXCEPT ![t].status = "in-flight"]
    /\ EndPass(t)
    /\ UNCHANGED files

ResponseQuarantine(t) ==
    /\ response[t].st = "needs_review" /\ response[t].quarantined
    /\ ReceiptFenced(t, pass[t]) /\ Quarantine(t)

ResponseDisposition(t) ==
    IF ResponseQuarantine(t) /\ ~Declares(t) THEN "transport-quarantine-not-required"
    ELSE IF entry[t].review = "exempt" THEN "read-only-verdict-exemption"
    ELSE "not-required"

ReconcileResponse(t) ==
    /\ Landed(t, pass[t]) /\ response[t].issue = "none"
    /\ entry' = [entry EXCEPT ![t] =
                    IF HoldRequired(t, ResponseQuarantine(t)) THEN Held(@)
                    ELSE Settled(@, ResolveWorkerStatus(t, response[t].st),
                                 ResponseDisposition(t))]
    /\ artifact' = StubRetired(t)
    /\ EndPass(t)
    /\ UNCHANGED <<response, receipt, descriptor>>

(* The receipt settles a row with no usable response.  A blocked or         *)
(* complete row closes on the next pass.                                    *)
ReconcileReceipt(t) ==
    /\ ~Candidate(t, pass[t]) /\ ReceiptFenced(t, pass[t])
    /\ entry' = [entry EXCEPT ![t] =
                    IF HoldRequired(t, Quarantine(t)) THEN Held(@)
                    ELSE IF Quarantine(t)
                    THEN Settled(@, "complete", "transport-quarantine-not-required")
                    ELSE Settled(@, ResolveWorkerStatus(t, ReceiptStatus(t)), "not-required")]
    /\ artifact' = StubRetired(t)
    /\ EndPass(t)
    /\ UNCHANGED <<response, receipt, descriptor>>

\* No response, no receipt.
NothingLanded(t) ==
    pass[t] # "none" /\ ~Candidate(t, pass[t]) /\ ~ReceiptFenced(t, pass[t])

\* The grace period since registration has passed: chosen by the clock.
NeverLaunched(t) ==
    /\ entry[t].status = "in-flight"
    /\ entry[t].delivery = "queued" /\ ~entry[t].started
    /\ artifact[t] = "none"

ReconcileNeverLaunched(t) ==
    /\ NothingLanded(t) /\ NeverLaunched(t)
    /\ entry' = [entry EXCEPT ![t] = [MarkDeliveryTerminal(@) EXCEPT !.status = "cancelled"]]
    /\ artifact' = StubRetired(t)
    /\ EndPass(t)
    /\ UNCHANGED <<response, receipt, descriptor>>

\* v1 backstop: the artifact exists and the pane is idle or the grace has passed.
ReconcileNoEnvelope(t) ==
    /\ NothingLanded(t) /\ pass[t] = "v1" /\ artifact[t] # "none"
    /\ entry[t].status # "work-done-no-envelope"
    /\ entry' = [entry EXCEPT ![t] =
                    [MarkDeliveryTerminal(@) EXCEPT !.status = "work-done-no-envelope"]]
    /\ artifact' = StubRetired(t)
    /\ EndPass(t)
    /\ UNCHANGED <<response, receipt, descriptor>>

\* Nothing to settle on; off the v1 rail a provisional settlement is undone.
ReconcileLeaveOpen(t) ==
    /\ NothingLanded(t)
    /\ entry' = IF entry[t].status = "work-done-no-envelope" /\ pass[t] # "v1"
                THEN [entry EXCEPT ![t].status = "in-flight"] ELSE entry
    /\ EndPass(t)
    /\ UNCHANGED files

ReconcileSettle(t) ==
    \/ ReconcileUnusableResponse(t) \/ ReconcileContractHold(t) \/ ReconcileResponse(t)
    \/ ReconcileReceipt(t) \/ ReconcileNeverLaunched(t) \/ ReconcileNoEnvelope(t)
    \/ ReconcileLeaveOpen(t)

Reconcile(t) ==
    ReconcileClose(t) \/ ReconcileSettledRow(t) \/ ReconcileScan(t) \/ ReconcileSettle(t)

-----------------------------------------------------------------------------
(* The dispatcher's own registry writes (bin/send-task.sh).                 *)

Register(t, review) ==
    /\ RegistryFree /\ entry[t].status = "absent"
    /\ entry' = [entry EXCEPT ![t] = [NoEntry EXCEPT !.status = "in-flight", !.review = review]]
    /\ UNCHANGED <<pass, files>>

BoardStart(t) ==
    /\ RegistryFree
    /\ entry[t].status = "in-flight" /\ entry[t].delivery = "queued"
    /\ entry' = [entry EXCEPT ![t].delivery = "in-progress", ![t].started = TRUE]
    /\ UNCHANGED <<pass, files>>

\* die() after registration; abortProven: the spawned child was killed, undescribed
DispatcherCancelUnchecked(t, abortProven) ==
    /\ RegistryFree /\ entry[t].status # "absent"
    /\ entry' = [entry EXCEPT ![t] = [MarkDeliveryTerminal(@) EXCEPT !.status = "cancelled"]]
    /\ artifact' = StubRetired(t)
    /\ UNCHANGED <<pass, response, receipt, descriptor>>
DispatcherCancel(t, abortProven) ==
    /\ RegistryFree /\ entry[t].status = "in-flight"
    /\ \/ entry[t].delivery = "queued" /\ ~entry[t].started
       \/ /\ abortProven /\ entry[t].delivery = "in-progress" /\ entry[t].started
          /\ ~descriptor[t] /\ receipt[t] = "none"
    /\ entry' = [entry EXCEPT ![t] = [MarkDeliveryTerminal(@) EXCEPT !.status = "cancelled"]]
    /\ artifact' = StubRetired(t)
    /\ UNCHANGED <<pass, response, receipt, descriptor>>

-----------------------------------------------------------------------------
(* The controller's explicit commands.                                      *)

(* The named review passes the class validator; its verdict is APPROVE, or  *)
(* the controller forces another one.                                       *)
SettleReview(t, verdict) ==
    /\ RegistryFree
    /\ entry[t].status \in {"review-required", "needs_review"}
    /\ Landed(t, Schema(t))
    /\ response[t].issue # "pin" \* the pin, unlike the declared hash, is checked again
    /\ response[t].st \in {"complete", "needs_review", "needs_human"}
    /\ entry[t].review = "held"
    /\ entry' = [entry EXCEPT ![t].status = "complete", ![t].marker = "controller",
                              ![t].verdict = verdict]
    /\ UNCHANGED <<pass, files>>

(* Re-render the outbox response from the row: canonical identity rows and  *)
(* pins, no declared bundle hash, a status that is always settleable (an     *)
(* unknown spelling is blocked, a historical one what it meant).  A closed   *)
(* or blocked row goes back to needs_review.                                *)
CoerceStatusOptimistic(st) == {"complete"}
CoerceStatus(st) == CASE st = "invalid"   -> {"blocked", "complete", "needs_human"}
                      [] st = "cancelled" -> {"blocked"}
                      [] OTHER            -> {st}

RepairEnvelope(t) ==
    LET reopened == entry[t].status \in LifecycleClosed \cup {"blocked"}
    IN /\ RegistryFree
       /\ entry[t].status \notin {"absent", "complete"}
       /\ response[t].st # "absent"
       /\ \E st \in CoerceStatus(response[t].st) :
             response' = [response EXCEPT ![t] =
                             [@ EXCEPT !.st = st, !.fenced = TRUE, !.issue = "none"]]
       /\ reopened \/ response' # response
       /\ entry' = [entry EXCEPT ![t].status = IF reopened THEN "needs_review" ELSE @,
                                 ![t].repaired = TRUE]
       /\ UNCHANGED <<pass, receipt, descriptor, artifact>>

ReopenTargets(t, requested) ==
    IF requested # "default" THEN {requested}
    ELSE IF entry[t].verdict = "other" THEN {"needs_rework"} ELSE {"needs_review"}

ReopenTask(t, requested) ==
    /\ RegistryFree /\ entry[t].status = "complete"
    /\ \E target \in ReopenTargets(t, requested) :
          entry' = [entry EXCEPT ![t].status = target, ![t].marker = "chrono-reopened"]
    /\ UNCHANGED <<pass, files>>

(* One batch: a member that is already closed refuses it, unless the        *)
(* request repeats that closure; then one write closes the others.          *)
CloseRepeats(t, target) ==
    /\ entry[t].status = target
    /\ target = "closed" \/ entry[t].closedBy = "explicit"

CloseTasks(S, target) ==
    LET changed == {t \in S : entry[t].status \notin LifecycleClosed}
    IN /\ RegistryFree /\ changed # {}
       /\ \A t \in S : entry[t].status # "absent"
       /\ \A t \in S \ changed : CloseRepeats(t, target)
       /\ entry' = [t \in Tasks |->
                       IF t \in changed
                       THEN [entry[t] EXCEPT !.status = target, !.closedBy = "explicit"]
                       ELSE entry[t]]
       /\ artifact' = StubReleased(changed)
       /\ UNCHANGED <<pass, response, receipt, descriptor>>

-----------------------------------------------------------------------------
(* Writers of files that do not hold the registry lock.                     *)

WriteResponse(t) ==
    /\ \E r \in {NoResponse} \cup [st: ResponseStatuses, fenced: BOOLEAN,
                                   issue: {"none", "pin", "hash"}, quarantined: BOOLEAN] :
          response' = [response EXCEPT ![t] = r]
    /\ UNCHANGED <<entry, pass, receipt, descriptor, artifact>>

PublishReceipt(t) ==
    /\ descriptor[t] /\ receipt[t] = "none"
    /\ \E o \in ReceiptOutcomes : receipt' = [receipt EXCEPT ![t] = o]
    /\ UNCHANGED <<entry, pass, response, descriptor, artifact>>

WriteDescriptor(t) ==
    /\ ~descriptor[t]
    /\ descriptor' = [descriptor EXCEPT ![t] = TRUE]
    /\ UNCHANGED <<entry, pass, response, receipt, artifact>>

WriteArtifact(t) ==
    /\ \E a \in {"none", "stub", "work"} : artifact' = [artifact EXCEPT ![t] = a]
    /\ UNCHANGED <<entry, pass, response, receipt, descriptor>>

Environment(t) ==
    WriteResponse(t) \/ PublishReceipt(t) \/ WriteDescriptor(t) \/ WriteArtifact(t)

Controller(t) ==
    \/ \E v \in {"APPROVE", "other"} : SettleReview(t, v)
    \/ RepairEnvelope(t)
    \/ \E r \in {"default", "needs_review", "needs_rework"} : ReopenTask(t, r)

Dispatcher(t) ==
    \/ \E k \in ReviewKinds : Register(t, k)
    \/ BoardStart(t)
    \/ \E abortProven \in BOOLEAN : DispatcherCancel(t, abortProven)

Next ==
    \/ \E t \in Tasks : Reconcile(t) \/ Dispatcher(t) \/ Controller(t) \/ Environment(t)
    \/ \E S \in SUBSET Tasks, target \in LifecycleClosed : CloseTasks(S, target)

Spec == Init /\ [][Next]_svars

-----------------------------------------------------------------------------
(* Properties.                                                              *)

(* A task whose review is owed is complete only by an explicit controller   *)
(* settlement, and the sweep never closes it: not on its own response, not  *)
(* on a receipt, not after a reopen, a repair or a contract hold.           *)
ReviewHold ==
    \A t \in Tasks : ReviewPending(t) =>
        /\ entry[t].status = "complete" => entry[t].marker = "controller"
        /\ entry[t].closedBy # "auto"

(* The sweep closes a row only on a receipt that ended blocked or complete  *)
(* and is not a controller quarantine.                                      *)
AutoCloseJustified ==
    \A t \in Tasks : entry[t].closedBy = "auto" /\ entry[t].status = "closed" =>
        receipt[t] \in {"complete", "blocked", "failed", "denied"}

(* A reopened task cannot drift back to complete: only a fresh settlement,  *)
(* which replaces the reopen marker, completes it again.                    *)
ReopenedStaysOpen ==
    \A t \in Tasks : entry[t].marker = "chrono-reopened" => entry[t].status # "complete"

(* An explicit settlement outranks every receipt, response and sweep: only  *)
(* an explicit reopen or close takes the row out of it.                     *)
SettlementOutranksReceipts ==
    [][\A t \in Tasks : entry[t].status = "complete" /\ entry[t].marker = "controller" =>
          \/ entry'[t].status = "complete" /\ entry'[t].marker = "controller"
          \/ entry'[t].marker = "chrono-reopened"
          \/ entry'[t].status \in LifecycleClosed /\ entry'[t].closedBy = "explicit"]_svars

(* A closed or superseded row leaves that state only to needs_review, by an *)
(* envelope repair that vouches for a response on disk.                     *)
ClosedLeavesOnlyByRepair ==
    [][\A t \in Tasks : entry[t].status \in LifecycleClosed /\ entry'[t] # entry[t] =>
          \/ entry'[t].status = entry[t].status
          \/ /\ entry'[t].status = "needs_review" /\ entry'[t].repaired
             /\ response'[t].fenced]_svars
=============================================================================
