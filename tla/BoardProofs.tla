---------------------------- MODULE BoardProofs ----------------------------
(***************************************************************************)
(* Proofs about the registry and the board, for every set of tasks.  First  *)
(* Settlement, whose outside writers may produce any file: its safety and   *)
(* action properties.  Then Board, the real writers: the board implements   *)
(* Settlement, and its own invariants hold through every crash, kill,       *)
(* cancel and reap.                                                         *)
(***************************************************************************)
EXTENDS MCBoard, LockDir, TLAPS

-----------------------------------------------------------------------------
(* Settlement. *)

\* Marking a delivery terminal keeps a registry row a registry row.
LEMMA MarkDeliveryTerminalType ==
    ASSUME NEW e \in Entries
    PROVE  /\ MarkDeliveryTerminal(e) \in Entries
           /\ MarkDeliveryTerminal(e) = [e EXCEPT !.delivery = "terminal"]
BY DEF MarkDeliveryTerminal, Entries

\* Moving a terminal row to any known status keeps it a registry row.
LEMMA TerminalStatusType ==
    ASSUME NEW e \in Entries, NEW st \in Statuses
    PROVE  [MarkDeliveryTerminal(e) EXCEPT !.status = st] \in Entries
BY DEF MarkDeliveryTerminal, Entries

\* A row the sweep closes is a registry row.
LEMMA AutoClosedType ==
    ASSUME NEW e \in Entries
    PROVE  [MarkDeliveryTerminal(e) EXCEPT !.status = "closed", !.closedBy = "auto"] \in Entries
BY DEF MarkDeliveryTerminal, Entries, Statuses, LifecycleClosed

\* The dispatcher's and the controller's updates of a row are registry rows.
LEMMA RowUpdateType ==
    ASSUME NEW e \in Entries, NEW st \in Statuses
    PROVE  /\ [e EXCEPT !.status = st] \in Entries
           /\ [e EXCEPT !.delivery = "in-progress", !.started = TRUE] \in Entries
           /\ [e EXCEPT !.status = st, !.repaired = TRUE] \in Entries
           /\ [e EXCEPT !.status = st, !.closedBy = "explicit"] \in Entries
           /\ [e EXCEPT !.status = st, !.marker = "chrono-reopened"] \in Entries
           /\ \A v \in {"APPROVE", "other"} :
                 [e EXCEPT !.status = st, !.marker = "controller", !.verdict = v] \in Entries
<1>1. [e EXCEPT !.status = st] \in Entries
  BY DEF Entries
<1>2. [e EXCEPT !.delivery = "in-progress", !.started = TRUE] \in Entries
  BY DEF Entries
<1>3. [e EXCEPT !.status = st, !.repaired = TRUE] \in Entries
  BY DEF Entries
<1>4. [e EXCEPT !.status = st, !.closedBy = "explicit"] \in Entries
  BY DEF Entries
<1>5. [e EXCEPT !.status = st, !.marker = "chrono-reopened"] \in Entries
  BY DEF Entries, Markers
<1>6. ASSUME NEW v \in {"APPROVE", "other"}
      PROVE  [e EXCEPT !.status = st, !.marker = "controller", !.verdict = v] \in Entries
  BY DEF Entries, Markers
<1> QED BY <1>1, <1>2, <1>3, <1>4, <1>5, <1>6

\* A held row is a registry row.
LEMMA HeldType ==
    ASSUME NEW e \in Entries
    PROVE  Held(e) \in Entries
BY DEF Held, MarkDeliveryTerminal, Entries, Statuses

\* A settled row is a registry row.
LEMMA SettledType ==
    ASSUME NEW e \in Entries, NEW st \in Statuses, NEW d \in Dispositions
    PROVE  Settled(e, st, d) \in Entries
BY DEF Settled, MarkDeliveryTerminal, Entries

\* A repaired response is a response.
LEMMA RepairedResponseType ==
    ASSUME NEW r \in Responses, NEW st \in Settleable \cup {"invalid", "absent"}
    PROVE  [r EXCEPT !.st = st, !.fenced = TRUE, !.issue = "none"] \in Responses
BY DEF Responses

\* Retiring or releasing stubs only empties artifact paths.
LEMMA StubType ==
    ASSUME artifact \in [Tasks -> {"none", "stub", "work"}], NEW t \in Tasks, NEW S
    PROVE  /\ StubRetired(t) \in [Tasks -> {"none", "stub", "work"}]
           /\ StubReleased(S) \in [Tasks -> {"none", "stub", "work"}]
BY DEF StubRetired, StubReleased

\* A receipt settles a row to a status the registry knows.
LEMMA ReceiptStatusType ==
    ASSUME TypeOK, NEW t \in Tasks, receipt[t] # "none"
    PROVE  /\ ReceiptStatus(t) \in Settleable
           /\ ResolveWorkerStatus(t, ReceiptStatus(t)) \in Settleable
BY DEF TypeOK, AllOutcomes, ReceiptStatus, ResolveWorkerStatus, Settleable

-----------------------------------------------------------------------------
(* Type correctness.                                                        *)

\* The sweep's first read of a row keeps the types.
LEMMA ScanType ==
    ASSUME TypeOK, NEW t \in Tasks,
           ReconcileClose(t) \/ ReconcileSettledRow(t) \/ ReconcileScan(t)
    PROVE  TypeOK'
<1> USE DEF TypeOK, Statuses, Settleable, LifecycleClosed
<1>1. CASE ReconcileClose(t)
  <2>1. "complete" \in Statuses /\ "transport-quarantine-not-required" \in Dispositions
    BY DEF Dispositions
  <2>2. /\ [MarkDeliveryTerminal(entry[t]) EXCEPT !.status = "closed", !.closedBy = "auto"] \in Entries
        /\ Held(entry[t]) \in Entries
        /\ Settled(entry[t], "complete", "transport-quarantine-not-required") \in Entries
    BY <2>1, AutoClosedType, HeldType, SettledType
  <2>3. entry' \in [Tasks -> Entries]
    BY <1>1, <2>2 DEF ReconcileClose, AutoClose
  <2>4. QED BY <1>1, <2>3, StubType DEF ReconcileClose, AutoClose
<1>2. CASE ReconcileSettledRow(t)
  BY <1>2, MarkDeliveryTerminalType, StubType DEF ReconcileSettledRow
<1>3. CASE ReconcileScan(t)
  BY <1>3 DEF ReconcileScan, files, Schema
<1> QED BY <1>1, <1>2, <1>3

\* Settling a row in an open pass keeps the types.
LEMMA SettleType ==
    ASSUME TypeOK, NEW t \in Tasks, ReconcileSettle(t)
    PROVE  TypeOK'
<1> USE DEF TypeOK
<1>0. /\ entry[t] \in Entries /\ receipt[t] \in AllOutcomes \cup {"none"}
      /\ {"in-flight", "cancelled", "work-done-no-envelope", "complete"} \subseteq Statuses
      /\ Settleable \subseteq Statuses
  BY DEF Statuses, Settleable
<1>1. ASSUME NEW st \in Statuses PROVE [entry[t] EXCEPT !.status = st] \in Entries
  BY <1>0, RowUpdateType
<1>2. CASE ReconcileUnusableResponse(t)
  BY <1>0, <1>1, <1>2 DEF ReconcileUnusableResponse, EndPass, files
<1>3. CASE ReconcileContractHold(t)
  BY <1>0, <1>1, <1>3 DEF ReconcileContractHold, EndPass, files
<1>4. CASE ReconcileResponse(t)
  <2>1. ResolveWorkerStatus(t, response[t].st) \in Statuses
    BY <1>0, <1>4 DEF ReconcileResponse, Landed, ResolveWorkerStatus
  <2>2. ResponseDisposition(t) \in Dispositions
    BY DEF ResponseDisposition, Dispositions
  <2>3. QED BY <1>0, <1>4, <2>1, <2>2, HeldType, SettledType, StubType
               DEF ReconcileResponse, EndPass
<1>5. CASE ReconcileReceipt(t)
  <2>1. ResolveWorkerStatus(t, ReceiptStatus(t)) \in Statuses
    BY <1>0, <1>5, ReceiptStatusType DEF ReconcileReceipt, ReceiptFenced
  <2>2. {"not-required", "transport-quarantine-not-required"} \subseteq Dispositions
    BY DEF Dispositions
  <2>3. QED BY <1>0, <1>5, <2>1, <2>2, HeldType, SettledType, StubType
               DEF ReconcileReceipt, EndPass
<1>6. CASE ReconcileNeverLaunched(t)
  BY <1>0, <1>6, TerminalStatusType, StubType DEF ReconcileNeverLaunched, EndPass
<1>7. CASE ReconcileNoEnvelope(t)
  BY <1>0, <1>7, TerminalStatusType, StubType DEF ReconcileNoEnvelope, EndPass
<1>8. CASE ReconcileLeaveOpen(t)
  BY <1>0, <1>1, <1>8 DEF ReconcileLeaveOpen, EndPass, files
<1> QED BY <1>2, <1>3, <1>4, <1>5, <1>6, <1>7, <1>8 DEF ReconcileSettle

\* The dispatcher's registry writes keep the types.
LEMMA DispatcherType ==
    ASSUME TypeOK, NEW t \in Tasks, Dispatcher(t)
    PROVE  TypeOK'
<1> USE DEF TypeOK
<1>1. ASSUME NEW k \in ReviewKinds, Register(t, k) PROVE TypeOK'
  <2>1. [NoEntry EXCEPT !.status = "in-flight", !.review = k] \in Entries
    BY DEF NoEntry, Entries, Statuses, Markers, Dispositions
  <2>2. QED BY <1>1, <2>1 DEF Register, files
<1>2. CASE BoardStart(t)
  <2>1. entry[t] \in Entries /\ "in-flight" \in Statuses
    BY DEF Statuses
  <2>2. [entry[t] EXCEPT !.delivery = "in-progress", !.started = TRUE] \in Entries
    BY <2>1, RowUpdateType
  <2>3. QED BY <1>2, <2>2 DEF BoardStart, files
<1>3. ASSUME NEW a \in BOOLEAN, DispatcherCancel(t, a) PROVE TypeOK'
  <2>1. "cancelled" \in Statuses
    BY DEF Statuses, Settleable
  <2>2. QED BY <1>3, <2>1, TerminalStatusType, StubType DEF DispatcherCancel
<1> QED BY <1>1, <1>2, <1>3 DEF Dispatcher

\* The controller's commands keep the types.
LEMMA ControllerType ==
    ASSUME TypeOK, NEW t \in Tasks, Controller(t)
    PROVE  TypeOK'
<1> USE DEF TypeOK
<1>0. /\ entry[t] \in Entries /\ response[t] \in Responses
      /\ {"complete", "needs_review", "needs_rework"} \subseteq Statuses
  BY DEF Statuses, Settleable
<1>1. ASSUME NEW v \in {"APPROVE", "other"}, SettleReview(t, v) PROVE TypeOK'
  <2>1. [entry[t] EXCEPT !.status = "complete", !.marker = "controller", !.verdict = v] \in Entries
    BY <1>0, RowUpdateType
  <2>2. QED BY <1>1, <2>1 DEF SettleReview, files
<1>2. CASE RepairEnvelope(t)
  <2>1. /\ [entry[t] EXCEPT !.status = "needs_review", !.repaired = TRUE] \in Entries
        /\ entry[t].status \in Statuses
    BY <1>0, RowUpdateType, ZenonT(40) DEF Entries
  <2>2. [entry[t] EXCEPT !.status = entry[t].status, !.repaired = TRUE] \in Entries
    BY <1>0, <2>1, RowUpdateType
  <2>3. entry' \in [Tasks -> Entries]
    BY <1>2, <2>1, <2>2 DEF RepairEnvelope
  <2>4. PICK st \in CoerceStatus(response[t].st) :
            response' = [response EXCEPT ![t] =
                            [@ EXCEPT !.st = st, !.fenced = TRUE, !.issue = "none"]]
    BY <1>2 DEF RepairEnvelope
  <2>5. st \in Settleable \cup {"invalid", "absent"}
    BY <1>0 DEF CoerceStatus, Responses, Settleable
  <2>6. response' \in [Tasks -> Responses]
    BY <1>0, <2>4, <2>5, RepairedResponseType
  <2>7. QED BY <1>2, <2>3, <2>6 DEF RepairEnvelope
<1>3. ASSUME NEW r \in {"default", "needs_review", "needs_rework"}, ReopenTask(t, r) PROVE TypeOK'
  <2>1. PICK st \in ReopenTargets(t, r) :
            entry' = [entry EXCEPT ![t].status = st, ![t].marker = "chrono-reopened"]
    BY <1>3 DEF ReopenTask
  <2>2. st \in Statuses
    BY <1>0 DEF ReopenTargets
  <2>3. entry' \in [Tasks -> Entries]
    BY <1>0, <2>1, <2>2, RowUpdateType
  <2>4. QED BY <1>3, <2>3 DEF ReopenTask, files
<1> QED BY <1>1, <1>2, <1>3 DEF Controller

\* A batch close keeps the types.
LEMMA CloseType ==
    ASSUME TypeOK, NEW S \in SUBSET Tasks, NEW target \in LifecycleClosed, CloseTasks(S, target)
    PROVE  TypeOK'
<1> USE DEF TypeOK
<1>1. target \in Statuses
  BY DEF Statuses
<1>2. ASSUME NEW t \in Tasks
      PROVE  [entry[t] EXCEPT !.status = target, !.closedBy = "explicit"] \in Entries
  BY <1>1, RowUpdateType
<1> QED BY <1>2, StubType DEF CloseTasks

\* The writers outside the registry lock keep the types.
LEMMA EnvironmentType ==
    ASSUME TypeOK, NEW t \in Tasks, Environment(t)
    PROVE  TypeOK'
<1> USE ResponseStatusesAssumption, ReceiptOutcomesAssumption DEF TypeOK
<1>1. CASE WriteResponse(t)
  <2>1. NoResponse \in Responses
    BY DEF NoResponse, Responses
  <2>2. [st: ResponseStatuses, fenced: BOOLEAN, issue: {"none", "pin", "hash"},
         quarantined: BOOLEAN] \subseteq Responses
    BY DEF Responses
  <2>3. QED BY <1>1, <2>1, <2>2 DEF WriteResponse
<1>2. CASE PublishReceipt(t) BY <1>2 DEF PublishReceipt
<1>3. CASE WriteDescriptor(t) BY <1>3 DEF WriteDescriptor
<1>4. CASE WriteArtifact(t) BY <1>4 DEF WriteArtifact
<1> QED BY <1>1, <1>2, <1>3, <1>4 DEF Environment

\* Types hold initially and every step keeps them.
LEMMA TypeInductive ==
    /\ Init => TypeOK
    /\ TypeOK /\ [Next]_svars => TypeOK'
<1>1. Init => TypeOK
  BY DEF Init, TypeOK, NoEntry, Entries, Statuses, ReviewKinds, Markers, Dispositions,
         NoResponse, Responses
<1>2. TypeOK /\ [Next]_svars => TypeOK'
  <2>1. CASE UNCHANGED svars BY <2>1 DEF TypeOK, svars
  <2>2. ASSUME TypeOK, Next PROVE TypeOK'
    BY <2>2, ScanType, SettleType, DispatcherType, ControllerType, CloseType, EnvironmentType
       DEF Next, Reconcile
  <2>3. QED BY <2>1, <2>2
<1> QED BY <1>1, <1>2

(* Every row, file and open pass of the registry has its type, for any set  *)
(* of tasks and any files the outside writers produce.                      *)
THEOREM TypeCorrect == Spec => []TypeOK
BY TypeInductive, PTL DEF Spec

-----------------------------------------------------------------------------
(* The inductive invariant.  ReviewHold and AutoCloseJustified are          *)
(* inductive with the types; ReopenedStaysOpen needs to know where a        *)
(* reopened row can be, and that a pass is open only over an open row: the  *)
(* settling half of a pass looks at the files, not at the status again.     *)

\* A sweep pass is open only over a row that was open when it was scanned.
PassOverOpenRow(t) == pass[t] # "none" => OpenToReconcile(t)

\* A reopened row without a pending review rests until the controller acts.
ReopenedRests(t) ==
    entry[t].marker = "chrono-reopened" /\ ~ReviewPending(t) =>
        entry[t].status \in {"needs_review", "needs_rework", "superseded", "closed"}

HoldsReview(t) ==
    ReviewPending(t) =>
        /\ entry[t].status = "complete" => entry[t].marker = "controller"
        /\ entry[t].closedBy # "auto"

ClosedByReceipt(t) ==
    entry[t].closedBy = "auto" /\ entry[t].status = "closed" =>
        receipt[t] \in {"complete", "blocked", "failed", "denied"}

RowInv(t) == PassOverOpenRow(t) /\ ReopenedRests(t) /\ HoldsReview(t) /\ ClosedByReceipt(t)

IInv == TypeOK /\ \A t \in Tasks : RowInv(t)

\* A row whose registry entry, pass and receipt stay keeps its invariant.
LEMMA RowUnchanged ==
    ASSUME NEW u \in Tasks, RowInv(u),
           entry'[u] = entry[u], pass'[u] = pass[u], receipt'[u] = receipt[u]
    PROVE  RowInv(u)'
BY DEF RowInv, PassOverOpenRow, ReopenedRests, HoldsReview, ClosedByReceipt,
       OpenToReconcile, ReviewPending

\* What the sweep's updates of a row leave alone.
LEMMA SweepUpdateFields ==
    ASSUME NEW e \in Entries, NEW st, NEW d
    PROVE  /\ MarkDeliveryTerminal(e).status = e.status
           /\ MarkDeliveryTerminal(e).review = e.review
           /\ MarkDeliveryTerminal(e).marker = e.marker
           /\ MarkDeliveryTerminal(e).closedBy = e.closedBy
           /\ Held(e).status = "review-required"
           /\ Held(e).review = e.review
           /\ Held(e).marker = e.marker
           /\ Held(e).closedBy = e.closedBy
           /\ Settled(e, st, d).status = st
           /\ Settled(e, st, d).review = e.review
           /\ Settled(e, st, d).marker = e.marker
           /\ Settled(e, st, d).closedBy = e.closedBy
BY DEF MarkDeliveryTerminal, Held, Settled, Entries

\* Closing a row over its receipt, or making a settled delivery terminal.
LEMMA CloseStep ==
    ASSUME IInv, NEW t \in Tasks, ReconcileClose(t) \/ ReconcileSettledRow(t)
    PROVE  \A u \in Tasks : RowInv(u)'
<1> USE DEF IInv
<1>0. entry[t] \in Entries /\ pass[t] = "none" /\ RowInv(t)
  BY DEF TypeOK, ReconcileClose, ReconcileSettledRow, RegistryFree
<1>1. ASSUME NEW u \in Tasks \ {t} PROVE RowInv(u)'
  BY RowUnchanged DEF TypeOK, ReconcileClose, ReconcileSettledRow, AutoClose
<1>2. CASE ReconcileSettledRow(t)
  <2>1. entry'[t] = MarkDeliveryTerminal(entry[t]) /\ pass'[t] = "none" /\ receipt' = receipt
    BY <1>0, <1>2 DEF ReconcileSettledRow, TypeOK
  <2>2. RowInv(t)'
    BY <1>0, <2>1, SweepUpdateFields
       DEF RowInv, PassOverOpenRow, ReopenedRests, HoldsReview, ClosedByReceipt, ReviewPending
  <2>3. QED BY <1>1, <2>2
<1>3. CASE ReconcileClose(t)
  <2>0. pass'[t] = "none" /\ receipt' = receipt /\ ReceiptClosable(t)
    BY <1>0, <1>3 DEF ReconcileClose
  <2>1. CASE HoldRequired(t, Quarantine(t)) /\ entry'[t] = Held(entry[t])
    BY <1>0, <1>1, <2>0, <2>1, SweepUpdateFields
       DEF RowInv, PassOverOpenRow, ReopenedRests, HoldsReview, ClosedByReceipt, ReviewPending,
           ReceiptClosable
  <2>2. CASE /\ ~HoldRequired(t, Quarantine(t))
             /\ entry'[t] = Settled(entry[t], "complete", "transport-quarantine-not-required")
    BY <1>0, <1>1, <2>0, <2>2, SweepUpdateFields
       DEF RowInv, PassOverOpenRow, ReopenedRests, HoldsReview, ClosedByReceipt, ReviewPending,
           ReceiptClosable, HoldRequired
  <2>3. CASE /\ ~HoldRequired(t, Quarantine(t)) /\ ~Quarantine(t)
             /\ entry'[t] = [MarkDeliveryTerminal(entry[t]) EXCEPT
                                !.status = "closed", !.closedBy = "auto"]
    <3>1. /\ entry'[t].status = "closed" /\ entry'[t].closedBy = "auto"
          /\ entry'[t].review = entry[t].review /\ entry'[t].marker = entry[t].marker
      BY <1>0, <2>3 DEF MarkDeliveryTerminal, Entries
    <3>2. receipt[t] \in {"complete", "blocked", "failed", "denied"}
      BY <2>0, <2>3 DEF ReceiptClosable, ReceiptStatus, Quarantine
    <3>3. QED BY <1>1, <2>0, <2>3, <3>1, <3>2
              DEF RowInv, PassOverOpenRow, ReopenedRests, HoldsReview, ClosedByReceipt,
                  ReviewPending, HoldRequired
  <2>4. QED BY <1>0, <1>3, <2>1, <2>2, <2>3 DEF ReconcileClose, AutoClose, TypeOK
<1> QED BY <1>2, <1>3

\* Opening a pass: the scanned row is open.
LEMMA ScanStep ==
    ASSUME IInv, NEW t \in Tasks, ReconcileScan(t)
    PROVE  \A u \in Tasks : RowInv(u)'
BY DEF IInv, ReconcileScan, files, RowInv, PassOverOpenRow, ReopenedRests, HoldsReview,
       ClosedByReceipt, OpenToReconcile, ReviewPending

(* Every settling disjunct works on an open row, closes the pass, and       *)
(* leaves the review, the marker and closedBy of the row alone; a row with  *)
(* a pending review does not become complete.                               *)
LEMMA SettleEffect ==
    ASSUME IInv, NEW t \in Tasks, ReconcileSettle(t)
    PROVE  /\ OpenToReconcile(t)
           /\ pass' = [pass EXCEPT ![t] = "none"]
           /\ receipt' = receipt
           /\ \A u \in Tasks \ {t} : entry'[u] = entry[u]
           /\ entry'[t].review = entry[t].review
           /\ entry'[t].marker = entry[t].marker
           /\ entry'[t].closedBy = entry[t].closedBy
           /\ ReviewPending(t) => entry'[t].status # "complete"
           /\ entry'[t].status # "closed"
<1> USE DEF IInv
<1>0. entry[t] \in Entries /\ entry \in [Tasks -> Entries] /\ RowInv(t)
  BY DEF TypeOK
<1>1. /\ pass[t] # "none" /\ pass' = [pass EXCEPT ![t] = "none"] /\ receipt' = receipt
      /\ \A u \in Tasks \ {t} : entry'[u] = entry[u]
  BY <1>0 DEF ReconcileSettle, ReconcileUnusableResponse, ReconcileContractHold,
         ReconcileResponse, ReconcileReceipt, ReconcileNeverLaunched, ReconcileNoEnvelope,
         ReconcileLeaveOpen, EndPass, files, NothingLanded, Landed, Candidate, ReceiptFenced
<1>2. OpenToReconcile(t) /\ entry[t].status # "complete" /\ entry[t].status # "closed"
  BY <1>0, <1>1 DEF RowInv, PassOverOpenRow, OpenToReconcile
<1>3. \/ entry'[t] = entry[t]
      \/ entry'[t] = [entry[t] EXCEPT !.status = "in-flight"]
      \/ entry'[t] = Held(entry[t])
      \/ \E st \in Settleable, d \in Dispositions :
            ~ReviewPending(t) /\ entry'[t] = Settled(entry[t], st, d)
      \/ \E st \in {"cancelled", "work-done-no-envelope"} :
            entry'[t] = [MarkDeliveryTerminal(entry[t]) EXCEPT !.status = st]
  <2>1. CASE ReconcileUnusableResponse(t) \/ ReconcileContractHold(t) \/ ReconcileLeaveOpen(t)
    BY <1>0, <2>1 DEF ReconcileUnusableResponse, ReconcileContractHold, ReconcileLeaveOpen
  <2>2. CASE ReconcileResponse(t)
    <3>1. ResolveWorkerStatus(t, response[t].st) \in Settleable
      BY <2>2 DEF ReconcileResponse, Landed, ResolveWorkerStatus, Settleable
    <3>2. ResponseDisposition(t) \in Dispositions
      BY DEF ResponseDisposition, Dispositions
    <3>3. QED BY <1>0, <2>2, <3>1, <3>2 DEF ReconcileResponse, HoldRequired
  <2>3. CASE ReconcileReceipt(t)
    <3>1. ResolveWorkerStatus(t, ReceiptStatus(t)) \in Settleable /\ "complete" \in Settleable
      BY <2>3, ReceiptStatusType DEF ReconcileReceipt, ReceiptFenced, Settleable
    <3>2. {"not-required", "transport-quarantine-not-required"} \subseteq Dispositions
      BY DEF Dispositions
    <3>3. QED BY <1>0, <2>3, <3>1, <3>2 DEF ReconcileReceipt, HoldRequired
  <2>4. CASE ReconcileNeverLaunched(t) \/ ReconcileNoEnvelope(t)
    BY <1>0, <2>4 DEF ReconcileNeverLaunched, ReconcileNoEnvelope
  <2>5. QED BY <2>1, <2>2, <2>3, <2>4 DEF ReconcileSettle
<1> DEFINE Kept == /\ entry'[t].review = entry[t].review
                   /\ entry'[t].marker = entry[t].marker
                   /\ entry'[t].closedBy = entry[t].closedBy
                   /\ ReviewPending(t) => entry'[t].status # "complete"
                   /\ entry'[t].status # "closed"
<1>4. Kept
  <2>1. CASE entry'[t] = entry[t] BY <1>2, <2>1
  <2>2. CASE entry'[t] = [entry[t] EXCEPT !.status = "in-flight"]
    BY <1>0, <2>2 DEF Entries
  <2>3. CASE entry'[t] = Held(entry[t])
    BY <1>0, <2>3, SweepUpdateFields
  <2>4. ASSUME NEW st \in Settleable, NEW d \in Dispositions, ~ReviewPending(t),
               entry'[t] = Settled(entry[t], st, d)
        PROVE  Kept
    BY <1>0, <2>4, SweepUpdateFields DEF Settleable
  <2>5. ASSUME NEW st \in {"cancelled", "work-done-no-envelope"},
               entry'[t] = [MarkDeliveryTerminal(entry[t]) EXCEPT !.status = st]
        PROVE  Kept
    BY <1>0, <2>5 DEF MarkDeliveryTerminal, Entries
  <2>6. QED BY <1>3, <2>1, <2>2, <2>3, <2>4, <2>5
<1> QED BY <1>1, <1>2, <1>4

\* Settling a row in an open pass.
LEMMA SettleStep ==
    ASSUME IInv, NEW t \in Tasks, ReconcileSettle(t)
    PROVE  \A u \in Tasks : RowInv(u)'
<1>0. pass \in [Tasks -> {"none", "v1", "v2", "v2-preempted", "invalid"}] /\ RowInv(t)
  BY DEF IInv, TypeOK
<1>1. ASSUME NEW u \in Tasks \ {t} PROVE RowInv(u)'
  BY <1>0, SettleEffect, RowUnchanged DEF IInv
<1>2. RowInv(t)'
  BY <1>0, SettleEffect DEF RowInv, PassOverOpenRow, ReopenedRests, HoldsReview,
     ClosedByReceipt, OpenToReconcile, ReviewPending
<1> QED BY <1>1, <1>2

\* The dispatcher only touches rows that are absent or in flight.
LEMMA DispatcherMoves ==
    ASSUME IInv, NEW t \in Tasks, Dispatcher(t)
    PROVE  \A u \in Tasks : RowInv(u)'
<1> USE DEF IInv
<1>0. entry[t] \in Entries /\ entry \in [Tasks -> Entries] /\ RowInv(t)
  BY DEF TypeOK
<1>1. /\ pass' = pass /\ receipt' = receipt /\ pass[t] = "none"
      /\ \A u \in Tasks \ {t} : entry'[u] = entry[u]
  BY <1>0 DEF Dispatcher, Register, BoardStart, DispatcherCancel, files, RegistryFree
<1>2. \/ \E k \in ReviewKinds :
            entry'[t] = [NoEntry EXCEPT !.status = "in-flight", !.review = k]
      \/ /\ entry[t].status = "in-flight"
         /\ \/ entry'[t] = [entry[t] EXCEPT !.delivery = "in-progress", !.started = TRUE]
            \/ entry'[t] = [MarkDeliveryTerminal(entry[t]) EXCEPT !.status = "cancelled"]
  BY <1>0 DEF Dispatcher, Register, BoardStart, DispatcherCancel
<1> DEFINE Early ==
             /\ entry'[t].status \in {"in-flight", "cancelled"}
             /\ entry'[t].marker = "chrono-reopened" =>
                   /\ entry[t].marker = "chrono-reopened" /\ entry[t].status = "in-flight"
                   /\ entry'[t].review = entry[t].review
             /\ entry'[t].closedBy = "auto" =>
                   entry[t].closedBy = "auto" /\ entry'[t].review = entry[t].review
<1>3. Early
  <2>1. ASSUME NEW k \in ReviewKinds,
               entry'[t] = [NoEntry EXCEPT !.status = "in-flight", !.review = k]
        PROVE  Early
    BY <2>1 DEF NoEntry
  <2>2. CASE /\ entry[t].status = "in-flight"
             /\ entry'[t] = [entry[t] EXCEPT !.delivery = "in-progress", !.started = TRUE]
    BY <1>0, <2>2 DEF Entries
  <2>3. CASE /\ entry[t].status = "in-flight"
             /\ entry'[t] = [MarkDeliveryTerminal(entry[t]) EXCEPT !.status = "cancelled"]
    BY <1>0, <2>3 DEF MarkDeliveryTerminal, Entries
  <2>4. QED BY <1>2, <2>1, <2>2, <2>3
<1>4. RowInv(t)'
  BY <1>0, <1>1, <1>3 DEF RowInv, PassOverOpenRow, ReopenedRests, HoldsReview,
     ClosedByReceipt, ReviewPending
<1>5. ASSUME NEW u \in Tasks \ {t} PROVE RowInv(u)'
  BY <1>1, RowUnchanged
<1> QED BY <1>4, <1>5

\* The controller completes only a row it settles, and moves others to rest.
LEMMA ControllerStep ==
    ASSUME IInv, NEW t \in Tasks, Controller(t)
    PROVE  \A u \in Tasks : RowInv(u)'
<1> USE DEF IInv
<1>0. entry[t] \in Entries /\ entry \in [Tasks -> Entries] /\ RowInv(t)
  BY DEF TypeOK
<1>1. /\ pass' = pass /\ receipt' = receipt /\ pass[t] = "none"
      /\ \A u \in Tasks \ {t} : entry'[u] = entry[u]
  BY <1>0 DEF Controller, SettleReview, RepairEnvelope, ReopenTask, files, RegistryFree
<1>2. RowInv(t)'
  <2>1. ASSUME NEW v \in {"APPROVE", "other"}, SettleReview(t, v) PROVE RowInv(t)'
    <3>1. /\ entry'[t].status = "complete" /\ entry'[t].marker = "controller"
          /\ entry'[t].review = entry[t].review /\ entry'[t].closedBy = entry[t].closedBy
      BY <1>0, <2>1 DEF SettleReview, Entries
    <3>2. QED BY <1>0, <1>1, <3>1 DEF RowInv, PassOverOpenRow, ReopenedRests, HoldsReview,
                 ClosedByReceipt, ReviewPending
  <2>2. CASE RepairEnvelope(t)
    <3>1. /\ entry[t].status # "complete"
          /\ \/ entry'[t].status = "needs_review"
             \/ /\ entry'[t].status = entry[t].status
                /\ entry[t].status # "closed"
          /\ entry'[t].marker = entry[t].marker
          /\ entry'[t].review = entry[t].review /\ entry'[t].closedBy = entry[t].closedBy
      BY <1>0, <2>2 DEF RepairEnvelope, Entries, LifecycleClosed
    <3>2. QED BY <1>0, <1>1, <3>1 DEF RowInv, PassOverOpenRow, ReopenedRests, HoldsReview,
                 ClosedByReceipt, ReviewPending
  <2>3. ASSUME NEW r \in {"default", "needs_review", "needs_rework"}, ReopenTask(t, r)
        PROVE  RowInv(t)'
    <3>1. PICK st \in ReopenTargets(t, r) :
              entry' = [entry EXCEPT ![t].status = st, ![t].marker = "chrono-reopened"]
      BY <2>3 DEF ReopenTask
    <3>2. st \in {"needs_review", "needs_rework"}
      BY DEF ReopenTargets
    <3>3. /\ entry'[t].status = st
          /\ entry'[t].review = entry[t].review /\ entry'[t].closedBy = entry[t].closedBy
      BY <1>0, <3>1 DEF Entries
    <3>4. QED BY <1>0, <1>1, <3>2, <3>3 DEF RowInv, PassOverOpenRow, ReopenedRests, HoldsReview,
                 ClosedByReceipt, ReviewPending
  <2>4. QED BY <2>1, <2>2, <2>3 DEF Controller
<1>3. ASSUME NEW u \in Tasks \ {t} PROVE RowInv(u)'
  BY <1>1, RowUnchanged
<1> QED BY <1>2, <1>3

\* A batch close marks the rows it closes as explicitly closed.
LEMMA CloseTasksStep ==
    ASSUME IInv, NEW S \in SUBSET Tasks, NEW target \in LifecycleClosed, CloseTasks(S, target)
    PROVE  \A u \in Tasks : RowInv(u)'
<1> SUFFICES ASSUME NEW u \in Tasks PROVE RowInv(u)'
  OBVIOUS
<1>0. /\ entry[u] \in Entries /\ RowInv(u)
      /\ pass' = pass /\ receipt' = receipt /\ pass[u] = "none"
  BY DEF IInv, TypeOK, CloseTasks, RegistryFree
<1>1. CASE entry'[u] = entry[u]
  BY <1>0, <1>1, RowUnchanged
<1>2. CASE entry'[u] = [entry[u] EXCEPT !.status = target, !.closedBy = "explicit"]
  <2>1. /\ entry'[u].status \in {"superseded", "closed"} /\ entry'[u].closedBy = "explicit"
        /\ entry'[u].marker = entry[u].marker /\ entry'[u].review = entry[u].review
    BY <1>0, <1>2 DEF Entries, LifecycleClosed
  <2>2. QED BY <1>0, <2>1 DEF RowInv, PassOverOpenRow, ReopenedRests, HoldsReview,
               ClosedByReceipt, ReviewPending
<1>3. entry'[u] = entry[u] \/ entry'[u] = [entry[u] EXCEPT !.status = target, !.closedBy = "explicit"]
  BY DEF CloseTasks
<1> QED BY <1>1, <1>2, <1>3

\* Outside writers touch no row and replace no receipt.
LEMMA EnvironmentStep ==
    ASSUME IInv, NEW t \in Tasks, Environment(t)
    PROVE  \A u \in Tasks : RowInv(u)'
<1> SUFFICES ASSUME NEW u \in Tasks PROVE RowInv(u)'
  OBVIOUS
<1>1. /\ RowInv(u) /\ entry' = entry /\ pass' = pass
      /\ receipt'[u] = receipt[u] \/ receipt[u] = "none"
  BY DEF IInv, TypeOK, Environment, WriteResponse, PublishReceipt, WriteDescriptor, WriteArtifact
<1> QED BY <1>1 DEF RowInv, PassOverOpenRow, ReopenedRests, HoldsReview, ClosedByReceipt,
           OpenToReconcile, ReviewPending

\* The invariant holds initially and every step keeps it.
LEMMA IInvInductive ==
    /\ Init => IInv
    /\ IInv /\ [Next]_svars => IInv'
<1>1. Init => IInv
  BY TypeInductive DEF IInv, Init, NoEntry, RowInv, PassOverOpenRow, ReopenedRests,
     HoldsReview, ClosedByReceipt
<1>2. IInv /\ UNCHANGED svars => IInv'
  BY TypeInductive, RowUnchanged DEF IInv, svars
<1>3. ASSUME IInv, Next PROVE IInv'
  <2>1. TypeOK' BY <1>3, TypeInductive DEF IInv
  <2>2. \A u \in Tasks : RowInv(u)'
    BY <1>3, CloseStep, ScanStep, SettleStep, DispatcherMoves, ControllerStep, CloseTasksStep,
       EnvironmentStep DEF Next, Reconcile
  <2>3. QED BY <2>1, <2>2 DEF IInv
<1> QED BY <1>1, <1>2, <1>3

\* The inductive invariant is an invariant.
LEMMA IInvInvariant == Spec => []IInv
BY IInvInductive, PTL DEF Spec

(* A task that owes a review is completed only by the controller's explicit *)
(* settlement and is never closed by the sweep, whatever files appear.      *)
THEOREM ReviewHoldInvariant == Spec => []ReviewHold
<1>1. IInv => ReviewHold
  BY DEF IInv, RowInv, HoldsReview, ReviewHold
<1> QED BY <1>1, IInvInvariant, PTL

(* A row the sweep closed has a receipt that ended blocked or complete and  *)
(* is not a controller quarantine.                                          *)
THEOREM AutoCloseInvariant == Spec => []AutoCloseJustified
<1>1. IInv => AutoCloseJustified
  BY DEF IInv, RowInv, ClosedByReceipt, AutoCloseJustified
<1> QED BY <1>1, IInvInvariant, PTL

(* A reopened task is not complete until the controller settles it again.   *)
THEOREM ReopenedInvariant == Spec => []ReopenedStaysOpen
<1>1. IInv => ReopenedStaysOpen
  BY DEF IInv, RowInv, HoldsReview, ReopenedRests, ReopenedStaysOpen
<1> QED BY <1>1, IInvInvariant, PTL

-----------------------------------------------------------------------------
(* Action properties.                                                       *)

(* Where a row that is complete or closed can go in one step: only the      *)
(* sweep's bookkeeping, a close over a receipt that no explicit settlement  *)
(* forbids, a reopen, a repair and an explicit close reach it.              *)
LEMMA SettledRowMoves ==
    ASSUME IInv, Next, NEW u \in Tasks,
           entry[u].status \in {"complete", "superseded", "closed"}
    PROVE  \/ entry'[u] = entry[u]
           \/ entry'[u] = MarkDeliveryTerminal(entry[u])
           \/ ReceiptClosable(u)
           \/ RepairEnvelope(u)
           \/ \E r \in {"default", "needs_review", "needs_rework"} : ReopenTask(u, r)
           \/ /\ entry[u].status = "complete"
              /\ \E target \in LifecycleClosed :
                    entry'[u] = [entry[u] EXCEPT !.status = target, !.closedBy = "explicit"]
<1> DEFINE Moves == \/ entry'[u] = entry[u]
                    \/ entry'[u] = MarkDeliveryTerminal(entry[u])
                    \/ ReceiptClosable(u)
                    \/ RepairEnvelope(u)
                    \/ \E r \in {"default", "needs_review", "needs_rework"} : ReopenTask(u, r)
                    \/ /\ entry[u].status = "complete"
                       /\ \E target \in LifecycleClosed :
                             entry'[u] = [entry[u] EXCEPT !.status = target, !.closedBy = "explicit"]
<1>0. entry \in [Tasks -> Entries]
  BY DEF IInv, TypeOK
<1>1. ASSUME NEW t \in Tasks, ReconcileClose(t) \/ ReconcileSettledRow(t) \/ ReconcileScan(t)
      PROVE  Moves
  BY <1>0, <1>1 DEF ReconcileClose, ReconcileSettledRow, ReconcileScan, AutoClose
<1>2. ASSUME NEW t \in Tasks, ReconcileSettle(t) PROVE Moves
  BY <1>2, SettleEffect DEF OpenToReconcile
<1>3. ASSUME NEW t \in Tasks, Dispatcher(t) PROVE Moves
  BY <1>0, <1>3 DEF Dispatcher, Register, BoardStart, DispatcherCancel
<1>4. ASSUME NEW t \in Tasks, Controller(t) PROVE Moves
  BY <1>0, <1>4 DEF Controller, SettleReview, RepairEnvelope, ReopenTask
<1>5. ASSUME NEW S \in SUBSET Tasks, NEW target \in LifecycleClosed, CloseTasks(S, target)
      PROVE  Moves
  BY <1>0, <1>5 DEF CloseTasks, LifecycleClosed
<1>6. ASSUME NEW t \in Tasks, Environment(t) PROVE Moves
  BY <1>6 DEF Environment, WriteResponse, PublishReceipt, WriteDescriptor, WriteArtifact
<1> QED BY <1>1, <1>2, <1>3, <1>4, <1>5, <1>6 DEF Next, Reconcile

(* An explicit settlement outranks every receipt, response and sweep: only  *)
(* an explicit reopen or close takes the row out of it.                     *)
THEOREM SettlementOutranks == Spec => SettlementOutranksReceipts
<1> DEFINE Kept(t) ==
        entry[t].status = "complete" /\ entry[t].marker = "controller" =>
          \/ entry'[t].status = "complete" /\ entry'[t].marker = "controller"
          \/ entry'[t].marker = "chrono-reopened"
          \/ entry'[t].status \in LifecycleClosed /\ entry'[t].closedBy = "explicit"
<1>1. ASSUME IInv, Next, NEW u \in Tasks,
             entry[u].status = "complete", entry[u].marker = "controller"
      PROVE  Kept(u)
  <2>0. entry[u] \in Entries /\ entry \in [Tasks -> Entries]
    BY <1>1 DEF IInv, TypeOK
  <2>1. CASE entry'[u] = MarkDeliveryTerminal(entry[u])
    BY <1>1, <2>0, <2>1, SweepUpdateFields
  <2>2. CASE ReceiptClosable(u)
    BY <1>1, <2>2 DEF ReceiptClosable, ExplicitlySettled
  <2>3. CASE RepairEnvelope(u)
    BY <1>1, <2>3 DEF RepairEnvelope
  <2>4. ASSUME NEW r \in {"default", "needs_review", "needs_rework"}, ReopenTask(u, r)
        PROVE  entry'[u].marker = "chrono-reopened"
    BY <2>0, <2>4 DEF ReopenTask, Entries
  <2>5. ASSUME NEW target \in LifecycleClosed,
               entry'[u] = [entry[u] EXCEPT !.status = target, !.closedBy = "explicit"]
        PROVE  entry'[u].status \in LifecycleClosed /\ entry'[u].closedBy = "explicit"
    BY <2>0, <2>5 DEF Entries
  <2>6. QED BY <1>1, <2>1, <2>2, <2>3, <2>4, <2>5, SettledRowMoves
<1>2. IInv /\ [Next]_svars => [\A t \in Tasks : Kept(t)]_svars
  BY <1>1
<1> QED BY <1>2, IInvInvariant, PTL DEF Spec, SettlementOutranksReceipts

(* A closed or superseded row leaves that state only by an envelope repair. *)
THEOREM ClosedIsFinal == Spec => ClosedLeavesOnlyByRepair
<1> DEFINE Final(t) ==
        entry[t].status \in LifecycleClosed /\ entry'[t] # entry[t] =>
          \/ entry'[t].status = entry[t].status
          \/ /\ entry'[t].status = "needs_review" /\ entry'[t].repaired
             /\ response'[t].fenced
<1>1. ASSUME IInv, Next, NEW u \in Tasks, entry[u].status \in LifecycleClosed
      PROVE  Final(u)
  <2>0. /\ entry[u] \in Entries /\ entry \in [Tasks -> Entries]
        /\ response[u] \in Responses /\ response \in [Tasks -> Responses]
        /\ entry[u].status \in {"superseded", "closed"}
    BY <1>1 DEF IInv, TypeOK, LifecycleClosed
  <2>1. CASE entry'[u] = MarkDeliveryTerminal(entry[u])
    BY <2>0, <2>1, SweepUpdateFields
  <2>2. CASE ReceiptClosable(u)
    BY <2>0, <2>2 DEF ReceiptClosable
  <2>3. CASE RepairEnvelope(u)
    BY <1>1, <2>0, <2>3 DEF RepairEnvelope, Entries, Responses
  <2>4. CASE \E r \in {"default", "needs_review", "needs_rework"} : ReopenTask(u, r)
    BY <2>0, <2>4 DEF ReopenTask
  <2>5. QED BY <2>0, <2>1, <2>2, <2>3, <2>4, <1>1, SettledRowMoves
<1>2. IInv /\ [Next]_svars => [\A t \in Tasks : Final(t)]_svars
  BY <1>1
<1> QED BY <1>2, IInvInvariant, PTL DEF Spec, ClosedLeavesOnlyByRepair

-----------------------------------------------------------------------------
(* Board. *)

(* The inductive invariant.  The invariants of Board speak of rows and      *)
(* files; a step of one process keeps them only because of where the other  *)
(* processes can be.                                                        *)

\* Outcomes that claim worker output.
Promoted == {"complete", "needs_review", "needs_human", "quarantine"}

Launchable == {"running", "finalize", "stub", "envelope", "settle"}

\* A shell, a descriptor and a launch exist only after the dispatcher's steps
\* that make them, in this order.
ProcessOrder(t) ==
    /\ shell[t] # "none" => dsp[t] \in {"spawned", "aborting", "done", "dead"}
    /\ shell[t] # "none" \/ dsp[t] \in {"started", "spawned", "aborting"} => entry[t].started
    /\ descriptor[t] => dsp[t] = "done"
    /\ child[t] # "none" \/ shell[t] \in Launchable \/ dlock[t] => descriptor[t]
    /\ shell[t] \in {"none", "waiting"} => child[t] = "none"
    /\ dsp[t] = "aborting" => ~ShellAlive(t)

\* What the capture holds at each point of the launch.
CaptureTruth(t) ==
    /\ child[t] \in {"none", "working"} => capture[t] = NoCapture
    /\ shell[t] = "finalize" => child[t] \in {"finished", "dead"} /\ capture[t].outcome # "none"
    /\ shell[t] \in {"running", "finalize"} /\ child[t] = "dead" =>
          capture[t].outcome \in {"none", "blocked"}
    /\ capture[t].launched => capture[t].outcome \in Authorable

\* What is on disk when a capture or a response claims output.
Publication(t) ==
    /\ child[t] = "artifact" => artifact[t] = "work"
    /\ capture[t].outcome \in Promoted => artifact[t] = "work"
    /\ capture[t].outcome \in Promoted /\ child[t] = "finished" =>
          response[t].st # "absent" /\ response[t].fenced
    /\ dlock[t] => receipt[t] = "none"
    /\ response[t].st \in {"absent"} \cup Authorable
    /\ response[t].st \in Authorable \ {"blocked"} => artifact[t] = "work"

\* ReceiptFollowsPromotion, CompleteHasWork and CancelledNeverRuns of one task;
\* a row cancelled without a receipt also never gets a shell.
ReceiptTruth(t) ==
    receipt[t] \in Promoted =>
        artifact[t] = "work" /\ response[t].st # "absent" /\ response[t].fenced
CompleteTruth(t) == entry[t].status = "complete" => artifact[t] = "work"
CancelledIsDead(t) ==
    entry[t].status = "cancelled" /\ receipt[t] = "none" =>
        dsp[t] # "started" /\ ~ShellAlive(t) /\ ~ChildAlive(t)

TaskInv(t) ==
    /\ ProcessOrder(t) /\ CaptureTruth(t) /\ Publication(t)
    /\ ReceiptTruth(t) /\ CompleteTruth(t) /\ CancelledIsDead(t)

BoardInv == BoardTypeOK /\ \A t \in Tasks : TaskInv(t)

\* The step leaves the row, the files and the processes of a task alone.
SameTask(u) ==
    /\ entry'[u] = entry[u] /\ response'[u] = response[u] /\ receipt'[u] = receipt[u]
    /\ descriptor'[u] = descriptor[u] /\ artifact'[u] = artifact[u] /\ dsp'[u] = dsp[u]
    /\ shell'[u] = shell[u] /\ child'[u] = child[u] /\ capture'[u] = capture[u]
    /\ dlock'[u] = dlock[u]

\* The processes' part of BoardTypeOK.
ProcessTypes ==
    /\ dsp \in [Tasks -> DspStates]
    /\ shell \in [Tasks -> ShellStates]
    /\ child \in [Tasks -> {"none", "working", "artifact", "finished", "dead"}]
    /\ capture \in [Tasks -> [launched: BOOLEAN, outcome: AllOutcomes \cup {"none"}]]
    /\ dlock \in [Tasks -> BOOLEAN]

\* A task the step leaves alone keeps its invariant.
LEMMA TaskUnchanged ==
    ASSUME NEW u \in Tasks, TaskInv(u), SameTask(u)
    PROVE  TaskInv(u)'
BY DEF SameTask, TaskInv, ProcessOrder, CaptureTruth, Publication, ReceiptTruth, CompleteTruth,
       CancelledIsDead, ShellAlive, ChildAlive

\* What a step of task t has to show: the types, its own invariant, and that it
\* touches no other task.
LEMMA OneTaskStep ==
    ASSUME BoardInv, NEW t \in Tasks, TypeOK', ProcessTypes', TaskInv(t)',
           \A u \in Tasks \ {t} : SameTask(u)
    PROVE  BoardInv'
<1>1. BoardTypeOK'
  BY DEF BoardTypeOK, ProcessTypes
<1>2. ASSUME NEW u \in Tasks PROVE TaskInv(u)'
  BY TaskUnchanged DEF BoardInv
<1> QED BY <1>1, <1>2 DEF BoardInv

\* A board starts with no process and no file.
LEMMA BoardInitInv == BoardInit => BoardInv
<1> SUFFICES ASSUME BoardInit PROVE BoardInv
  OBVIOUS
<1>1. TypeOK
  BY TypeInductive DEF BoardInit
<1>2. BoardTypeOK
  BY <1>1 DEF BoardTypeOK, BoardInit, DspStates, ShellStates, NoCapture
<1>3. ASSUME NEW t \in Tasks PROVE TaskInv(t)
  BY DEF BoardInit, Init, TaskInv, ProcessOrder, CaptureTruth, Publication, ReceiptTruth,
         CompleteTruth, CancelledIsDead, NoCapture, NoEntry, NoResponse, Promoted, Launchable,
         ShellAlive, ChildAlive, Authorable
<1> QED BY <1>2, <1>3 DEF BoardInv

-----------------------------------------------------------------------------
(* The board implements Settlement: every step of a board process is a step *)
(* of the sweep, of the dispatcher or of an outside writer, or leaves the   *)
(* registry and the files alone.                                            *)

\* Publishing a stub or an envelope is an outside write.
LEMMA PublishIsWrite ==
    ASSUME BoardTypeOK, NEW t \in Tasks, UNCHANGED <<entry, pass, receipt, descriptor>>
    PROVE  /\ PublishStub(t) /\ UNCHANGED response => WriteArtifact(t)
           /\ \A st \in Authorable, f \in BOOLEAN, q \in BOOLEAN :
                 /\ UNCHANGED artifact
                 /\ PublishEnvelope(t, [st |-> st, fenced |-> f, issue |-> "none",
                                        quarantined |-> q])
                 => WriteResponse(t)
<1>1. PublishStub(t) /\ UNCHANGED response => WriteArtifact(t)
  BY DEF PublishStub, WriteArtifact
<1>2. ASSUME NEW st \in Authorable, NEW f \in BOOLEAN, NEW q \in BOOLEAN, UNCHANGED artifact,
             PublishEnvelope(t, [st |-> st, fenced |-> f, issue |-> "none", quarantined |-> q])
      PROVE  WriteResponse(t)
  BY <1>2, BoardStatusesAssumption DEF PublishEnvelope, WriteResponse
<1> QED BY <1>1, <1>2

\* A dispatcher's step is one of its registry writes, an outside write or nothing.
LEMMA DispatcherImplements ==
    ASSUME BoardInv, NEW t \in Tasks, DispatcherStep(t)
    PROVE  Next \/ UNCHANGED svars
<1> USE DEF BoardInv
<1>1. CASE \E k \in ReviewKinds : DispatchRegister(t, k)
  BY <1>1 DEF DispatchRegister, Next, Dispatcher
<1>2. CASE DispatchStart(t)
  BY <1>2 DEF DispatchStart, Next, Dispatcher
<1>3. CASE DispatchPublishBlocked(t)
  <2>1. ASSUME PublishStub(t), UNCHANGED response PROVE Next
    BY <1>3, <2>1, PublishIsWrite DEF DispatchPublishBlocked, Next, Environment
  <2>2. ASSUME NEW f \in BOOLEAN, PublishEnvelope(t, BlockedResponse(f)), UNCHANGED artifact
        PROVE  Next
    BY <1>3, <2>2, PublishIsWrite
       DEF DispatchPublishBlocked, BlockedResponse, Next, Environment, Authorable
  <2>3. UNCHANGED <<entry, pass, receipt, descriptor>>
    BY <1>3 DEF DispatchPublishBlocked
  <2>4. \/ PublishStub(t) /\ UNCHANGED response
        \/ UNCHANGED <<artifact, response>>
        \/ \E f \in BOOLEAN : PublishEnvelope(t, BlockedResponse(f)) /\ UNCHANGED artifact
    BY <1>3 DEF DispatchPublishBlocked
  <2>5. QED BY <2>1, <2>2, <2>3, <2>4 DEF svars
<1>4. CASE DispatchDescribe(t)
  BY <1>4 DEF DispatchDescribe, Next, Environment
<1>5. CASE DispatchDie(t)
  BY <1>5 DEF DispatchDie, Next, Dispatcher
<1>6. CASE \/ DispatchBuildFails(t) \/ DispatchStartRefused(t) \/ DispatchSpawn(t)
           \/ DispatchDetachFails(t) \/ DispatcherCrash(t)
  BY <1>6 DEF DispatchBuildFails, DispatchStartRefused, DispatchSpawn, DispatchDetachFails,
              DispatcherCrash
<1> QED BY <1>1, <1>2, <1>3, <1>4, <1>5, <1>6 DEF DispatcherStep

\* The shell writes its receipt and its blocked completion, nothing else.
LEMMA ShellImplements ==
    ASSUME BoardInv, NEW t \in Tasks, ShellStep(t)
    PROVE  Next \/ UNCHANGED svars
<1> USE DEF BoardInv
<1>1. CASE ShellFinalize(t)
  <2>1. descriptor[t] /\ capture[t].outcome \in ReceiptOutcomes
    BY <1>1, BoardOutcomesAssumption
       DEF ShellFinalize, BoardTypeOK, TaskInv, ProcessOrder, CaptureTruth, Launchable
  <2>2. PublishReceipt(t)
    BY <1>1, <2>1 DEF ShellFinalize, PublishReceipt
  <2>3. QED BY <2>2 DEF Next, Environment
<1>2. CASE ShellPublishBlocked(t)
  <2>1. UNCHANGED <<entry, pass, receipt, descriptor>>
    BY <1>2 DEF ShellPublishBlocked
  <2>2. \/ PublishStub(t) /\ UNCHANGED response
        \/ UNCHANGED <<artifact, response>>
        \/ PublishEnvelope(t, BlockedResponse(TRUE)) /\ UNCHANGED artifact
    BY <1>2 DEF ShellPublishBlocked
  <2>3. ASSUME PublishEnvelope(t, BlockedResponse(TRUE)), UNCHANGED artifact PROVE Next
    BY <2>1, <2>3, PublishIsWrite DEF BlockedResponse, Next, Environment, Authorable
  <2>4. QED BY <2>1, <2>2, <2>3, PublishIsWrite DEF Next, Environment, svars
<1>3. CASE \/ ShellLaunch(t) \/ ShellGivesUp(t) \/ ShellCollect(t) \/ ShellExit(t)
           \/ ShellKilled(t)
  BY <1>3 DEF ShellLaunch, ShellGivesUp, ShellCollect, ShellExit, ShellKilled
<1> QED BY <1>1, <1>2, <1>3 DEF ShellStep

\* The launch writes the artifact and the envelope.
LEMMA ChildImplements ==
    ASSUME BoardInv, NEW t \in Tasks, ChildStep(t)
    PROVE  Next \/ UNCHANGED svars
<1> USE DEF BoardInv
<1>1. ASSUME NEW st \in Authorable, NEW q \in BOOLEAN, ChildPublishArtifact(t, st, q)
      PROVE  Next
  BY <1>1 DEF ChildPublishArtifact, Next, Environment, WriteArtifact
<1>2. CASE ChildPublishEnvelope(t)
  <2> DEFINE st == IF capture[t].launched THEN capture[t].outcome ELSE "needs_review"
             q == ~capture[t].launched
  <2>1. st \in Authorable /\ q \in BOOLEAN
    BY DEF TaskInv, CaptureTruth, BoardTypeOK, Authorable
  <2>2. UNCHANGED <<entry, pass, receipt, descriptor, artifact>>
    BY <1>2 DEF ChildPublishEnvelope
  <2>3. \/ PublishEnvelope(t, [st |-> st, fenced |-> TRUE, issue |-> "none",
                               quarantined |-> q])
        \/ UNCHANGED response
    BY <1>2 DEF ChildPublishEnvelope
  <2> HIDE DEF st, q
  <2>4. QED BY <2>1, <2>2, <2>3, PublishIsWrite DEF Next, Environment, svars
<1>3. CASE (\E o \in {"blocked", "denied"} : ChildBlocks(t, o)) \/ ChildKilled(t)
  BY <1>3 DEF ChildBlocks, ChildKilled
<1> QED BY <1>1, <1>2, <1>3 DEF ChildStep

\* The operator writes receipts of described attempts that have none.
LEMMA OperatorImplements ==
    ASSUME BoardInv, NEW t \in Tasks, OperatorStep(t)
    PROVE  Next \/ UNCHANGED svars
<1> USE DEF BoardInv
<1>1. "cancelled" \in ReceiptOutcomes /\ "failed" \in ReceiptOutcomes
  BY BoardOutcomesAssumption DEF AllOutcomes
<1>2. CASE CancelCommit(t)
  <2>1. descriptor[t] /\ receipt[t] = "none"
    BY <1>2 DEF CancelCommit, TaskInv, ProcessOrder, Publication
  <2>2. PublishReceipt(t)
    BY <1>1, <1>2, <2>1 DEF CancelCommit, PublishReceipt
  <2>3. QED BY <2>2 DEF Next, Environment
<1>3. CASE Reap(t)
  BY <1>1, <1>3 DEF Reap, PublishReceipt, Next, Environment
<1>4. CASE CancelKill(t) \/ CancelCrash(t)
  BY <1>4 DEF CancelKill, CancelCrash
<1> QED BY <1>2, <1>3, <1>4 DEF OperatorStep

\* Every step of the board is a step of Settlement or leaves its state alone.
LEMMA BoardImplementsStep ==
    ASSUME BoardInv, [BoardNext]_vars
    PROVE  [Next]_svars
<1>1. CASE RegistryStep
  BY <1>1 DEF RegistryStep, Next
<1>2. CASE UNCHANGED vars
  BY <1>2 DEF vars, svars
<1> QED BY <1>1, <1>2, DispatcherImplements, ShellImplements, ChildImplements,
           OperatorImplements DEF BoardNext

-----------------------------------------------------------------------------
(* Each process keeps the invariant.                                        *)

\* The supervisor shell keeps the types and touches only its own task.
LEMMA ShellFrame ==
    ASSUME BoardTypeOK, NEW t \in Tasks, ShellStep(t)
    PROVE  ProcessTypes' /\ \A u \in Tasks \ {t} : SameTask(u)
<1> USE DEF BoardTypeOK, ProcessTypes, SameTask, ShellStates
<1>1. CASE ShellLaunch(t) \/ ShellGivesUp(t) \/ ShellExit(t)
  BY <1>1 DEF ShellLaunch, ShellGivesUp, ShellExit, ShellGoes, svars
<1>2. CASE ShellCollect(t)
  BY <1>2 DEF ShellCollect, ShellGoes, svars, AllOutcomes
<1>3. CASE ShellFinalize(t)
  BY <1>3 DEF ShellFinalize, TypeOK
<1>4. CASE ShellPublishBlocked(t)
  BY <1>4, ZenonT(40) DEF ShellPublishBlocked, PublishStub, PublishEnvelope, TypeOK
<1>5. CASE ShellKilled(t)
  BY <1>5 DEF ShellKilled, svars
<1> QED BY <1>1, <1>2, <1>3, <1>4, <1>5 DEF ShellStep

\* The supervisor shell keeps the invariant of its task.
LEMMA ShellKeeps ==
    ASSUME BoardInv, NEW t \in Tasks, ShellStep(t)
    PROVE  TaskInv(t)'
<1> USE DEF BoardInv, BoardTypeOK, TypeOK, ShellStates, TaskInv, ShellAlive, ChildAlive
<1>1. CASE ShellLaunch(t)
  BY <1>1 DEF ShellLaunch, ShellGoes, svars, ProcessOrder, CaptureTruth, Publication,
              ReceiptTruth, CompleteTruth, CancelledIsDead, Launchable
<1>2. CASE ShellGivesUp(t) \/ ShellExit(t) \/ ShellKilled(t)
  BY <1>2 DEF ShellGivesUp, ShellExit, ShellKilled, ShellGoes, svars, ProcessOrder, CaptureTruth,
              Publication, ReceiptTruth, CompleteTruth, CancelledIsDead, Launchable
<1>3. CASE ShellCollect(t)
  BY <1>3 DEF ShellCollect, ShellGoes, svars, ProcessOrder, CaptureTruth, Publication,
              ReceiptTruth, CompleteTruth, CancelledIsDead, Launchable, Promoted, AllOutcomes
<1>4. CASE ShellFinalize(t)
  BY <1>4 DEF ShellFinalize, ProcessOrder, CaptureTruth, Publication,
              ReceiptTruth, CompleteTruth, CancelledIsDead, Launchable, Promoted
<1>5. CASE ShellPublishBlocked(t)
  BY <1>5 DEF ShellPublishBlocked, PublishStub, PublishEnvelope, BlockedResponse, ProcessOrder,
              CaptureTruth, Publication, ReceiptTruth, CompleteTruth, CancelledIsDead, Launchable,
              Promoted, Authorable
<1> QED BY <1>1, <1>2, <1>3, <1>4, <1>5 DEF ShellStep

\* The launch keeps the types and touches only its own task.
LEMMA ChildFrame ==
    ASSUME BoardTypeOK, NEW t \in Tasks, ChildStep(t)
    PROVE  ProcessTypes' /\ \A u \in Tasks \ {t} : SameTask(u)
<1> USE DEF BoardTypeOK, ProcessTypes, SameTask, AllOutcomes
<1>1. ASSUME NEW st \in Authorable, NEW q \in BOOLEAN, ChildPublishArtifact(t, st, q)
      PROVE  ProcessTypes' /\ \A u \in Tasks \ {t} : SameTask(u)
  BY <1>1 DEF ChildPublishArtifact, Authorable, TypeOK
<1>2. CASE ChildPublishEnvelope(t)
  <2>1. \/ capture' = capture
        \/ capture' = [capture EXCEPT ![t] = [launched |-> FALSE, outcome |-> "blocked"]]
    BY <1>2 DEF ChildPublishEnvelope
  <2>2. \A u \in Tasks \ {t} : response'[u] = response[u]
    BY <1>2 DEF ChildPublishEnvelope, PublishEnvelope, TypeOK
  <2>3. capture' \in [Tasks -> [launched: BOOLEAN, outcome: AllOutcomes \cup {"none"}]]
    <3>1. [launched |-> FALSE, outcome |-> "blocked"] \in
             [launched: BOOLEAN, outcome: AllOutcomes \cup {"none"}]
      OBVIOUS
    <3> HIDE DEF AllOutcomes
    <3>2. QED BY <2>1, <3>1
  <2>4. ProcessTypes'
    BY <1>2, <2>3 DEF ChildPublishEnvelope
  <2>5. QED BY <1>2, <2>1, <2>2, <2>4 DEF ChildPublishEnvelope
<1>3. ASSUME NEW o \in {"blocked", "denied"}, ChildBlocks(t, o)
      PROVE  ProcessTypes' /\ \A u \in Tasks \ {t} : SameTask(u)
  BY <1>3 DEF ChildBlocks, svars
<1>4. CASE ChildKilled(t)
  BY <1>4 DEF ChildKilled, NoCapture, svars
<1> QED BY <1>1, <1>2, <1>3, <1>4 DEF ChildStep

\* The launch keeps the invariant of its task.
LEMMA ChildKeeps ==
    ASSUME BoardInv, NEW t \in Tasks, ChildStep(t)
    PROVE  TaskInv(t)'
<1> USE DEF BoardInv, BoardTypeOK, TypeOK, ShellStates, TaskInv, ShellAlive, ChildAlive,
            ProcessOrder, CaptureTruth, Publication, ReceiptTruth, CompleteTruth, CancelledIsDead,
            Launchable, Promoted, Authorable, NoCapture
<1>1. ASSUME NEW st \in Authorable, NEW q \in BOOLEAN, ChildPublishArtifact(t, st, q)
      PROVE  TaskInv(t)'
  BY <1>1 DEF ChildPublishArtifact
<1>2. CASE ChildPublishEnvelope(t)
  BY <1>2 DEF ChildPublishEnvelope, PublishEnvelope
<1>3. CASE \E o \in {"blocked", "denied"} : ChildBlocks(t, o)
  BY <1>3 DEF ChildBlocks, svars
<1>4. CASE ChildKilled(t)
  BY <1>4 DEF ChildKilled, svars
<1> QED BY <1>1, <1>2, <1>3, <1>4 DEF ChildStep

\* The operator keeps the types and touches only the task it names.
LEMMA OperatorFrame ==
    ASSUME BoardTypeOK, NEW t \in Tasks, OperatorStep(t)
    PROVE  ProcessTypes' /\ \A u \in Tasks \ {t} : SameTask(u)
<1> USE DEF BoardTypeOK, TypeOK, ProcessTypes, SameTask
<1>1. CASE CancelKill(t)
  BY <1>1 DEF CancelKill, svars, ShellStates
<1>2. CASE CancelCommit(t)
  BY <1>2 DEF CancelCommit, bvars
<1>3. CASE CancelCrash(t)
  BY <1>3 DEF CancelCrash, svars
<1>4. CASE Reap(t)
  BY <1>4 DEF Reap, bvars
<1> QED BY <1>1, <1>2, <1>3, <1>4 DEF OperatorStep

\* The operator keeps the invariant of the task it names.
LEMMA OperatorKeeps ==
    ASSUME BoardInv, NEW t \in Tasks, OperatorStep(t)
    PROVE  TaskInv(t)'
<1> USE DEF BoardInv, BoardTypeOK, TypeOK, TaskInv, ShellAlive, ChildAlive,
            ProcessOrder, CaptureTruth, Publication, ReceiptTruth, CompleteTruth, CancelledIsDead,
            Launchable, Promoted
<1>1. CASE CancelKill(t)
  BY <1>1 DEF CancelKill, svars
<1>2. CASE CancelCommit(t)
  BY <1>2 DEF CancelCommit
<1>3. CASE CancelCrash(t)
  BY <1>3 DEF CancelCrash, svars
<1>4. CASE Reap(t)
  BY <1>4 DEF Reap, bvars
<1> QED BY <1>1, <1>2, <1>3, <1>4 DEF OperatorStep

\* The dispatcher keeps the types and touches only its own task.
LEMMA DispatcherFrame ==
    ASSUME BoardTypeOK, NEW t \in Tasks, DispatcherStep(t)
    PROVE  ProcessTypes' /\ \A u \in Tasks \ {t} : SameTask(u)
<1> USE DEF BoardTypeOK, TypeOK, ProcessTypes, SameTask, DspStates, ShellStates, DispatcherGoes
<1>1. CASE \E k \in ReviewKinds : DispatchRegister(t, k)
  BY <1>1 DEF DispatchRegister, Register, files
<1>2. CASE DispatchBuildFails(t) \/ DispatchStartRefused(t)
  BY <1>2 DEF DispatchBuildFails, DispatchStartRefused, svars
<1>3. CASE DispatchStart(t)
  BY <1>3 DEF DispatchStart, BoardStart, files
<1>4. CASE DispatchPublishBlocked(t)
  BY <1>4 DEF DispatchPublishBlocked, PublishStub, PublishEnvelope
<1>5. CASE DispatchDescribe(t)
  BY <1>5 DEF DispatchDescribe, WriteDescriptor
<1>6. CASE DispatchDetachFails(t) \/ DispatcherCrash(t)
  BY <1>6, ZenonT(40) DEF DispatchDetachFails, DispatcherCrash, svars
<1>7. CASE DispatchDie(t)
  BY <1>7 DEF DispatchDie, DispatcherCancel, StubRetired, svars
<1>8. CASE DispatchSpawn(t)
  BY <1>8 DEF DispatchSpawn, svars
<1> QED BY <1>1, <1>2, <1>3, <1>4, <1>5, <1>6, <1>7, <1>8 DEF DispatcherStep

\* The dispatcher keeps the invariant of its task.  A cancel needs the row never
\* started, or its own shell killed and undescribed.
LEMMA DispatcherKeeps ==
    ASSUME BoardInv, NEW t \in Tasks, DispatcherStep(t)
    PROVE  TaskInv(t)'
<1> USE DEF BoardInv, BoardTypeOK, TypeOK, TaskInv, ShellAlive, ChildAlive,
            ProcessOrder, CaptureTruth, Publication, ReceiptTruth, CompleteTruth, CancelledIsDead,
            DispatcherGoes
<1>0. entry[t] \in Entries
  OBVIOUS
<1>1. ASSUME NEW k \in ReviewKinds, DispatchRegister(t, k) PROVE TaskInv(t)'
  BY <1>1, SMTT(20) DEF DispatchRegister, Register, files, NoEntry
<1>2. CASE DispatchBuildFails(t) \/ DispatchStartRefused(t)
  BY <1>2, SMTT(20) DEF DispatchBuildFails, DispatchStartRefused, svars
<1>3. CASE DispatchStart(t)
  <2>1. /\ entry'[t].started = TRUE /\ entry'[t].status = "in-flight"
        /\ dsp[t] = "registered" /\ dsp'[t] = "started"
    BY <1>0, <1>3 DEF DispatchStart, BoardStart, Entries
  <2>2. QED BY <1>3, <2>1 DEF DispatchStart, BoardStart, files
<1>4. CASE DispatchPublishBlocked(t)
  BY <1>4, SMTT(20) DEF DispatchPublishBlocked, PublishStub, PublishEnvelope, BlockedResponse, Authorable,
              Promoted
<1>5. CASE DispatchSpawn(t)
  BY <1>5 DEF DispatchSpawn, svars, Launchable
<1>6. CASE DispatchDescribe(t)
  BY <1>6 DEF DispatchDescribe, WriteDescriptor
<1>7. CASE DispatchDetachFails(t)
  BY <1>7 DEF DispatchDetachFails, svars, Launchable
<1>8. CASE DispatcherCrash(t)
  BY <1>8 DEF DispatcherCrash, svars
<1>9. CASE DispatchDie(t)
  <2>1. CASE UNCHANGED svars
    BY <1>9, <2>1 DEF DispatchDie, svars
  <2>2. CASE DispatcherCancel(t, dsp[t] = "aborting")
    <3>1. /\ entry'[t].status = "cancelled" /\ entry'[t].started = entry[t].started
          /\ artifact[t] = "work" <=> artifact'[t] = "work"
      BY <1>0, <2>2 DEF DispatcherCancel, MarkDeliveryTerminal, Entries, StubRetired
    <3>2. ~ShellAlive(t) /\ ~ChildAlive(t)
      BY <1>9, <2>2 DEF DispatchDie, DispatcherCancel
    <3>3. QED BY <1>9, <2>2, <3>1, <3>2 DEF DispatchDie, DispatcherCancel
  <2>3. QED BY <1>9, <2>1, <2>2 DEF DispatchDie
<1> QED BY <1>1, <1>2, <1>3, <1>4, <1>5, <1>6, <1>7, <1>8, <1>9 DEF DispatcherStep

-----------------------------------------------------------------------------
(* The registry's own operations.  They write no process, no receipt and no *)
(* descriptor; what they do to a row is bounded by what is on disk.         *)

\* What a registry operation may do to the row and the files of any task.
RegistryEffect(u) ==
    /\ UNCHANGED <<receipt, descriptor, bvars>>
    /\ entry'[u].started = entry[u].started
    /\ artifact'[u] = "work" <=> artifact[u] = "work"
    /\ response[u].st \in {"absent"} \cup Authorable => response'[u].st = response[u].st
    /\ response[u].fenced => response'[u].fenced
    /\ entry'[u].status = "complete" =>
          \/ entry[u].status = "complete"
          \/ response[u].st \in {"complete", "needs_review", "needs_human"}
          \/ receipt[u] \in {"complete", "needs_review", "quarantine"}
    /\ entry'[u].status = "cancelled" =>
          \/ entry[u].status = "cancelled"
          \/ response[u].st = "cancelled"
          \/ receipt[u] = "cancelled"
          \/ ~entry[u].started

\* A task no registry operation names is bounded trivially.
LEMMA UntouchedEffect ==
    ASSUME BoardTypeOK, NEW u \in Tasks, UNCHANGED <<receipt, descriptor, bvars>>,
           entry'[u] = entry[u], artifact'[u] = artifact[u], response'[u] = response[u]
    PROVE  RegistryEffect(u)
BY DEF RegistryEffect

\* A registry operation that stays within its effect keeps a task's invariant.
LEMMA EffectKeeps ==
    ASSUME BoardInv, NEW u \in Tasks, RegistryEffect(u)
    PROVE  TaskInv(u)'
<1> USE DEF BoardInv, BoardTypeOK, TypeOK, TaskInv, RegistryEffect, bvars
<1>1. ProcessOrder(u)'
  BY DEF ProcessOrder, ShellAlive
<1>2. CaptureTruth(u)'
  BY DEF CaptureTruth
<1>3. Publication(u)'
  BY DEF Publication
<1>4. ReceiptTruth(u)'
  BY DEF ReceiptTruth, Publication
<1>5. CompleteTruth(u)'
  BY DEF CompleteTruth, ReceiptTruth, Publication, Promoted, Authorable
<1>6. CancelledIsDead(u)'
  BY DEF CancelledIsDead, ProcessOrder, Publication, ShellAlive, ChildAlive, Authorable
<1> QED BY <1>1, <1>2, <1>3, <1>4, <1>5, <1>6

\* The fields of a row that the sweep marks terminal, holds, settles or ends.
LEMMA SweptRowFields ==
    ASSUME NEW e \in Entries, NEW st, NEW d
    PROVE  /\ MarkDeliveryTerminal(e).status = e.status
           /\ MarkDeliveryTerminal(e).started = e.started
           /\ Held(e).status = "review-required" /\ Held(e).started = e.started
           /\ Settled(e, st, d).status = st /\ Settled(e, st, d).started = e.started
BY DEF MarkDeliveryTerminal, Held, Settled, Entries

\* Likewise of a row that a cancel, a missing envelope or an automatic close ends.
LEMMA EndedRowFields ==
    ASSUME NEW e \in Entries
    PROVE  /\ \A st : /\ [MarkDeliveryTerminal(e) EXCEPT !.status = st].status = st
                      /\ [MarkDeliveryTerminal(e) EXCEPT !.status = st].started = e.started
           /\ [MarkDeliveryTerminal(e) EXCEPT !.status = "closed", !.closedBy = "auto"].status
                 = "closed"
           /\ [MarkDeliveryTerminal(e) EXCEPT !.status = "closed", !.closedBy = "auto"].started
                 = e.started
BY DEF MarkDeliveryTerminal, Entries

\* An operation on one row touches no other; what it may do to its own row.
LEMMA OneRowEffect ==
    ASSUME BoardTypeOK, NEW t \in Tasks, UNCHANGED <<response, receipt, descriptor, bvars>>,
           artifact' \in {artifact, StubRetired(t), StubReleased({t})},
           \A u \in Tasks \ {t} : entry'[u] = entry[u],
           entry'[t].started = entry[t].started,
           entry'[t].status = "complete" =>
              \/ entry[t].status = "complete"
              \/ response[t].st \in {"complete", "needs_review", "needs_human"}
              \/ receipt[t] \in {"complete", "needs_review", "quarantine"},
           entry'[t].status = "cancelled" =>
              \/ entry[t].status = "cancelled"
              \/ response[t].st = "cancelled"
              \/ receipt[t] = "cancelled"
              \/ ~entry[t].started
    PROVE  \A u \in Tasks : RegistryEffect(u)
<1>1. ASSUME NEW u \in Tasks \ {t} PROVE artifact'[u] = artifact[u]
  <2>1. StubRetired(t)[u] = artifact[u] /\ StubReleased({t})[u] = artifact[u]
    BY DEF BoardTypeOK, TypeOK, StubRetired, StubReleased
  <2>2. QED BY <2>1
<1>2. artifact'[t] = "work" <=> artifact[t] = "work"
  <2>1. /\ StubRetired(t)[t] = "work" <=> artifact[t] = "work"
        /\ StubReleased({t})[t] = "work" <=> artifact[t] = "work"
    BY DEF BoardTypeOK, TypeOK, StubRetired, StubReleased
  <2>2. QED BY <2>1
<1>3. ASSUME NEW u \in Tasks \ {t} PROVE RegistryEffect(u)
  BY <1>1, UntouchedEffect
<1>4. RegistryEffect(t)
  BY <1>2 DEF RegistryEffect
<1> QED BY <1>3, <1>4

\* The first step of a pass closes, holds or marks a row, or opens the pass.
LEMMA ScanEffect ==
    ASSUME BoardTypeOK, NEW t \in Tasks, UNCHANGED bvars,
           ReconcileClose(t) \/ ReconcileSettledRow(t) \/ ReconcileScan(t)
    PROVE  \A u \in Tasks : RegistryEffect(u)
<1>0. entry \in [Tasks -> Entries] /\ entry[t] \in Entries
  BY DEF BoardTypeOK, TypeOK
<1>1. CASE ReconcileClose(t)
  <2>1. /\ UNCHANGED <<response, receipt, descriptor>>
        /\ artifact' \in {StubRetired(t), StubReleased({t})}
        /\ \A u \in Tasks \ {t} : entry'[u] = entry[u]
    BY <1>0, <1>1 DEF ReconcileClose, AutoClose
  <2>2. \/ entry'[t] = Held(entry[t])
        \/ /\ receipt[t] = "quarantine"
           /\ entry'[t] = Settled(entry[t], "complete", "transport-quarantine-not-required")
        \/ entry'[t] = [MarkDeliveryTerminal(entry[t]) EXCEPT
                           !.status = "closed", !.closedBy = "auto"]
    BY <1>0, <1>1 DEF ReconcileClose, AutoClose, Quarantine
  <2>3. /\ entry'[t].started = entry[t].started
        /\ \/ entry'[t].status \in {"review-required", "closed"}
           \/ entry'[t].status = "complete" /\ receipt[t] = "quarantine"
    <3>1. CASE entry'[t] = Held(entry[t])
      BY <1>0, <3>1, SweptRowFields
    <3>2. CASE /\ receipt[t] = "quarantine"
               /\ entry'[t] = Settled(entry[t], "complete", "transport-quarantine-not-required")
      BY <1>0, <3>2, SweptRowFields
    <3>3. CASE entry'[t] = [MarkDeliveryTerminal(entry[t]) EXCEPT
                               !.status = "closed", !.closedBy = "auto"]
      BY <1>0, <3>3, EndedRowFields
    <3>4. QED BY <2>2, <3>1, <3>2, <3>3
  <2>4. QED BY <2>1, <2>3, OneRowEffect
<1>2. CASE ReconcileSettledRow(t)
  <2>1. /\ UNCHANGED <<response, receipt, descriptor>> /\ artifact' = StubRetired(t)
        /\ \A u \in Tasks \ {t} : entry'[u] = entry[u]
        /\ entry'[t] = MarkDeliveryTerminal(entry[t])
    BY <1>0, <1>2 DEF ReconcileSettledRow
  <2>2. entry'[t].started = entry[t].started /\ entry'[t].status = entry[t].status
    BY <1>0, <2>1, SweptRowFields
  <2>3. QED BY <2>1, <2>2, OneRowEffect
<1>3. CASE ReconcileScan(t)
  BY <1>3, UntouchedEffect DEF ReconcileScan, files
<1> QED BY <1>1, <1>2, <1>3

\* The second step of a pass settles a row only as far as a response, a receipt
\* or the missing start allows.
LEMMA SettleKeepsEffect ==
    ASSUME BoardTypeOK, NEW t \in Tasks, UNCHANGED bvars, ReconcileSettle(t)
    PROVE  \A u \in Tasks : RegistryEffect(u)
<1>0. entry \in [Tasks -> Entries] /\ entry[t] \in Entries
  BY DEF BoardTypeOK, TypeOK
<1>1. UNCHANGED <<response, receipt, descriptor>>
  BY DEF ReconcileSettle, ReconcileUnusableResponse, ReconcileContractHold, ReconcileResponse,
         ReconcileReceipt, ReconcileNeverLaunched, ReconcileNoEnvelope, ReconcileLeaveOpen, files
<1>2. artifact' \in {artifact, StubRetired(t), StubReleased({t})}
  BY DEF ReconcileSettle, ReconcileUnusableResponse, ReconcileContractHold, ReconcileResponse,
         ReconcileReceipt, ReconcileNeverLaunched, ReconcileNoEnvelope, ReconcileLeaveOpen, files
<1>3. \A u \in Tasks \ {t} : entry'[u] = entry[u]
  BY <1>0 DEF ReconcileSettle, ReconcileUnusableResponse, ReconcileContractHold,
              ReconcileResponse, ReconcileReceipt, ReconcileNeverLaunched, ReconcileNoEnvelope,
              ReconcileLeaveOpen
<1>4. \/ entry'[t] = entry[t]
      \/ entry'[t] = [entry[t] EXCEPT !.status = "in-flight"]
      \/ entry'[t] = Held(entry[t])
      \/ \E d : entry'[t] = Settled(entry[t], ResolveWorkerStatus(t, response[t].st), d)
      \/ \E d : receipt[t] = "quarantine" /\ entry'[t] = Settled(entry[t], "complete", d)
      \/ \E d : entry'[t] = Settled(entry[t], ResolveWorkerStatus(t, ReceiptStatus(t)), d)
      \/ /\ ~entry[t].started
         /\ entry'[t] = [MarkDeliveryTerminal(entry[t]) EXCEPT !.status = "cancelled"]
      \/ entry'[t] = [MarkDeliveryTerminal(entry[t]) EXCEPT !.status = "work-done-no-envelope"]
  <2>1. CASE ReconcileUnusableResponse(t) \/ ReconcileContractHold(t) \/ ReconcileLeaveOpen(t)
    BY <1>0, <2>1 DEF ReconcileUnusableResponse, ReconcileContractHold, ReconcileLeaveOpen
  <2>2. CASE ReconcileResponse(t)
    BY <1>0, <2>2 DEF ReconcileResponse
  <2>3. CASE ReconcileReceipt(t)
    BY <1>0, <2>3 DEF ReconcileReceipt, Quarantine
  <2>4. CASE ReconcileNeverLaunched(t) \/ ReconcileNoEnvelope(t)
    BY <1>0, <2>4 DEF ReconcileNeverLaunched, ReconcileNoEnvelope, NeverLaunched
  <2>5. QED BY <2>1, <2>2, <2>3, <2>4 DEF ReconcileSettle
<1>5. /\ entry'[t].started = entry[t].started
      /\ \/ entry'[t].status = entry[t].status
         \/ entry'[t].status \in {"in-flight", "review-required", "work-done-no-envelope"}
         \/ entry'[t].status = ResolveWorkerStatus(t, response[t].st)
         \/ entry'[t].status = "complete" /\ receipt[t] = "quarantine"
         \/ entry'[t].status = ResolveWorkerStatus(t, ReceiptStatus(t))
         \/ entry'[t].status = "cancelled" /\ ~entry[t].started
  <2>1. /\ [entry[t] EXCEPT !.status = "in-flight"].started = entry[t].started
        /\ [entry[t] EXCEPT !.status = "in-flight"].status = "in-flight"
    BY <1>0 DEF Entries
  <2>2. ASSUME NEW st, NEW d, entry'[t] = Settled(entry[t], st, d)
        PROVE  entry'[t].started = entry[t].started /\ entry'[t].status = st
    BY <1>0, <2>2, SweptRowFields
  <2>3. ASSUME NEW st, entry'[t] = [MarkDeliveryTerminal(entry[t]) EXCEPT !.status = st]
        PROVE  entry'[t].started = entry[t].started /\ entry'[t].status = st
    BY <1>0, <2>3, EndedRowFields
  <2>4. CASE entry'[t] = Held(entry[t])
    BY <1>0, <2>4, SweptRowFields
  <2>5. QED BY <1>4, <2>1, <2>2, <2>3, <2>4
<1>6. /\ entry'[t].status = "complete" =>
            \/ entry[t].status = "complete"
            \/ response[t].st \in {"complete", "needs_review", "needs_human"}
            \/ receipt[t] \in {"complete", "needs_review", "quarantine"}
      /\ entry'[t].status = "cancelled" =>
            \/ entry[t].status = "cancelled"
            \/ response[t].st = "cancelled"
            \/ receipt[t] = "cancelled"
            \/ ~entry[t].started
  BY <1>5 DEF ResolveWorkerStatus, ReceiptStatus
<1> QED BY <1>1, <1>2, <1>3, <1>5, <1>6, OneRowEffect

\* The controller completes a row only over a usable response, and a repair
\* keeps the status a worker authored.
LEMMA ControllerEffect ==
    ASSUME BoardTypeOK, NEW t \in Tasks, UNCHANGED bvars, Controller(t)
    PROVE  \A u \in Tasks : RegistryEffect(u)
<1>0. /\ entry \in [Tasks -> Entries] /\ entry[t] \in Entries
      /\ response \in [Tasks -> Responses] /\ response[t] \in Responses
  BY DEF BoardTypeOK, TypeOK
<1>1. ASSUME NEW v \in {"APPROVE", "other"}, SettleReview(t, v)
      PROVE  \A u \in Tasks : RegistryEffect(u)
  <2>1. /\ UNCHANGED <<response, receipt, descriptor, artifact>>
        /\ \A u \in Tasks \ {t} : entry'[u] = entry[u]
        /\ response[t].st \in {"complete", "needs_review", "needs_human"}
    BY <1>0, <1>1 DEF SettleReview, files
  <2>2. entry'[t].started = entry[t].started /\ entry'[t].status = "complete"
    BY <1>0, <1>1 DEF SettleReview, Entries
  <2>3. QED BY <2>1, <2>2, OneRowEffect
<1>2. ASSUME NEW r \in {"default", "needs_review", "needs_rework"}, ReopenTask(t, r)
      PROVE  \A u \in Tasks : RegistryEffect(u)
  <2>1. /\ UNCHANGED <<response, receipt, descriptor, artifact>>
        /\ \A u \in Tasks \ {t} : entry'[u] = entry[u]
    BY <1>0, <1>2 DEF ReopenTask, files
  <2>2. /\ entry'[t].started = entry[t].started
        /\ entry'[t].status \in {"needs_review", "needs_rework"}
    BY <1>0, <1>2 DEF ReopenTask, ReopenTargets, Entries
  <2>3. QED BY <2>1, <2>2, OneRowEffect
<1>3. CASE RepairEnvelope(t)
  <2>1. /\ UNCHANGED <<receipt, descriptor, artifact>>
        /\ \A u \in Tasks \ {t} : entry'[u] = entry[u] /\ response'[u] = response[u]
    BY <1>0, <1>3 DEF RepairEnvelope
  <2>2. /\ entry'[t].started = entry[t].started
        /\ entry'[t].status \in {entry[t].status, "needs_review"}
    BY <1>0, <1>3 DEF RepairEnvelope, Entries
  <2>3. PICK st \in CoerceStatus(response[t].st) :
           response' = [response EXCEPT ![t] =
                           [@ EXCEPT !.st = st, !.fenced = TRUE, !.issue = "none"]]
    BY <1>3 DEF RepairEnvelope
  <2>4. response'[t].fenced /\ response'[t].st = st
    BY <1>0, <2>3 DEF Responses
  <2>5. response[t].st \in {"absent"} \cup Authorable => st = response[t].st
    BY DEF CoerceStatus, Authorable
  <2>6. RegistryEffect(t)
    BY <2>1, <2>2, <2>4, <2>5 DEF RegistryEffect
  <2>7. QED BY <2>1, <2>6, UntouchedEffect
<1> QED BY <1>1, <1>2, <1>3 DEF Controller

\* A batch close closes rows and releases stubs.
LEMMA CloseEffect ==
    ASSUME BoardTypeOK, NEW S \in SUBSET Tasks, NEW target \in LifecycleClosed,
           UNCHANGED bvars, CloseTasks(S, target)
    PROVE  \A u \in Tasks : RegistryEffect(u)
<1> SUFFICES ASSUME NEW u \in Tasks PROVE RegistryEffect(u)
  OBVIOUS
<1>0. entry[u] \in Entries /\ artifact \in [Tasks -> {"none", "stub", "work"}]
  BY DEF BoardTypeOK, TypeOK
<1>1. UNCHANGED <<response, receipt, descriptor>>
  BY DEF CloseTasks
<1>2. artifact'[u] = "work" <=> artifact[u] = "work"
  BY <1>0 DEF CloseTasks, StubReleased
<1>3. \/ entry'[u] = entry[u]
      \/ entry'[u] = [entry[u] EXCEPT !.status = target, !.closedBy = "explicit"]
  BY DEF CloseTasks
<1>4. /\ entry'[u].started = entry[u].started
      /\ entry'[u].status \in {entry[u].status, target}
  BY <1>0, <1>3 DEF Entries
<1> QED BY <1>1, <1>2, <1>4 DEF RegistryEffect, LifecycleClosed

\* The registry's operations keep the invariant of every task.
LEMMA RegistryKeeps ==
    ASSUME BoardInv, RegistryStep
    PROVE  ProcessTypes' /\ \A u \in Tasks : TaskInv(u)'
<1>1. BoardTypeOK /\ UNCHANGED bvars
  BY DEF BoardInv, RegistryStep
<1>2. ProcessTypes'
  BY <1>1 DEF BoardTypeOK, ProcessTypes, bvars
<1>3. \A u \in Tasks : RegistryEffect(u)
  <2>1. ASSUME NEW t \in Tasks, Reconcile(t) PROVE \A u \in Tasks : RegistryEffect(u)
    BY <1>1, <2>1, ScanEffect, SettleKeepsEffect DEF Reconcile
  <2>2. ASSUME NEW t \in Tasks, Controller(t) PROVE \A u \in Tasks : RegistryEffect(u)
    BY <1>1, <2>2, ControllerEffect
  <2>3. ASSUME NEW S \in SUBSET Tasks, NEW target \in LifecycleClosed, CloseTasks(S, target)
        PROVE  \A u \in Tasks : RegistryEffect(u)
    BY <1>1, <2>3, CloseEffect
  <2>4. QED BY <2>1, <2>2, <2>3 DEF RegistryStep
<1>4. QED BY <1>2, <1>3, EffectKeeps

\* The invariant is inductive.
LEMMA BoardInvInductive ==
    ASSUME BoardInv, [BoardNext]_vars
    PROVE  BoardInv'
<1>1. TypeOK'
  BY BoardImplementsStep, TypeInductive DEF BoardInv, BoardTypeOK
<1>2. CASE RegistryStep
  BY <1>1, <1>2, RegistryKeeps DEF BoardInv, BoardTypeOK, ProcessTypes
<1>3. ASSUME NEW t \in Tasks, DispatcherStep(t) PROVE BoardInv'
  BY <1>1, <1>3, DispatcherFrame, DispatcherKeeps, OneTaskStep DEF BoardInv
<1>4. ASSUME NEW t \in Tasks, ShellStep(t) PROVE BoardInv'
  BY <1>1, <1>4, ShellFrame, ShellKeeps, OneTaskStep DEF BoardInv
<1>5. ASSUME NEW t \in Tasks, ChildStep(t) PROVE BoardInv'
  BY <1>1, <1>5, ChildFrame, ChildKeeps, OneTaskStep DEF BoardInv
<1>6. ASSUME NEW t \in Tasks, OperatorStep(t) PROVE BoardInv'
  BY <1>1, <1>6, OperatorFrame, OperatorKeeps, OneTaskStep DEF BoardInv
<1>7. CASE UNCHANGED vars
  <2>1. ProcessTypes' /\ \A u \in Tasks : SameTask(u)
    BY <1>7 DEF vars, BoardInv, BoardTypeOK, ProcessTypes, SameTask
  <2>2. QED BY <1>1, <2>1, TaskUnchanged DEF BoardInv, BoardTypeOK, ProcessTypes
<1> QED BY <1>2, <1>3, <1>4, <1>5, <1>6, <1>7 DEF BoardNext

-----------------------------------------------------------------------------
(* The theorems.                                                            *)

\* Every reachable state of a board satisfies the invariant.
LEMMA BoardInvariant == BoardSpec => []BoardInv
BY BoardInitInv, BoardInvInductive, PTL DEF BoardSpec

(* Rows, files and processes keep their types through every crash, kill,    *)
(* cancel and reap of send-task.sh, board-supervisor.sh and the operator.   *)
THEOREM BoardTypeCorrect == BoardSpec => []BoardTypeOK
<1>1. BoardInv => BoardTypeOK
  BY DEF BoardInv
<1> QED BY <1>1, BoardInvariant, PTL

(* The board implements Settlement: dispatcher, supervisor, launch and      *)
(* operator write nothing that Settlement's open writers do not, so what    *)
(* is proved of the registry there holds of the running board.              *)
THEOREM BoardImplementsSettlement == BoardSpec => Spec
<1>1. BoardInit => Init
  BY DEF BoardInit
<1>2. BoardInv /\ [BoardNext]_vars => [Next]_svars
  BY BoardImplementsStep
<1> QED BY <1>1, <1>2, BoardInvariant, PTL DEF BoardSpec, Spec

(* A row cancelled as never launched has no worker, for any number of tasks *)
(* and any order of dispatcher, sweep and supervisor (send-task.sh die(),   *)
(* the sweep's never-launched cancel).                                      *)
THEOREM CancelledNeverRunsInvariant == BoardSpec => []CancelledNeverRuns
<1>1. BoardInv => CancelledNeverRuns
  BY DEF BoardInv, TaskInv, CancelledIsDead, CancelledNeverRuns, ShellAlive, ChildAlive
<1> QED BY <1>1, BoardInvariant, PTL

(* A receipt that claims worker output follows the publication of the       *)
(* artifact and of the fenced envelope (board-supervisor.sh finalize).      *)
THEOREM ReceiptFollowsPromotionInvariant == BoardSpec => []ReceiptFollowsPromotion
<1>1. BoardInv => ReceiptFollowsPromotion
  BY DEF BoardInv, TaskInv, ReceiptTruth, ReceiptFollowsPromotion, Promoted
<1> QED BY <1>1, BoardInvariant, PTL

(* No row is complete without the worker's artifact: not through a blocked  *)
(* stub, a reap, a reopen, a repair or a controller settlement.             *)
THEOREM CompleteHasWorkInvariant == BoardSpec => []CompleteHasWork
<1>1. BoardInv => CompleteHasWork
  BY DEF BoardInv, TaskInv, CompleteTruth, CompleteHasWork
<1> QED BY <1>1, BoardInvariant, PTL

(* What is proved of Settlement with arbitrary file writers holds of the    *)
(* board: owed reviews are held, automatic closes are justified, reopened   *)
(* rows stay open, and explicit settlements and closures are final.         *)
THEOREM BoardRegistrySafe ==
    BoardSpec => /\ [](ReviewHold /\ AutoCloseJustified /\ ReopenedStaysOpen)
                 /\ SettlementOutranksReceipts
                 /\ ClosedLeavesOnlyByRepair
BY BoardImplementsSettlement, ReviewHoldInvariant, AutoCloseInvariant, ReopenedInvariant,
   SettlementOutranks, ClosedIsFinal, PTL

-----------------------------------------------------------------------------
(* LockDir. *)

AllLive == \A p \in Procs : pc[p] # "gone"

\* Between making the directory and removing it.
Inside(p) == pc[p] \in {"mark", "critical", "unlink", "rmdir"}

(* A break follows a process that is gone.  While nobody is gone, the       *)
(* directory exists exactly while one process is inside, and the marker     *)
(* names that process except just after it made and just before it removes  *)
(* the directory.                                                           *)
DirInv ==
    /\ DirTypeOK
    /\ \A p \in Procs : pc[p] \in {"break-unlink", "break-rmdir"} => ~AllLive
    /\ AllLive =>
         /\ \A p, q \in Procs : Inside(p) /\ Inside(q) => p = q
         /\ dir => \E p \in Procs : Inside(p)
         /\ \A p \in Procs : Inside(p) => dir
         /\ \A p \in Procs : pc[p] \in Holding => owner = p
         /\ \A p \in Procs : pc[p] \in {"mark", "rmdir"} => owner = NoProc

\* DirInv holds initially and every step keeps it.
LEMMA DirInvInductive ==
    /\ DirInit => DirInv
    /\ DirInv /\ [DirNext]_dvars => DirInv'
<1> USE NoProcAssumption DEF DirInv, DirTypeOK, AllLive, Inside, Waiting, Holding
<1>1. DirInit => DirInv
  BY DEF DirInit
<1>2. ASSUME DirInv, DirNext PROVE DirInv'
  <2> SUFFICES ASSUME NEW p \in Procs,
                      \/ Enter(p) \/ WaiterStep(p) \/ Leave(p) \/ ReleaseUnlink(p)
                      \/ ReleaseRmdir(p) \/ Gone(p)
               PROVE  DirInv'
    BY <1>2 DEF DirNext
  <2>1. CASE Enter(p)         BY <1>2, <2>1 DEF Enter, Goes
  <2>2. CASE Mkdir(p)         BY <1>2, <2>2 DEF Mkdir, Goes
  <2>3. CASE WriteOwner(p)    BY <1>2, <2>3 DEF WriteOwner, Goes
  <2>4. CASE ReadOwner(p)     BY <1>2, <2>4 DEF ReadOwner, Goes
  <2>5. CASE ProbeOwner(p)    BY <1>2, <2>5 DEF ProbeOwner, WaitOrTimeout, Goes, Aged
  <2>6. CASE BreakUnlink(p)   BY <1>2, <2>6 DEF BreakUnlink, Unlink, Goes
  <2>7. CASE BreakRmdir(p)    BY <1>2, <2>7, ZenonT(40) DEF BreakRmdir, WaitOrTimeout, Goes
  <2>8. CASE Leave(p)         BY <1>2, <2>8 DEF Leave, Goes
  <2>9. CASE ReleaseUnlink(p) BY <1>2, <2>9 DEF ReleaseUnlink, Unlink, Goes
  <2>10. CASE ReleaseRmdir(p) BY <1>2, <2>10 DEF ReleaseRmdir, Goes
  <2>11. CASE Gone(p)         BY <1>2, <2>11 DEF Gone
  <2>12. QED BY <2>1, <2>2, <2>3, <2>4, <2>5, <2>6, <2>7, <2>8, <2>9, <2>10, <2>11
             DEF WaiterStep
<1>3. DirInv /\ UNCHANGED dvars => DirInv'
  BY DEF dvars
<1> QED BY <1>1, <1>2, <1>3

\* The directory, the marker and the program counters keep their types.
THEOREM DirTypeCorrect == DirSpec => []DirTypeOK
<1>1. DirInv => DirTypeOK
  BY DEF DirInv
<1> QED BY <1>1, DirInvInductive, PTL DEF DirSpec

(* While no process has gone, the lock directory of a process inside its    *)
(* critical section still names it, although every acquisition and every    *)
(* release shows a directory without a marker for a moment.                 *)
THEOREM KeepsLockInvariant == DirSpec => []KeepsLockWhileAllLive
<1>1. DirInv => KeepsLockWhileAllLive
  BY DEF DirInv, KeepsLockWhileAllLive, LiveOwnerKeepsLock, AllLive, Inside, Holding
<1> QED BY <1>1, DirInvInductive, PTL DEF DirSpec

-----------------------------------------------------------------------------
(* The composition: a behaviour of MCBoard is of one part throughout, and a *)
(* behaviour that delivers through a pool or a lane is one of Delivery, so  *)
(* the theorems of DeliveryProofs speak of it.                              *)

\* The part a behaviour is of never changes.
LEMMA PartStays ==
    ASSUME NEW p, [PartNext]_partVars
    PROVE  (part = p)' <=> part = p
BY DEF PartNext, Stopped, partVars

\* Two tasks of one pooled worker.
LEMMA PoolPart ==
    PartSpec => [](part = "pool" => /\ Pool!DeliveryTypeOK
                                    /\ Pool!OneTaskPerWorker
                                    /\ Pool!CurrentFenceSettles)
<1>1. PartInit /\ part = "pool" => Pool!DeliveryInit
  BY DEF PartInit
<1>2. [PartNext]_partVars /\ part = "pool" => [Pool!DeliveryNext]_(Pool!deliveryVars)
  BY DEF PartNext, Stopped, partVars, deliveryVars, Pool!deliveryVars
<1>3. [PartNext]_partVars => ((part = "pool")' <=> part = "pool")
  BY PartStays
<1>4. /\ Pool!DeliverySpec => []Pool!DeliveryTypeOK
      /\ Pool!DeliverySpec => []Pool!OneTaskPerWorker
      /\ Pool!DeliverySpec => []Pool!CurrentFenceSettles
  BY Pool!DeliveryTypeCorrect, Pool!OneTaskPerWorkerInvariant, Pool!CurrentFenceInvariant,
     InstanceAssumption
<1> QED
  BY <1>1, <1>2, <1>3, <1>4, PTL DEF PartSpec, Pool!DeliverySpec

\* Two tasks of one unpooled lane, the first with a pinned capability card.
LEMMA LanePart ==
    PartSpec => /\ [](part = "lane" => Lane!NoOvertaking /\ Lane!PinnedAttemptSettles)
                /\ [][part = "lane" => Lane!RetryKeepsReceipts]_partVars
<1>1. PartInit /\ part = "lane" => Lane!DeliveryInit
  BY DEF PartInit
<1>2. [PartNext]_partVars /\ part = "lane" => [Lane!DeliveryNext]_(Lane!deliveryVars)
  BY DEF PartNext, Stopped, partVars, deliveryVars, Lane!deliveryVars
<1>3. [PartNext]_partVars => ((part = "lane")' <=> part = "lane")
  BY PartStays
<1>4. /\ Lane!DeliverySpec => []Lane!NoOvertaking
      /\ Lane!DeliverySpec => []Lane!PinnedAttemptSettles
  BY Lane!NoOvertakingInvariant, Lane!PinnedAttemptInvariant, InstanceAssumption
<1>5. Lane!DeliverySpec => [][Lane!RetryKeepsReceipts]_(Lane!deliveryVars)
  BY Lane!RetryKeepsReceiptsAlways, InstanceAssumption
<1>6. Lane!DeliverySpec => []Lane!DeliveryTypeOK
  BY Lane!DeliveryTypeCorrect, InstanceAssumption
<1>7. ASSUME Lane!DeliveryTypeOK, [Lane!RetryKeepsReceipts]_(Lane!deliveryVars)
      PROVE  Lane!RetryKeepsReceipts
  <2>1. \A t \in {t1, t2} : reg[t] # None => reg[t].lease \in 0..1
    BY <1>7 DEF Lane!DeliveryTypeOK, Lane!Entries
  <2>2. \A t \in {t1, t2} : reg[t] # None => reg[t].lease <= reg[t].lease
    BY <2>1
  <2> QED
    BY <1>7, <2>2 DEF Lane!deliveryVars, Lane!RetryKeepsReceipts
<1> QED
  BY <1>1, <1>2, <1>3, <1>4, <1>5, <1>6, <1>7, PTL DEF PartSpec, Lane!DeliverySpec

\* claim_task, worker_response_issue, _delivery_head, capability_pin_echo,
\* register_task: one task in progress for each pooled worker, settled by the
\* answer of the present fence; in a lane no task overtakes one that waits, an
\* answer for another capability card never passes, and a retried registration
\* takes nothing back.
THEOREM AttemptIsCurrentAlways == PartSpec => AttemptIsCurrent
BY PoolPart, LanePart, PTL DEF AttemptIsCurrent
=============================================================================
