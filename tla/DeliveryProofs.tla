--------------------------- MODULE DeliveryProofs ---------------------------
(***************************************************************************)
(* Proofs about Delivery, for any tasks, workers, leases and responses.    *)
(***************************************************************************)
EXTENDS Delivery, TLAPS

Answers == [fence : Fences \cup {None}, attempt : BOOLEAN, pin : Pins,
            bundle : Bundles, at : 0..MaxTime]

\* What landed and what passed are answers.
AnswersOK ==
  /\ visible \in [Tasks -> SUBSET Tasks]
  /\ resp \in [Tasks -> Answers \cup {None}]
  /\ passed \in [Tasks -> Answers \cup {None}]

\* Only pooled tasks are assigned.
UnpooledUnassigned == \A t \in Tasks \ Pooled : reg[t] # None => reg[t].worker = None

\* What passed the gate left the queue for good.
PassedIsSettled ==
  \A t \in Tasks : passed[t] # None => reg[t].status = "settled" /\ reg[t].state = "terminal"

\* A fence is handed out only for a registered task.
HandedOut == \A f \in tokens : reg[f.task] # None

DeliveryInv ==
  /\ DeliveryTypeOK /\ AnswersOK /\ HandedOut /\ UnpooledUnassigned /\ PassedIsSettled
  /\ OneTaskPerWorker /\ NoOvertaking /\ CurrentFenceSettles /\ PinnedAttemptSettles

\* A step that leaves the entries, the queue's history and the answers alone.
LEMMA EntriesUntouched ==
  ASSUME DeliveryInv, UNCHANGED <<reg, visible, tokens, claimed, resp, passed>>,
         epoch' \in [Workers -> 1..MaxEpoch], clock' \in 0..MaxTime
  PROVE  DeliveryInv'
<1>1. DeliveryTypeOK'
  BY DEF DeliveryInv, DeliveryTypeOK, InProgress, Fence
<1>2. AnswersOK' /\ HandedOut' /\ UnpooledUnassigned' /\ PassedIsSettled'
  BY DEF DeliveryInv, AnswersOK, HandedOut, UnpooledUnassigned, PassedIsSettled
<1>3. OneTaskPerWorker' /\ NoOvertaking'
  BY DEF DeliveryInv, OneTaskPerWorker, NoOvertaking, InProgress, OpenHere
<1>4. CurrentFenceSettles' /\ PinnedAttemptSettles'
  BY DEF DeliveryInv, CurrentFenceSettles, PinnedAttemptSettles, Fence
<1> QED
  BY <1>1, <1>2, <1>3, <1>4 DEF DeliveryInv

\* A registered task stays registered.
LEMMA HandedStays ==
  ASSUME DeliveryInv, NEW f, tokens' \subseteq tokens \cup {f},
         f \in tokens' => reg'[f.task] # None,
         \A u \in Tasks : reg[u] # None => reg'[u] # None
  PROVE  HandedOut'
<1>1. \A g \in tokens : g.task \in Tasks /\ reg[g.task] # None
  BY DEF DeliveryInv, DeliveryTypeOK, HandedOut, Fences
<1> QED
  BY <1>1 DEF HandedOut

\* The same where no fence is handed out.
LEMMA HandedKept ==
  ASSUME DeliveryInv, tokens' = tokens,
         \A u \in Tasks : reg[u] # None => reg'[u] # None
  PROVE  HandedOut'
<1>1. \A g \in tokens : g.task \in Tasks /\ reg[g.task] # None
  BY DEF DeliveryInv, DeliveryTypeOK, HandedOut, Fences
<1> QED
  BY <1>1 DEF HandedOut

\* A landed answer changes nothing the registry says.
LEMMA LandingSafe ==
  ASSUME DeliveryInv, NEW t \in Tasks, NEW r \in Answers, reg[t] # None,
         resp' = [resp EXCEPT ![t] = r],
         UNCHANGED <<reg, visible, epoch, tokens, claimed, passed, clock>>
  PROVE  DeliveryInv'
<1>1. DeliveryTypeOK'
  BY DEF DeliveryInv, DeliveryTypeOK, AnswersOK, InProgress, Fence
<1>2. AnswersOK' /\ HandedOut' /\ UnpooledUnassigned' /\ PassedIsSettled'
  BY DEF DeliveryInv, AnswersOK, HandedOut, UnpooledUnassigned, PassedIsSettled
<1>3. OneTaskPerWorker' /\ NoOvertaking'
  BY DEF DeliveryInv, OneTaskPerWorker, NoOvertaking, InProgress, OpenHere
<1>4. CurrentFenceSettles' /\ PinnedAttemptSettles'
  BY DEF DeliveryInv, CurrentFenceSettles, PinnedAttemptSettles, Fence
<1> QED
  BY <1>1, <1>2, <1>3, <1>4 DEF DeliveryInv

\* register_task: a first registration is neither assigned nor started, and
\* knows what was in progress then; a retry only fills in a target.
LEMMA RegisterSafe ==
  ASSUME DeliveryAssumption, DeliveryInv, NEW t \in Tasks, NEW target \in Targets,
         register_task(t, target)
  PROVE  DeliveryInv'
<1>1. UNCHANGED <<epoch, tokens, claimed, resp, passed, clock>>
  BY DEF register_task
<1>2. AnswersOK'
  BY <1>1 DEF DeliveryInv, AnswersOK, register_task
<1>a. DeliveryTypeOK /\ AnswersOK /\ reg \in [Tasks -> Entries \cup {None}] /\ None \notin Entries
  BY DEF DeliveryInv, DeliveryTypeOK, DeliveryAssumption
<1>3. CASE reg[t] = None /\ reg' = [reg EXCEPT ![t] = New(t, target)]
              /\ visible' = [visible EXCEPT ![t] = {u \in Tasks : InProgress(u)}]
  <2>1. New(t, target) \in Entries
    BY DEF New, Entries, DeliveryAssumption
  <2>2. reg' \in [Tasks -> Entries \cup {None}] /\ reg'[t] \in Entries /\ reg'[t] # None
    BY <1>3, <1>a, <2>1
  <2>3. reg'[t].worker = None /\ reg'[t].state = "queued"
    BY <1>3, <1>a DEF New
  <2>4. \A u \in Tasks : u # t => reg'[u] = reg[u]
    BY <1>3, <1>a
  <2>5. passed[t] = None /\ resp[t] = None
    BY <1>3, <1>a DEF DeliveryTypeOK
  <2>6. \A u \in Tasks : InProgress(u)' <=> InProgress(u)
    BY <1>3, <2>3, <2>4 DEF InProgress
  <2>7. DeliveryTypeOK'
    <3>1. \A u \in Tasks : (InProgress(u)' /\ reg'[u].worker # None) => Fence(u)' \in claimed
      BY <1>3, <1>a, <2>3, <2>4, <2>6 DEF DeliveryTypeOK, Fence
    <3> QED  BY <1>1, <1>a, <2>2, <2>4, <3>1 DEF DeliveryTypeOK
  <2>8. UnpooledUnassigned' /\ PassedIsSettled'
    BY <1>1, <2>3, <2>4, <2>5 DEF DeliveryInv, UnpooledUnassigned, PassedIsSettled
  <2>9. OneTaskPerWorker'
    BY <2>3, <2>4, <2>6 DEF DeliveryInv, OneTaskPerWorker
  <2>10. NoOvertaking'
    <3> SUFFICES ASSUME NEW s \in Tasks \ Pooled, NEW u \in Tasks \ Pooled,
                        InProgress(s)', OpenHere(u)', reg'[u].state = "queued",
                        DispatchedAt[u] < DispatchedAt[s]
                 PROVE  s \in visible'[u]
      BY DEF NoOvertaking
    <3>1. InProgress(s)
      BY <2>6
    <3>2. CASE u # t
      <4>1. OpenHere(u) /\ reg[u].state = "queued"
        BY <3>2, <2>4 DEF OpenHere
      <4>2. s \in visible[u]
        BY <3>1, <4>1 DEF DeliveryInv, NoOvertaking
      <4> QED  BY <3>2, <4>2, <1>3
    <3>3. CASE u = t
      BY <3>1, <3>3, <1>3, <1>a DEF AnswersOK
    <3> QED  BY <3>2, <3>3
  <2>11. CurrentFenceSettles' /\ PinnedAttemptSettles'
    BY <1>1, <2>3, <2>4 DEF DeliveryInv, CurrentFenceSettles, PinnedAttemptSettles, Fence
  <2>12. HandedOut'
    BY <1>1, <2>2, <2>4, HandedKept
  <2> QED
    BY <1>2, <2>7, <2>8, <2>9, <2>10, <2>11, <2>12 DEF DeliveryInv
<1>4. CASE reg[t] # None /\ reg' = [reg EXCEPT ![t].reviews = target] /\ visible' = visible
  <2>1. reg[t] \in Entries /\ [reg[t] EXCEPT !.reviews = target] \in Entries
    BY <1>4, <1>a DEF Entries
  <2>2. reg' \in [Tasks -> Entries \cup {None}] /\ reg'[t] # None
    BY <1>4, <1>a, <2>1
  <2>3. \A u \in Tasks : /\ (reg'[u] = None) <=> (reg[u] = None)
                         /\ reg[u] # None =>
                              /\ reg'[u].worker = reg[u].worker /\ reg'[u].state = reg[u].state
                              /\ reg'[u].status = reg[u].status /\ reg'[u].epoch = reg[u].epoch
                              /\ reg'[u].lease = reg[u].lease /\ reg'[u].cancelled = reg[u].cancelled
    BY <1>4, <1>a, <2>1, <2>2 DEF Entries
  <2>4. \A u \in Tasks : (InProgress(u)' <=> InProgress(u)) /\ (OpenHere(u)' <=> OpenHere(u))
    BY <2>3 DEF InProgress, OpenHere
  <2>5. \A u \in Tasks : reg[u] # None => Fence(u)' = Fence(u)
    BY <2>3 DEF Fence
  <2>6. DeliveryTypeOK'
    <3>1. \A u \in Tasks : (InProgress(u)' /\ reg'[u].worker # None) => Fence(u)' \in claimed
      BY <1>a, <2>3, <2>4, <2>5 DEF DeliveryTypeOK, InProgress
    <3> QED  BY <1>1, <1>a, <2>2, <2>3, <3>1 DEF DeliveryTypeOK
  <2>7. UnpooledUnassigned' /\ PassedIsSettled'
    BY <1>1, <1>a, <2>3 DEF DeliveryInv, UnpooledUnassigned, PassedIsSettled, DeliveryTypeOK
  <2>8. OneTaskPerWorker' /\ NoOvertaking'
    BY <1>4, <2>3, <2>4 DEF DeliveryInv, OneTaskPerWorker, NoOvertaking, InProgress, OpenHere
  <2>9. CurrentFenceSettles' /\ PinnedAttemptSettles'
    BY <1>1, <1>a, <2>3, <2>5 DEF DeliveryInv, CurrentFenceSettles, PinnedAttemptSettles, DeliveryTypeOK
  <2>10. HandedOut'
    BY <1>1, <2>3, HandedKept
  <2> QED
    BY <1>2, <2>6, <2>7, <2>8, <2>9, <2>10 DEF DeliveryInv
<1> QED
  BY <1>3, <1>4 DEF register_task

\* The scheduler hands a queued or expired pooled task to a worker that has
\* nothing in progress.
LEMMA AssignSafe ==
  ASSUME DeliveryAssumption, DeliveryInv, NEW t \in Tasks, NEW w \in Workers,
         NEW leased \in BOOLEAN, Assign(t, w, leased)
  PROVE  DeliveryInv'
<1> DEFINE e == [reg[t] EXCEPT !.worker = w, !.epoch = epoch[w], !.lease = reg[t].lease + 1,
                   !.state = "queued", !.assigned = "assigned",
                   !.expires = IF leased THEN clock + LeaseTime ELSE None]
           f == [task |-> t, worker |-> w, epoch |-> epoch[w], lease |-> reg[t].lease + 1]
<1>1. /\ DeliveryTypeOK /\ AnswersOK /\ reg \in [Tasks -> Entries \cup {None}]
      /\ None \notin Entries /\ None \notin Workers /\ LeaseTime \in Nat /\ MaxTime \in Nat
      /\ MaxLease \in Nat /\ MaxEpoch \in Nat
  BY DEF DeliveryInv, DeliveryTypeOK, DeliveryAssumption
<1>2. /\ t \in Pooled /\ reg[t] # None /\ reg[t].status = "in-flight" /\ reg[t].lease < MaxLease
      /\ UNCHANGED <<visible, epoch, claimed, resp, passed, clock>>
      /\ tokens' = tokens \cup {f}
      /\ reg' = [reg EXCEPT ![t] = e]
  BY DEF Assign
<1>3. reg[t] \in Entries /\ epoch[w] \in 1..MaxEpoch /\ clock \in 0..MaxTime
  BY <1>1, <1>2 DEF DeliveryTypeOK
<1>4. e \in Entries /\ e.worker = w /\ e.state = "queued"
  <2>1. /\ reg[t].lease + 1 \in 0..MaxLease /\ epoch[w] \in 0..MaxEpoch
        /\ (IF leased THEN clock + LeaseTime ELSE None) \in Nat \cup {None}
    <3>1. reg[t].lease \in 0..MaxLease
      BY <1>3 DEF Entries
    <3> QED  BY <1>1, <1>2, <1>3, <3>1
  <2> QED  BY <1>3, <2>1 DEF Entries
<1>5. f \in Fences
  BY <1>1, <1>2, <1>3 DEF Fences, Entries
<1> HIDE DEF e, f
<1>6. /\ reg' \in [Tasks -> Entries \cup {None}] /\ reg'[t] = e /\ reg'[t] # None
      /\ \A u \in Tasks : u # t => reg'[u] = reg[u]
  BY <1>1, <1>2, <1>4
<1>7. passed[t] = None
  BY <1>2 DEF DeliveryInv, PassedIsSettled
<1>8. ~InProgress(t)'
  BY <1>4, <1>6 DEF InProgress
<1>9. \A u \in Tasks : InProgress(u)' => u # t /\ InProgress(u)
  BY <1>6, <1>8 DEF InProgress
<1>10. DeliveryTypeOK'
  <2>1. \A u \in Tasks : (InProgress(u)' /\ reg'[u].worker # None) => Fence(u)' \in claimed
    BY <1>1, <1>6, <1>9 DEF DeliveryTypeOK, Fence
  <2>2. \A u \in Tasks : (resp'[u] # None \/ passed'[u] # None) => reg'[u] # None
    BY <1>1, <1>2, <1>6 DEF DeliveryTypeOK
  <2> QED  BY <1>1, <1>2, <1>5, <1>6, <2>1, <2>2 DEF DeliveryTypeOK
<1>11. AnswersOK' /\ UnpooledUnassigned' /\ PassedIsSettled'
  BY <1>1, <1>2, <1>6, <1>7 DEF DeliveryInv, AnswersOK, UnpooledUnassigned, PassedIsSettled
<1>12. OneTaskPerWorker'
  BY <1>6, <1>9 DEF DeliveryInv, OneTaskPerWorker
<1>13. NoOvertaking'
  BY <1>2, <1>6, <1>9 DEF DeliveryInv, NoOvertaking, OpenHere
<1>14. CurrentFenceSettles' /\ PinnedAttemptSettles'
  BY <1>2, <1>6, <1>7 DEF DeliveryInv, CurrentFenceSettles, PinnedAttemptSettles, Fence
<1>15. HandedOut'
  <2>1. f.task = t
    BY DEF f
  <2> QED  BY <1>2, <1>6, <2>1, HandedStays
<1> QED
  BY <1>10, <1>11, <1>12, <1>13, <1>14, <1>15 DEF DeliveryInv

\* claim_task without a fence: the head of the lane starts.
LEMMA ClaimUnpooledSafe ==
  ASSUME DeliveryAssumption, DeliveryInv, NEW t \in Tasks, ClaimUnpooled(t)
  PROVE  DeliveryInv'
<1> DEFINE e == [reg[t] EXCEPT !.state = "in-progress", !.startedAt = clock]
<1>1. /\ DeliveryTypeOK /\ AnswersOK /\ reg \in [Tasks -> Entries \cup {None}]
      /\ None \notin Entries /\ MaxTime \in Nat
  BY DEF DeliveryInv, DeliveryTypeOK, DeliveryAssumption
<1>2. /\ reg[t] # None /\ reg[t].worker = None /\ reg[t].status = "in-flight"
      /\ _delivery_head(t)
      /\ UNCHANGED <<visible, epoch, tokens, claimed, resp, passed, clock>>
      /\ reg' = [reg EXCEPT ![t] = e]
  BY DEF ClaimUnpooled
<1>3. reg[t] \in Entries /\ clock \in 0..MaxTime
  BY <1>1, <1>2 DEF DeliveryTypeOK
<1>4. e \in Entries /\ e.worker = None /\ e.state = "in-progress"
  <2>1. clock \in Nat /\ reg[t].worker = None
    BY <1>1, <1>2, <1>3
  <2> QED  BY <1>3, <2>1 DEF Entries
<1> HIDE DEF e
<1>6. /\ reg' \in [Tasks -> Entries \cup {None}] /\ reg'[t] = e /\ reg'[t] # None
      /\ \A u \in Tasks : u # t => reg'[u] = reg[u]
  BY <1>1, <1>2, <1>4
<1>7. passed[t] = None
  BY <1>2 DEF DeliveryInv, PassedIsSettled
<1>8. \A u \in Tasks : InProgress(u)' => u = t \/ InProgress(u)
  BY <1>6 DEF InProgress
<1>10. DeliveryTypeOK'
  <2>1. \A u \in Tasks : (InProgress(u)' /\ reg'[u].worker # None) => Fence(u)' \in claimed
    BY <1>1, <1>4, <1>6, <1>8 DEF DeliveryTypeOK, Fence
  <2>2. \A u \in Tasks : (resp'[u] # None \/ passed'[u] # None) => reg'[u] # None
    BY <1>1, <1>2, <1>6 DEF DeliveryTypeOK
  <2> QED  BY <1>1, <1>2, <1>6, <2>1, <2>2 DEF DeliveryTypeOK
<1>11. AnswersOK' /\ UnpooledUnassigned' /\ PassedIsSettled'
  BY <1>1, <1>2, <1>4, <1>6, <1>7 DEF DeliveryInv, AnswersOK, UnpooledUnassigned, PassedIsSettled
<1>12. OneTaskPerWorker'
  BY <1>4, <1>6, <1>8 DEF DeliveryInv, OneTaskPerWorker
<1>13. NoOvertaking'
  <2> SUFFICES ASSUME NEW s \in Tasks \ Pooled, NEW u \in Tasks \ Pooled,
                      InProgress(s)', OpenHere(u)', reg'[u].state = "queued",
                      DispatchedAt[u] < DispatchedAt[s]
               PROVE  s \in visible[u]
    BY <1>2 DEF NoOvertaking
  <2>1. u # t /\ OpenHere(u) /\ reg[u].state = "queued"
    BY <1>4, <1>6 DEF OpenHere
  <2>2. CASE s = t
    <3>1. DispatchedAt[s] <= DispatchedAt[u]
      BY <1>2, <2>1, <2>2 DEF _delivery_head
    <3> QED  BY <3>1 DEF DeliveryAssumption
  <2>3. CASE s # t
    BY <2>1, <2>3, <1>8 DEF DeliveryInv, NoOvertaking
  <2> QED  BY <2>2, <2>3
<1>14. CurrentFenceSettles' /\ PinnedAttemptSettles'
  BY <1>2, <1>6, <1>7 DEF DeliveryInv, CurrentFenceSettles, PinnedAttemptSettles, Fence
<1>15. HandedOut'
  BY <1>2, <1>6, HandedKept
<1> QED
  BY <1>10, <1>11, <1>12, <1>13, <1>14, <1>15 DEF DeliveryInv

\* claim_task with a fence: the worker's one task starts, or the delivery of an
\* expired lease ends; neither happens to a task that passed the gate.
LEMMA ClaimPooledSafe ==
  ASSUME DeliveryAssumption, DeliveryInv, NEW f \in tokens, ClaimPooled(f)
  PROVE  DeliveryInv'
<1> DEFINE t == f.task
           gone == [reg[t] EXCEPT !.state = "terminal", !.assigned = "expired",
                                  !.cancelled = TRUE]
           begun == [reg[t] EXCEPT !.state = "in-progress", !.assigned = "in-progress",
                        !.startedAt = IF reg[t].startedAt = None THEN clock ELSE reg[t].startedAt]
<1>1. /\ DeliveryTypeOK /\ AnswersOK /\ reg \in [Tasks -> Entries \cup {None}]
      /\ None \notin Entries /\ MaxTime \in Nat /\ f \in Fences
  BY DEF DeliveryInv, DeliveryTypeOK, DeliveryAssumption
<1>2. /\ reg[t] # None /\ reg[t].worker # None /\ f = Fence(t)
      /\ UNCHANGED <<visible, epoch, tokens, resp, passed, clock>>
      /\ \/ reg[t].state \in Open /\ reg' = [reg EXCEPT ![t] = gone] /\ claimed' = claimed
         \/ /\ WorkerFree(t, f.worker) /\ reg[t].status = "in-flight" /\ reg[t].state = "queued"
            /\ reg' = [reg EXCEPT ![t] = begun] /\ claimed' = claimed \cup {f}
  BY DEF ClaimPooled
<1>3. t \in Tasks /\ clock \in 0..MaxTime
  BY <1>1 DEF DeliveryTypeOK, Fences
<1>4. reg[t] \in Entries
  BY <1>1, <1>2, <1>3
<1>5. /\ gone \in Entries /\ gone.worker = reg[t].worker /\ gone.state = "terminal"
      /\ begun \in Entries /\ begun.worker = reg[t].worker /\ begun.state = "in-progress"
      /\ begun.epoch = reg[t].epoch /\ begun.lease = reg[t].lease
      /\ begun.status = reg[t].status
  <2>1. (IF reg[t].startedAt = None THEN clock ELSE reg[t].startedAt) \in Nat \cup {None}
    BY <1>1, <1>3, <1>4 DEF Entries
  <2>2. gone \in Entries /\ gone.worker = reg[t].worker /\ gone.state = "terminal"
    BY <1>4 DEF Entries
  <2>3. /\ begun \in Entries /\ begun.worker = reg[t].worker /\ begun.state = "in-progress"
        /\ begun.epoch = reg[t].epoch /\ begun.lease = reg[t].lease
        /\ begun.status = reg[t].status
    BY <1>4, <2>1 DEF Entries
  <2> QED  BY <2>2, <2>3
<1> DEFINE e == reg'[t]
<1> HIDE DEF t, gone, begun
<1>6. /\ reg' \in [Tasks -> Entries \cup {None}] /\ e \in {gone, begun} /\ reg'[t] # None
      /\ \A u \in Tasks : u # t => reg'[u] = reg[u]
  BY <1>1, <1>2, <1>3, <1>5
<1>7. passed[t] = None
  BY <1>2, <1>3 DEF DeliveryInv, PassedIsSettled, Open
<1>8. t \in Pooled
  BY <1>2, <1>3 DEF DeliveryInv, UnpooledUnassigned
<1>9. InProgress(t)' => /\ WorkerFree(t, reg[t].worker) /\ f \in claimed'
                        /\ reg'[t].worker = reg[t].worker /\ Fence(t)' = f
  BY <1>2, <1>3, <1>5, <1>6 DEF InProgress, Fence
<1>10. DeliveryTypeOK'
  <2>1. \A u \in Tasks : (InProgress(u)' /\ reg'[u].worker # None) => Fence(u)' \in claimed'
    BY <1>1, <1>2, <1>6, <1>9 DEF DeliveryTypeOK, Fence, InProgress
  <2>2. \A u \in Tasks : (resp'[u] # None \/ passed'[u] # None) => reg'[u] # None
    BY <1>1, <1>2, <1>6 DEF DeliveryTypeOK
  <2>3. claimed' \subseteq tokens'
    BY <1>1, <1>2 DEF DeliveryTypeOK
  <2> QED  BY <1>1, <1>2, <1>6, <2>1, <2>2, <2>3 DEF DeliveryTypeOK
<1>11. AnswersOK' /\ UnpooledUnassigned' /\ PassedIsSettled'
  BY <1>1, <1>2, <1>6, <1>7, <1>8 DEF DeliveryInv, AnswersOK, UnpooledUnassigned, PassedIsSettled
<1>12. OneTaskPerWorker'
  <2>1. ASSUME NEW u \in Tasks, u # t, InProgress(u), InProgress(t)'
        PROVE  reg[u].worker # reg'[t].worker
    BY <2>1, <1>9 DEF WorkerFree, OpenHere, InProgress, Open
  <2>2. \A u \in Tasks : u # t => (InProgress(u)' <=> InProgress(u))
    BY <1>6 DEF InProgress
  <2> QED  BY <1>6, <2>1, <2>2 DEF DeliveryInv, OneTaskPerWorker
<1>13. NoOvertaking'
  <2>1. \A u \in Tasks \ Pooled : u # t /\ reg'[u] = reg[u]
    BY <1>6, <1>8
  <2> QED  BY <1>2, <2>1 DEF DeliveryInv, NoOvertaking, InProgress, OpenHere
<1>14. CurrentFenceSettles' /\ PinnedAttemptSettles'
  BY <1>2, <1>6, <1>7 DEF DeliveryInv, CurrentFenceSettles, PinnedAttemptSettles, Fence
<1>15. HandedOut'
  BY <1>2, <1>6, HandedKept
<1> QED
  BY <1>10, <1>11, <1>12, <1>13, <1>14, <1>15 DEF DeliveryInv

\* The gate: what passes is the answer of the fence the task is assigned to and
\* of the card it was dispatched with; what is held changes only what is said
\* of it.
LEMMA ReconcileSafe ==
  ASSUME DeliveryAssumption, DeliveryInv, NEW t \in Tasks, ReconcileResponse(t)
  PROVE  DeliveryInv'
<1> DEFINE pin == capability_pin_echo(t)
           worker == worker_response_issue(t)
           d == update_capability_card_drift(t)
           held == [reg[t] EXCEPT !.drift = d, !.pinIssue = pin, !.workerIssue = worker]
           hash == [reg[t] EXCEPT !.drift = d, !.hashIssue = TRUE]
           clean == [reg[t] EXCEPT !.drift = d, !.pinIssue = FALSE, !.workerIssue = FALSE,
                       !.hashIssue = FALSE]
           done == [clean EXCEPT !.echoAbsent = PinEchoAbsent(t),
                      !.leaseAbsent = worker_lease_absence(t),
                      !.status = "settled", !.state = "terminal"]
<1>1. /\ DeliveryTypeOK /\ AnswersOK /\ reg \in [Tasks -> Entries \cup {None}]
      /\ None \notin Entries
  BY DEF DeliveryInv, DeliveryTypeOK, DeliveryAssumption
<1>2. /\ reg[t] # None /\ resp[t] # None /\ reg[t].status = "in-flight"
      /\ UNCHANGED <<visible, epoch, tokens, claimed, resp, clock>>
      /\ \/ reg' = [reg EXCEPT ![t] = held] /\ passed' = passed
         \/ reg' = [reg EXCEPT ![t] = hash] /\ passed' = passed
         \/ /\ ~pin /\ ~worker
            /\ reg' = [reg EXCEPT ![t] = done] /\ passed' = [passed EXCEPT ![t] = resp[t]]
  BY DEF ReconcileResponse
<1>3. reg[t] \in Entries
  BY <1>1, <1>2
<1>4. /\ pin \in BOOLEAN /\ worker \in BOOLEAN /\ d \in BOOLEAN
      /\ PinEchoAbsent(t) \in BOOLEAN /\ worker_lease_absence(t) \in BOOLEAN
  <2>1. resp[t].attempt \in BOOLEAN /\ reg[t].cancelled \in BOOLEAN
    BY <1>1, <1>2, <1>3 DEF AnswersOK, Answers, Entries
  <2> QED
    BY <2>1 DEF capability_pin_echo, worker_response_issue, update_capability_card_drift,
       PinEchoAbsent, worker_lease_absence
<1> DEFINE Same(e) == /\ e \in Entries /\ e.worker = reg[t].worker /\ e.epoch = reg[t].epoch
                      /\ e.lease = reg[t].lease /\ e.cancelled = reg[t].cancelled
<1> HIDE DEF pin, worker, d
<1>5. /\ Same(held) /\ held.status = reg[t].status /\ held.state = reg[t].state
      /\ Same(hash) /\ hash.status = reg[t].status /\ hash.state = reg[t].state
  BY <1>3, <1>4, ZenonT(40) DEF Entries
<1>6. Same(done) /\ done.status = "settled" /\ done.state = "terminal"
  <2>1. Same(clean)
    BY <1>3, <1>4 DEF Entries
  <2> HIDE DEF clean
  <2>2. done \in Entries
    BY <1>4, <2>1 DEF Entries
  <2>3. /\ done.worker = clean.worker /\ done.epoch = clean.epoch /\ done.lease = clean.lease
        /\ done.cancelled = clean.cancelled /\ done.status = "settled"
        /\ done.state = "terminal"
    BY <2>1 DEF Entries
  <2> QED  BY <2>1, <2>2, <2>3
<1> HIDE DEF held, hash, clean, done
<1>7. \E e \in {held, hash, done} : reg' = [reg EXCEPT ![t] = e]
  BY <1>2
<1>8. /\ reg' \in [Tasks -> Entries \cup {None}] /\ Same(reg'[t]) /\ reg'[t] # None
      /\ \A u \in Tasks : u # t => reg'[u] = reg[u]
  BY <1>1, <1>5, <1>6, <1>7
<1>9. \/ passed' = passed /\ reg'[t].status = reg[t].status /\ reg'[t].state = reg[t].state
      \/ /\ ~pin /\ ~worker /\ passed' = [passed EXCEPT ![t] = resp[t]]
         /\ reg'[t].status = "settled" /\ reg'[t].state = "terminal"
  BY <1>1, <1>2, <1>5, <1>6
<1>10. passed[t] = None
  BY <1>2 DEF DeliveryInv, PassedIsSettled
<1>a. /\ \A u \in Tasks : u # t => passed'[u] = passed[u]
      /\ \/ passed'[t] = None
         \/ /\ ~pin /\ ~worker /\ passed'[t] = resp[t]
            /\ reg'[t].status = "settled" /\ reg'[t].state = "terminal"
  BY <1>1, <1>9, <1>10 DEF AnswersOK
<1>11. \A u \in Tasks : /\ reg[u] # None => Fence(u)' = Fence(u)
                        /\ InProgress(u)' => InProgress(u)
                        /\ OpenHere(u)' => OpenHere(u) /\ reg'[u].state = reg[u].state
  BY <1>2, <1>8, <1>9 DEF Fence, InProgress, OpenHere
<1>12. \A u \in Tasks : reg[u] # None => reg'[u].worker = reg[u].worker
  BY <1>8
<1>13. DeliveryTypeOK'
  <2>1. \A u \in Tasks : (InProgress(u)' /\ reg'[u].worker # None) => Fence(u)' \in claimed
    BY <1>1, <1>11, <1>12 DEF DeliveryTypeOK, InProgress
  <2>2. \A u \in Tasks : (resp'[u] # None \/ passed'[u] # None) => reg'[u] # None
    BY <1>1, <1>2, <1>8, <1>a DEF DeliveryTypeOK
  <2> QED  BY <1>1, <1>2, <1>8, <2>1, <2>2 DEF DeliveryTypeOK
<1>14. AnswersOK'
  BY <1>1, <1>2, <1>9 DEF AnswersOK
<1>15. UnpooledUnassigned'
  BY <1>2, <1>8 DEF DeliveryInv, UnpooledUnassigned
<1>16. PassedIsSettled'
  BY <1>8, <1>a DEF DeliveryInv, PassedIsSettled
<1>17. OneTaskPerWorker'
  BY <1>11, <1>12 DEF DeliveryInv, OneTaskPerWorker, InProgress
<1>18. NoOvertaking'
  BY <1>2, <1>11 DEF DeliveryInv, NoOvertaking
<1>19. CurrentFenceSettles'
  <2> SUFFICES ASSUME NEW u \in Tasks, passed'[u] # None, reg'[u].worker # None
               PROVE  passed'[u].fence = Fence(u)' /\ ~reg'[u].cancelled
    BY DEF CurrentFenceSettles
  <2>1. CASE u # t
    <3>1. passed'[u] = passed[u] /\ reg'[u] = reg[u]
      BY <2>1, <1>8, <1>a
    <3> QED  BY <3>1 DEF DeliveryInv, CurrentFenceSettles, Fence
  <2>2. CASE u = t
    <3>1. ~worker /\ passed'[t] = resp[t]
      BY <2>2, <1>a
    <3>2. reg[t].worker # None
      BY <2>2, <1>8
    <3>3. resp[t].fence = Fence(t) /\ ~reg[t].cancelled
      BY <3>1, <3>2 DEF worker, worker_response_issue
    <3> QED  BY <2>2, <3>1, <3>3, <1>2, <1>8, <1>11
  <2> QED  BY <2>1, <2>2
<1>20. PinnedAttemptSettles'
  <2> SUFFICES ASSUME NEW u \in Tasks \cap Pinned, passed'[u] # None
               PROVE  passed'[u].pin = "card" \/ (passed'[u].pin = None /\ passed'[u].attempt)
    BY DEF PinnedAttemptSettles
  <2>1. CASE u # t
    BY <2>1, <1>a DEF DeliveryInv, PinnedAttemptSettles
  <2>2. CASE u = t
    <3>1. ~pin /\ passed'[t] = resp[t]
      BY <2>2, <1>a
    <3>2. resp[t].pin \in {"card", "other", None}
      BY <1>1, <1>2 DEF AnswersOK, Answers, DeliveryAssumption
    <3> QED  BY <2>2, <3>1, <3>2 DEF pin, capability_pin_echo
  <2> QED  BY <2>1, <2>2
<1>21. HandedOut'
  BY <1>2, <1>8, HandedKept
<1> QED
  BY <1>13, <1>14, <1>15, <1>16, <1>17, <1>18, <1>19, <1>20, <1>21 DEF DeliveryInv

\* An answer, pooled or not, lands for a task that is registered.
LEMMA RespondSafe ==
  ASSUME DeliveryAssumption, DeliveryInv, NEW p \in Pins, NEW b \in Bundles,
         \/ \E f \in tokens : Respond(f, p, b)
         \/ \E t \in Tasks, a \in BOOLEAN : RespondUnpooled(t, a, p, b)
  PROVE  DeliveryInv'
<1>1. clock \in 0..MaxTime /\ tokens \subseteq Fences
  BY DEF DeliveryInv, DeliveryTypeOK
<1>2. ASSUME NEW f \in tokens, Respond(f, p, b)
      PROVE  DeliveryInv'
  <2>1. f \in claimed /\ f \in Fences /\ f.task \in Tasks
    BY <1>1, <1>2 DEF Respond, Fences
  <2>2. Response(f, TRUE, p, b) \in Answers
    BY <1>1, <2>1 DEF Response, Answers
  <2>3. resp' = [resp EXCEPT ![f.task] = Response(f, TRUE, p, b)]
        /\ UNCHANGED <<reg, visible, epoch, tokens, claimed, passed, clock>>
    BY <1>2 DEF Respond
  <2>4. reg[f.task] # None
    BY <2>1 DEF DeliveryInv, HandedOut
  <2> QED  BY <2>1, <2>2, <2>3, <2>4, LandingSafe
<1>3. ASSUME NEW t \in Tasks, NEW a \in BOOLEAN, RespondUnpooled(t, a, p, b)
      PROVE  DeliveryInv'
  <2>1. Response(None, a, p, b) \in Answers
    BY <1>1 DEF Response, Answers
  <2>2. /\ reg[t] # None /\ resp' = [resp EXCEPT ![t] = Response(None, a, p, b)]
        /\ UNCHANGED <<reg, visible, epoch, tokens, claimed, passed, clock>>
    BY <1>3 DEF RespondUnpooled, InProgress
  <2> QED  BY <2>1, <2>2, LandingSafe
<1> QED
  BY <1>2, <1>3

\* No step of a dispatcher, scheduler, worker or sweep leaves the invariant.
LEMMA DeliveryStep ==
  ASSUME DeliveryAssumption, DeliveryInv, [DeliveryNext]_deliveryVars
  PROVE  DeliveryInv'
<1>1. /\ epoch \in [Workers -> 1..MaxEpoch] /\ clock \in 0..MaxTime
      /\ MaxEpoch \in Nat /\ MaxTime \in Nat
  BY DEF DeliveryInv, DeliveryTypeOK, DeliveryAssumption
<1>2. ASSUME NEW t \in Tasks, LandManifest(t)
      PROVE  DeliveryInv'
  BY <1>1, <1>2, EntriesUntouched DEF LandManifest
<1>3. ASSUME NEW w \in Workers, Restart(w)
      PROVE  DeliveryInv'
  <2>1. epoch' \in [Workers -> 1..MaxEpoch]
    BY <1>1, <1>3 DEF Restart
  <2> QED  BY <1>1, <1>3, <2>1, EntriesUntouched DEF Restart
<1>4. CASE Tick
  <2>1. clock' \in 0..MaxTime
    BY <1>1, <1>4 DEF Tick
  <2> QED  BY <1>1, <1>4, <2>1, EntriesUntouched DEF Tick
<1>5. CASE EditCard
  BY <1>1, <1>5, EntriesUntouched DEF EditCard
<1>6. CASE UNCHANGED deliveryVars
  BY <1>1, <1>6, EntriesUntouched DEF deliveryVars
<1> QED
  BY <1>2, <1>3, <1>4, <1>5, <1>6, RegisterSafe, AssignSafe, ClaimUnpooledSafe,
     ClaimPooledSafe, RespondSafe, ReconcileSafe DEF DeliveryNext

\* Nothing is registered, handed out or answered at the start.
LEMMA DeliveryStart ==
  ASSUME DeliveryAssumption, DeliveryInit
  PROVE  DeliveryInv
<1>1. /\ \A t \in Tasks : reg[t] = None /\ resp[t] = None /\ passed[t] = None
      /\ tokens = {} /\ claimed = {}
  BY DEF DeliveryInit
<1>2. DeliveryTypeOK
  BY <1>1 DEF DeliveryInit, DeliveryTypeOK, DeliveryAssumption, InProgress
<1>3. AnswersOK
  BY DEF DeliveryInit, AnswersOK
<1>4. HandedOut /\ UnpooledUnassigned /\ PassedIsSettled
  BY <1>1 DEF HandedOut, UnpooledUnassigned, PassedIsSettled
<1>5. OneTaskPerWorker /\ NoOvertaking /\ CurrentFenceSettles /\ PinnedAttemptSettles
  BY <1>1 DEF OneTaskPerWorker, NoOvertaking, CurrentFenceSettles, PinnedAttemptSettles,
     InProgress
<1> QED
  BY <1>2, <1>3, <1>4, <1>5 DEF DeliveryInv

\* register_task, claim_task and the response gate keep the inductive invariant.
THEOREM DeliveryInvariant ==
  ASSUME DeliveryAssumption
  PROVE  DeliverySpec => []DeliveryInv
<1>1. DeliveryInit => DeliveryInv
  BY DeliveryStart
<1>2. DeliveryInv /\ [DeliveryNext]_deliveryVars => DeliveryInv'
  BY DeliveryStep
<1> QED
  BY <1>1, <1>2, PTL DEF DeliverySpec

\* The registry's delivery fields keep their shape, an assigned task in progress
\* was started by a claim with its present fence.
THEOREM DeliveryTypeCorrect ==
  ASSUME DeliveryAssumption
  PROVE  DeliverySpec => []DeliveryTypeOK
<1>1. DeliveryInv => DeliveryTypeOK
  BY DEF DeliveryInv
<1> QED
  BY <1>1, DeliveryInvariant, PTL

\* claim_task: a worker has one task in progress.
THEOREM OneTaskPerWorkerInvariant ==
  ASSUME DeliveryAssumption
  PROVE  DeliverySpec => []OneTaskPerWorker
<1>1. DeliveryInv => OneTaskPerWorker
  BY DEF DeliveryInv
<1> QED
  BY <1>1, DeliveryInvariant, PTL

\* _delivery_head: no task of an unpooled lane overtakes one that was
\* registered before it started.
THEOREM NoOvertakingInvariant ==
  ASSUME DeliveryAssumption
  PROVE  DeliverySpec => []NoOvertaking
<1>1. DeliveryInv => NoOvertaking
  BY DEF DeliveryInv
<1> QED
  BY <1>1, DeliveryInvariant, PTL

\* worker_response_issue: a late answer of an earlier lease or epoch never
\* settles a task.
THEOREM CurrentFenceInvariant ==
  ASSUME DeliveryAssumption
  PROVE  DeliverySpec => []CurrentFenceSettles
<1>1. DeliveryInv => CurrentFenceSettles
  BY DEF DeliveryInv
<1> QED
  BY <1>1, DeliveryInvariant, PTL

\* capability_pin_echo: a response that asserts another card never passes.
THEOREM PinnedAttemptInvariant ==
  ASSUME DeliveryAssumption
  PROVE  DeliverySpec => []PinnedAttemptSettles
<1>1. DeliveryInv => PinnedAttemptSettles
  BY DEF DeliveryInv
<1> QED
  BY <1>1, DeliveryInvariant, PTL

\* An entry keeps its receipts when only one entry is replaced, by one that
\* has them.
LEMMA ReceiptsKept ==
  ASSUME DeliveryAssumption, DeliveryInv, NEW t \in Tasks,
         \A u \in Tasks : u # t => reg'[u] = reg[u],
         reg[t] # None =>
           /\ reg'[t] # None
           /\ reg[t].startedAt # None => reg'[t].startedAt # None
           /\ reg[t].reviews # None => reg'[t].reviews = reg[t].reviews
           /\ reg[t].lease <= reg'[t].lease
  PROVE  RetryKeepsReceipts
<1>1. reg \in [Tasks -> Entries \cup {None}] /\ MaxLease \in Nat
  BY DEF DeliveryInv, DeliveryTypeOK, DeliveryAssumption
<1>2. \A u \in Tasks : reg[u] # None => reg[u].lease <= reg[u].lease
  BY <1>1 DEF Entries
<1> QED
  BY <1>2 DEF RetryKeepsReceipts

\* register_task, claim_task and the sweep: no step forgets that a task was
\* registered or started, whom it reviews, or takes back a lease.
THEOREM RetryKeepsReceiptsAlways ==
  ASSUME DeliveryAssumption
  PROVE  DeliverySpec => [][RetryKeepsReceipts]_deliveryVars
<1>1. ASSUME DeliveryInv, DeliveryNext
      PROVE  RetryKeepsReceipts
  <2>1. reg \in [Tasks -> Entries \cup {None}] /\ None \notin Entries /\ MaxLease \in Nat
        /\ clock \in Nat /\ None \notin Nat
    BY <1>1 DEF DeliveryInv, DeliveryTypeOK, DeliveryAssumption
  <2>2. \A u \in Tasks : reg[u] # None => reg[u] \in Entries /\ reg[u].lease \in Nat
    BY <2>1 DEF Entries
  <2>a. ASSUME NEW t \in Tasks, NEW e, reg' = [reg EXCEPT ![t] = e]
        PROVE  reg'[t] = e /\ \A u \in Tasks : u # t => reg'[u] = reg[u]
    BY <2>1, <2>a
  <2>3. CASE reg' = reg
    BY <2>2, <2>3 DEF RetryKeepsReceipts
  <2>4. ASSUME NEW t \in Tasks, NEW target \in Targets, register_task(t, target)
        PROVE  RetryKeepsReceipts
    <3>1. CASE reg[t] = None /\ reg' = [reg EXCEPT ![t] = New(t, target)]
      <4>1. \A u \in Tasks : u # t => reg'[u] = reg[u]
        BY <2>1, <3>1
      <4> QED  BY <1>1, <3>1, <4>1, ReceiptsKept
    <3>2. CASE reg[t] # None /\ reg[t].reviews = None
                 /\ reg' = [reg EXCEPT ![t].reviews = target]
      <4> DEFINE e == [reg[t] EXCEPT !.reviews = target]
      <4>1. /\ e \in Entries /\ e.startedAt = reg[t].startedAt /\ e.lease = reg[t].lease
        BY <2>2, <3>2 DEF Entries
      <4>2. reg'[t] = e /\ \A u \in Tasks : u # t => reg'[u] = reg[u]
        BY <2>1, <3>2
      <4> HIDE DEF e
      <4> QED  BY <1>1, <2>1, <2>2, <3>2, <4>1, <4>2, ReceiptsKept
    <3> QED  BY <2>4, <3>1, <3>2 DEF register_task
  <2>5. ASSUME NEW t \in Tasks, NEW w \in Workers, NEW leased \in BOOLEAN,
               Assign(t, w, leased)
        PROVE  RetryKeepsReceipts
    <3> DEFINE e == [reg[t] EXCEPT !.worker = w, !.epoch = epoch[w], !.lease = reg[t].lease + 1,
                       !.state = "queued", !.assigned = "assigned",
                       !.expires = IF leased THEN clock + LeaseTime ELSE None]
    <3>a. reg[t] # None /\ reg' = [reg EXCEPT ![t] = e]
      BY <2>5 DEF Assign
    <3>1. reg[t] # None /\ reg'[t] = e /\ \A u \in Tasks : u # t => reg'[u] = reg[u]
      BY <3>a, <2>a
    <3>2. e.startedAt = reg[t].startedAt /\ e.reviews = reg[t].reviews
          /\ e.lease = reg[t].lease + 1
      BY <2>2, <3>1 DEF Entries
    <3>3. reg'[t] # None
      <4> DEFINE f == [task |-> t, worker |-> w, epoch |-> epoch[w],
                       lease |-> reg[t].lease + 1]
      <4>1. f \in tokens' /\ f.task = t
        BY <2>5, Zenon DEF Assign
      <4> HIDE DEF f
      <4> QED  BY <1>1, <2>5, <4>1, AssignSafe DEF DeliveryInv, HandedOut
    <3>4. e # None
      BY <2>1, <3>1, <3>3
    <3> HIDE DEF e
    <3> QED  BY <1>1, <2>2, <3>1, <3>2, <3>4, ReceiptsKept
  <2>6. ASSUME NEW t \in Tasks, ClaimUnpooled(t)
        PROVE  RetryKeepsReceipts
    <3> DEFINE e == [reg[t] EXCEPT !.state = "in-progress", !.startedAt = clock]
    <3>a. reg[t] # None /\ reg' = [reg EXCEPT ![t] = e]
      BY <2>6 DEF ClaimUnpooled
    <3>1. reg[t] \in Entries /\ reg'[t] = e /\ \A u \in Tasks : u # t => reg'[u] = reg[u]
      BY <2>2, <3>a, <2>a
    <3>2. /\ e \in Entries /\ e.startedAt = clock /\ e.reviews = reg[t].reviews
          /\ e.lease = reg[t].lease
      BY <2>1, <3>1 DEF Entries
    <3> HIDE DEF e
    <3> QED  BY <1>1, <2>1, <2>2, <3>a, <3>1, <3>2, ReceiptsKept
  <2>7. ASSUME NEW f \in tokens, ClaimPooled(f)
        PROVE  RetryKeepsReceipts
    <3> DEFINE t == f.task
               gone == [reg[t] EXCEPT !.state = "terminal", !.assigned = "expired",
                                      !.cancelled = TRUE]
               begun == [reg[t] EXCEPT !.state = "in-progress", !.assigned = "in-progress",
                            !.startedAt = IF reg[t].startedAt = None THEN clock
                                          ELSE reg[t].startedAt]
    <3>1. /\ reg[t] # None
          /\ reg' = [reg EXCEPT ![t] = gone] \/ reg' = [reg EXCEPT ![t] = begun]
      BY <2>7 DEF ClaimPooled
    <3>2. t \in Tasks
      BY <1>1 DEF DeliveryInv, DeliveryTypeOK, Fences
    <3>3. /\ gone \in Entries /\ gone.startedAt = reg[t].startedAt
          /\ gone.reviews = reg[t].reviews /\ gone.lease = reg[t].lease
      BY <2>2, <3>1, <3>2, ZenonT(40) DEF Entries
    <3>4. /\ begun \in Entries /\ begun.startedAt # None
          /\ begun.reviews = reg[t].reviews /\ begun.lease = reg[t].lease
      <4>1. reg[t] \in Entries
        BY <2>2, <3>1, <3>2
      <4>2. (IF reg[t].startedAt = None THEN clock ELSE reg[t].startedAt) \in Nat
        BY <2>1, <4>1 DEF Entries
      <4> QED  BY <2>1, <4>1, <4>2 DEF Entries
    <3> HIDE DEF t, gone, begun
    <3>5. CASE reg' = [reg EXCEPT ![t] = gone]
      <4>1. reg'[t] = gone /\ \A u \in Tasks : u # t => reg'[u] = reg[u]
        BY <2>a, <3>2, <3>5
      <4> QED  BY <1>1, <2>1, <2>2, <3>1, <3>2, <3>3, <4>1, ReceiptsKept
    <3>6. CASE reg' = [reg EXCEPT ![t] = begun]
      <4>1. reg'[t] = begun /\ \A u \in Tasks : u # t => reg'[u] = reg[u]
        BY <2>a, <3>2, <3>6
      <4> QED  BY <1>1, <2>1, <2>2, <3>1, <3>2, <3>4, <4>1, ReceiptsKept
    <3> QED  BY <3>1, <3>5, <3>6
  <2>8. ASSUME NEW t \in Tasks, ReconcileResponse(t)
        PROVE  RetryKeepsReceipts
    <3> DEFINE d == [reg[t] EXCEPT !.drift = update_capability_card_drift(t)]
               held == [d EXCEPT !.pinIssue = capability_pin_echo(t),
                                 !.workerIssue = worker_response_issue(t)]
               hash == [d EXCEPT !.hashIssue = TRUE]
               done == [d EXCEPT !.pinIssue = FALSE, !.workerIssue = FALSE, !.hashIssue = FALSE,
                          !.echoAbsent = PinEchoAbsent(t),
                          !.leaseAbsent = worker_lease_absence(t),
                          !.status = "settled", !.state = "terminal"]
               Keeps(e) == /\ e.startedAt = reg[t].startedAt /\ e.reviews = reg[t].reviews
                           /\ e.lease = reg[t].lease
    <3>1. /\ reg[t] # None /\ resp[t] # None /\ resp' = resp
          /\ \E e \in {held, hash, done} : reg' = [reg EXCEPT ![t] = e]
      BY <2>8 DEF ReconcileResponse
    <3>2. reg[t] \in Entries
      BY <2>2, <3>1
    <3>3. Keeps(held) /\ Keeps(hash)
      BY <3>2 DEF Entries
    <3>4. Keeps(done)
      BY <3>2 DEF Entries
    <3> HIDE DEF held, hash, done
    <3>5. PICK e : reg' = [reg EXCEPT ![t] = e] /\ Keeps(e)
      BY <3>1, <3>3, <3>4
    <3>6. reg'[t] # None
      BY <1>1, <2>8, <3>1, ReconcileSafe DEF DeliveryInv, DeliveryTypeOK
    <3>7. reg'[t] = e /\ \A u \in Tasks : u # t => reg'[u] = reg[u]
      BY <2>a, <3>5
    <3> HIDE DEF Keeps
    <3>8. Keeps(reg'[t])
      BY <3>5, <3>7
    <3> QED  BY <1>1, <2>2, <3>1, <3>6, <3>7, <3>8, ReceiptsKept DEF Keeps
  <2> QED
    BY <1>1, <2>3, <2>4, <2>5, <2>6, <2>7, <2>8
    DEF DeliveryNext, RespondUnpooled, LandManifest, Respond, Restart, Tick, EditCard
<1>2. DeliveryInv /\ [DeliveryNext]_deliveryVars => [RetryKeepsReceipts]_deliveryVars
  BY <1>1
<1> QED
  BY <1>2, DeliveryInvariant, PTL DEF DeliverySpec
=============================================================================
