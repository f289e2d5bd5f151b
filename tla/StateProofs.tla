---------------------------- MODULE StateProofs -----------------------------
(***************************************************************************)
(* Proofs about the state files that answer to the operator: the notices   *)
(* owed, from the registry to the conversation that acknowledges them, and *)
(* the one-shot tokens of held actions.                                    *)
(*                                                                         *)
(* First the notification sweeps, for any processes, tasks, events and     *)
(* numbers of faults: no page is repeated after its receipt, no record     *)
(* retires without one, and publication implements Obligations.  A sweep   *)
(* works from a batch it bound under the registry lock, while other sweeps *)
(* change receipts and rows.  The invariant says what the batch of every   *)
(* sweep still means at each point of it (QueueInv), and that a committed  *)
(* digest is always found again (DigestRecoverable).                       *)
(*                                                                         *)
(* Then the inbox, for any notices, sessions, hook processes and numbers   *)
(* of kills: it implements Obligations, a session has one waiter, and      *)
(* every failure of a sampler is counted once.  What is printed was read   *)
(* some steps before; what a hook holds or has shown is a notice the store *)
(* has (Held).  A waiter's loop trusts a lease it took earlier; the lease  *)
(* is its own until it leaves the loop (OwnLease).                         *)
(*                                                                         *)
(* Last the held-action gate, for any callers, tokens and times.  What a   *)
(* request was verified for is fixed when it is made, so every             *)
(* authorization is accounted for whatever is killed (AskInv).  That a     *)
(* token authorizes one action only rests on the lock, which excludes as   *)
(* long as no caller has gone (LockInv): nobody then reaches the           *)
(* reclaiming branch.                                                      *)
(***************************************************************************)
EXTENDS Notifications, NoticeInbox, HeldAction, FiniteSetTheorems, TLAPS

-----------------------------------------------------------------------------
(* The sweeps. *)

Sweeps == [at : {"idle", "select", "deliver", "settle"}, batch : SUBSET Events,
           queued : SUBSET Events, grouped : SUBSET Events,
           todo : SUBSET Events, done : SUBSET Events, tidy : BOOLEAN]

\* What sweep s still means when the queue holds the rows R and the receipts
\* commit C: what it takes as queued has its row, what it takes as done is
\* committed, and its batch shrinks only by events of these two kinds.
SweepMeans(s, R, C) ==
    /\ s.queued \subseteq R /\ s.done \subseteq C
    /\ s.at = "deliver" => s.batch \subseteq s.todo \cup s.queued \cup s.done
    /\ s.at = "settle" => s.todo \subseteq s.batch /\ s.batch \subseteq s.queued \cup s.done

QueueInv ==
    /\ failed \subseteq rows
    /\ \A p \in Procs : SweepMeans(sweep[p], rows, Delivered)

NoticeInv == NoticeTypeOK /\ QueueInv /\ DurableFirst /\ DigestRecoverable /\ RaisedIsOwed

-----------------------------------------------------------------------------
(* Digest maps. *)

\* Retiring digest maps keeps every other map, and retires the map of a
\* receipted event only.
LEMMA PrunedMaps ==
    ASSUME NEW mk \in [Events -> SUBSET Events], NEW receipted
    PROVE  /\ Pruned(mk, receipted) \in [Events -> SUBSET Events]
           /\ \A e \in Events : \/ Pruned(mk, receipted)[e] = mk[e]
                                \/ e \in receipted
BY DEF Pruned

\* An event of a committed digest is receipted or recovered from its map.
LEMMA CommittedIsKnown ==
    ASSUME DigestRecoverable, NEW E, NEW e \in E, e \in Delivered
    PROVE  e \in sent \cup Recovered(E)
BY DEF DigestRecoverable, Delivered, Recovered

-----------------------------------------------------------------------------
\* The invariant holds initially.
LEMMA NoticeInvInit ==
    ASSUME EventAssumption, NoticeInit
    PROVE  NoticeInv
<1>1. NoticeTypeOK
  <2>1. Idle \in Sweeps
    BY DEF Idle, Sweeps
  <2>2. sweep \in [Procs -> Sweeps]
    BY <2>1 DEF NoticeInit
  <2> QED BY <2>2 DEF NoticeInit, NoticeTypeOK, Sweeps, EventAssumption
<1>2. QueueInv
  BY DEF NoticeInit, QueueInv, SweepMeans, Idle
<1>3. DurableFirst /\ DigestRecoverable /\ RaisedIsOwed
  BY DEF NoticeInit, DurableFirst, DigestRecoverable, RaisedIsOwed
<1> QED BY <1>1, <1>2, <1>3 DEF NoticeInv

-----------------------------------------------------------------------------
(* What a step may do to the sweeps, the receipts and the registry. *)

\* A step that gives one sweep a record that means what it says, and takes
\* nothing back from the queue and the receipts, keeps the other sweeps.
LEMMA OneSweep ==
    ASSUME NoticeTypeOK, QueueInv, NEW p \in Procs, NEW new \in Sweeps,
           sweep' = [sweep EXCEPT ![p] = new],
           rows \subseteq rows', Delivered \subseteq Delivered', failed' \subseteq rows',
           SweepMeans(new, rows', Delivered')
    PROVE  sweep' \in [Procs -> Sweeps] /\ QueueInv'
<1>1. sweep \in [Procs -> Sweeps]
  BY DEF NoticeTypeOK, Sweeps
<1>2. ASSUME NEW q \in Procs PROVE SweepMeans(sweep'[q], rows', Delivered')
  <2>1. SweepMeans(sweep[q], rows', Delivered')
    BY DEF QueueInv, SweepMeans
  <2> QED BY <1>1, <2>1
<1>3. sweep' \in [Procs -> Sweeps]
  BY <1>1
<1> QED BY <1>2, <1>3 DEF QueueInv

\* Receipts and pages stay as they are, up to rows that are added.
LEMMA SameReceipts ==
    ASSUME NoticeInv, UNCHANGED receiptVars, rows \subseteq rows'
    PROVE  DurableFirst' /\ DigestRecoverable' /\ Delivered' = Delivered
BY DEF NoticeInv, receiptVars, DurableFirst, DigestRecoverable, Delivered

\* The registry and the store stay as they are.
LEMMA SameRegistry ==
    ASSUME NoticeInv, UNCHANGED <<registryVars, inbox>>
    PROVE  RaisedIsOwed'
BY DEF NoticeInv, registryVars, RaisedIsOwed

\* A sweep that ends or dies means nothing.
LEMMA IdleMeans ==
    ASSUME NEW R, NEW C
    PROVE  Idle \in Sweeps /\ SweepMeans(Idle, R, C)
BY DEF Idle, Sweeps, SweepMeans

-----------------------------------------------------------------------------
(* The locked part of a sweep. *)

\* reconcile() and its deliveries keep the invariant.
LEMMA PrepareKeeps ==
    ASSUME EventAssumption, NoticeInv, NEW p \in Procs, StartSweep(p)
    PROVE  NoticeInv'
<1>a. PICK scope \in Scopes, newly \in SUBSET Due : \E stored : PrepareSweep(p, scope, newly, stored)
  BY DEF StartSweep
<1>0. PICK stored : PrepareSweep(p, scope, newly, stored)
  BY <1>a
<1> DEFINE batch == Deliveries(scope, newly)
           new == [Idle EXCEPT !.at = "select", !.batch = batch, !.queued = failed \cap batch]
<1>1. newly \subseteq Events /\ batch \subseteq Events /\ newly \subseteq batch
  BY DEF Due, Deliveries, NoticeInv, NoticeTypeOK, Events
<1>2. /\ sweep' = [sweep EXCEPT ![p] = new]
      /\ UNCHANGED <<failed, old, notifKey, notifAt, receiptVars, rows, paneUp>>
      /\ pending' = pending \cup (newly \cap Managed)
      /\ coordKeyed' = coordKeyed \cup (newly \cap OneShot)
      /\ stored \subseteq intents \cup batch
      /\ intents' = (intents \cup batch) \ stored /\ inbox' = Enqueued(stored)
      /\ clock' = IF newly = {} THEN clock ELSE clock + 1
      /\ created' = [e \in Managed |-> IF e \in newly \cap Managed THEN clock' ELSE created[e]]
      /\ newly # {} => clock < MaxRaises
      /\ faults' \in {faults, faults + 1} /\ (faults' # faults => faults < MaxFaults)
  BY <1>0 DEF PrepareSweep, PublishIntents, Fault
<1>3. new \in Sweeps /\ SweepMeans(new, rows, Delivered)
  BY <1>1 DEF Sweeps, Idle, NoticeInv, NoticeTypeOK, QueueInv, SweepMeans
<1> HIDE DEF batch, new
<1>4. DurableFirst' /\ DigestRecoverable' /\ Delivered' = Delivered
  BY <1>2, SameReceipts
<1>5. sweep' \in [Procs -> Sweeps] /\ QueueInv'
  BY <1>2, <1>3, <1>4, OneSweep DEF NoticeInv, QueueInv
<1>6. inbox' \in [Events -> {"absent", "pending", "acknowledged"}]
      /\ \A e \in Events : /\ e \in stored => inbox'[e] # "absent"
                           /\ inbox[e] # "absent" => inbox'[e] = inbox[e]
  BY <1>2 DEF Enqueued, NoticeInv, NoticeTypeOK
<1>7. NoticeTypeOK'
  <2>1. clock' \in 0..MaxRaises /\ faults' \in 0..MaxFaults
    BY <1>2 DEF NoticeInv, NoticeTypeOK, EventAssumption
  <2>2. created' \in [Managed -> 0..MaxRaises]
    BY <1>2, <2>1 DEF NoticeInv, NoticeTypeOK
  <2> QED BY <1>1, <1>2, <1>5, <1>6, <2>1, <2>2
          DEF NoticeInv, NoticeTypeOK, Sweeps, receiptVars, Events
<1>8. RaisedIsOwed'
  <2> SUFFICES ASSUME NEW e \in pending' \cup coordKeyed'
               PROVE  e \in intents' \/ inbox'[e] # "absent"
    BY DEF RaisedIsOwed
  <2>1. e \in Events
    BY <1>2 DEF NoticeInv, NoticeTypeOK, Events
  <2>2. CASE e \in newly
    BY <1>1, <1>2, <1>6, <2>1, <2>2
  <2>3. CASE e \notin newly
    BY <1>2, <1>6, <2>1, <2>3 DEF NoticeInv, RaisedIsOwed
  <2> QED BY <2>2, <2>3
<1> QED BY <1>4, <1>5, <1>7, <1>8 DEF NoticeInv

\* A sweep that dies between the store and the registry keeps the invariant.
LEMMA TornKeeps ==
    ASSUME EventAssumption, NoticeInv, NEW p \in Procs, NEW scope, NEW newly \in SUBSET Due,
           PrepareTorn(p, scope, newly)
    PROVE  NoticeInv'
<1>1. /\ inbox' = Enqueued(Deliveries(scope, newly))
      /\ faults < MaxFaults /\ faults' = faults + 1
      /\ UNCHANGED <<registryVars, receiptVars, rows, paneUp, sweep, clock>>
  BY DEF PrepareTorn
<1>2. inbox' \in [Events -> {"absent", "pending", "acknowledged"}]
      /\ \A e \in Events : inbox[e] # "absent" => inbox'[e] = inbox[e]
  BY <1>1 DEF Enqueued, NoticeInv, NoticeTypeOK
<1>3. DurableFirst' /\ DigestRecoverable' /\ Delivered' = Delivered
  BY <1>1, SameReceipts
<1>4. NoticeTypeOK'
  BY <1>1, <1>2 DEF NoticeInv, NoticeTypeOK, EventAssumption, registryVars, receiptVars
<1>5. QueueInv'
  BY <1>1, <1>3 DEF NoticeInv, QueueInv, registryVars
<1>6. RaisedIsOwed'
  BY <1>1, <1>2 DEF NoticeInv, NoticeTypeOK, RaisedIsOwed, registryVars, Events
<1> QED BY <1>3, <1>4, <1>5, <1>6 DEF NoticeInv

-----------------------------------------------------------------------------
(* deliver_notification_sweep. *)

\* The state in which a page was typed, a receipt written or maps retired: what
\* remains to be shown is that the sweep's new record is right and that new
\* pages have their rows.
LEMMA ReceiptsWritten ==
    ASSUME NoticeInv, NEW p \in Procs, NEW new \in Sweeps,
           sweep' = [sweep EXCEPT ![p] = new],
           UNCHANGED <<registryVars, inbox, rows, paneUp, clock>>, faults' \in 0..MaxFaults,
           sent \subseteq sent', sent' \subseteq Events,
           digests \subseteq digests', digests' \subseteq SUBSET Events,
           marker' \in [Events -> SUBSET Events], pages' \in [Events -> Nat],
           \A e \in Events : pages'[e] = pages[e] \/ e \in rows,
           SweepMeans(new, rows, sent' \cup UNION digests'),
           DigestRecoverable'
    PROVE  NoticeInv'
<1>1. Delivered \subseteq Delivered'
  BY DEF Delivered
<1>2. sweep' \in [Procs -> Sweeps] /\ QueueInv'
  BY <1>1, OneSweep DEF NoticeInv, QueueInv, registryVars, Delivered
<1>3. NoticeTypeOK'
  BY <1>2 DEF NoticeInv, NoticeTypeOK, registryVars, Sweeps
<1>4. DurableFirst'
  BY DEF NoticeInv, DurableFirst
<1>5. RaisedIsOwed'
  BY SameRegistry
<1> QED BY <1>2, <1>3, <1>4, <1>5 DEF NoticeInv

\* The sweep's record after one of its events is finished.
Finished(s, e, ok) ==
    [s EXCEPT !.todo = @ \ {e}, !.done = IF ok THEN @ \cup {e} ELSE @]

\* It is a sweep's record, and differs in what is to do and what is done.
LEMMA FinishRecord ==
    ASSUME NoticeTypeOK, NEW p \in Procs, NEW e \in Events, NEW ok \in BOOLEAN, Finish(p, e, ok)
    PROVE  /\ Finished(sweep[p], e, ok) \in Sweeps
           /\ sweep' = [sweep EXCEPT ![p] = Finished(sweep[p], e, ok)]
           /\ Finished(sweep[p], e, ok).at = sweep[p].at
           /\ Finished(sweep[p], e, ok).batch = sweep[p].batch
           /\ Finished(sweep[p], e, ok).queued = sweep[p].queued
           /\ Finished(sweep[p], e, ok).todo = sweep[p].todo \ {e}
           /\ Finished(sweep[p], e, ok).done
                = IF ok THEN sweep[p].done \cup {e} ELSE sweep[p].done
<1>1. sweep \in [Procs -> Sweeps]
  BY DEF NoticeTypeOK, Sweeps
<1>2. Finished(sweep[p], e, ok) \in Sweeps
  BY <1>1 DEF Sweeps, Finished
<1>3. sweep' = [sweep EXCEPT ![p] = Finished(sweep[p], e, ok)]
  BY <1>1 DEF Finish, Finished
<1>4. /\ Finished(sweep[p], e, ok).at = sweep[p].at
      /\ Finished(sweep[p], e, ok).batch = sweep[p].batch
      /\ Finished(sweep[p], e, ok).queued = sweep[p].queued
      /\ Finished(sweep[p], e, ok).todo = sweep[p].todo \ {e}
      /\ Finished(sweep[p], e, ok).done = IF ok THEN sweep[p].done \cup {e} ELSE sweep[p].done
  BY <1>1 DEF Sweeps, Finished
<1> QED BY <1>2, <1>3, <1>4

\* What a finished event leaves of the sweep.
LEMMA FinishMeans ==
    ASSUME NoticeInv, NEW p \in Procs, NEW e \in Events, NEW ok \in BOOLEAN,
           NudgeReady(p, e), NEW new \in Sweeps, NEW C, Delivered \subseteq C, ok => e \in C,
           new.at = sweep[p].at, new.batch = sweep[p].batch,
           new.queued = sweep[p].queued, new.todo = sweep[p].todo \ {e},
           new.done = IF ok THEN sweep[p].done \cup {e} ELSE sweep[p].done
    PROVE  SweepMeans(new, rows, C)
<1>1. SweepMeans(sweep[p], rows, Delivered)
  BY DEF NoticeInv, QueueInv
<1> QED BY <1>1 DEF SweepMeans, NudgeReady

\* An event's page and its receipt keep the invariant.
LEMMA NudgeEventKeeps ==
    ASSUME EventAssumption, NoticeInv, NEW p \in Procs, NEW e \in Events, NudgeEvent(p, e)
    PROVE  NoticeInv'
<1> DEFINE known == sent \cup Recovered({e})
           clean == Pruned(marker, known)
<1>1. known \subseteq Events /\ sent \subseteq known
  BY DEF Recovered, NoticeInv, NoticeTypeOK
<1>2. /\ clean \in [Events -> SUBSET Events]
      /\ \A x \in Events : clean[x] = marker[x] \/ x \in known
  BY PrunedMaps DEF NoticeInv, NoticeTypeOK
<1>3. /\ Pruned(clean, known \cup {e}) \in [Events -> SUBSET Events]
      /\ \A x \in Events : Pruned(clean, known \cup {e})[x] = clean[x] \/ x \in known \cup {e}
  BY <1>2, PrunedMaps
<1>4. NudgeReady(p, e) /\ UNCHANGED <<registryVars, digests, inbox, rows, paneUp, clock>>
  BY DEF NudgeEvent
<1>5. PICK ok \in BOOLEAN :
        /\ Finish(p, e, ok) /\ (ok => e \in sent')
        /\ sent' \in {known, known \cup {e}}
        /\ marker' \in {clean, Pruned(clean, known \cup {e})}
        /\ sent' = known => marker' = clean
        /\ UNCHANGED pages \/ Page({e})
        /\ faults' = faults \/ (faults < MaxFaults /\ faults' = faults + 1)
  BY Zenon DEF NudgeEvent
<1> HIDE DEF known, clean
<1> DEFINE new == Finished(sweep[p], e, ok)
<1>6. /\ new \in Sweeps
      /\ sweep' = [sweep EXCEPT ![p] = new]
      /\ new.at = sweep[p].at /\ new.batch = sweep[p].batch
      /\ new.queued = sweep[p].queued /\ new.todo = sweep[p].todo \ {e}
      /\ new.done = IF ok THEN sweep[p].done \cup {e} ELSE sweep[p].done
  <2>1. NoticeTypeOK
    BY DEF NoticeInv
  <2>2. CASE ok = TRUE
    <3>1. Finish(p, e, TRUE)
      BY <1>5, <2>2
    <3>2. Finished(sweep[p], e, TRUE) = new
      BY <2>2
    <3> QED BY <2>1, <2>2, <3>1, <3>2, FinishRecord
  <2>3. CASE ok = FALSE
    <3>1. Finish(p, e, FALSE)
      BY <1>5, <2>3
    <3>2. Finished(sweep[p], e, FALSE) = new
      BY <2>3
    <3> QED BY <2>1, <2>3, <3>1, <3>2, FinishRecord
  <2> QED BY <2>2, <2>3
<1> HIDE DEF new
<1>7. SweepMeans(new, rows, sent' \cup UNION digests')
  <2>1. Delivered \subseteq sent' \cup UNION digests'
    BY <1>1, <1>4, <1>5 DEF Delivered
  <2> QED BY <1>4, <1>5, <1>6, <2>1, FinishMeans
<1>8. DigestRecoverable'
  <2> SUFFICES ASSUME NEW D \in digests, NEW x \in D, x \notin sent'
               PROVE  marker'[x] \in digests /\ x \in marker'[x]
    BY <1>4 DEF DigestRecoverable
  <2>1. x \in Events
    BY DEF NoticeInv, NoticeTypeOK
  <2>2. marker'[x] = marker[x]
    BY <1>1, <1>2, <1>3, <1>5, <2>1
  <2> QED BY <1>1, <1>5, <2>2 DEF NoticeInv, DigestRecoverable
<1>9. pages' \in [Events -> Nat] /\ \A x \in Events : pages'[x] = pages[x] \/ x \in rows
  <2>1. e \in rows
    BY <1>4 DEF NudgeReady, NoticeInv, QueueInv, SweepMeans
  <2> QED BY <1>5, <2>1 DEF Page, NoticeInv, NoticeTypeOK
<1>10. faults' \in 0..MaxFaults
  BY <1>5 DEF NoticeInv, NoticeTypeOK, EventAssumption
<1>11. sent \subseteq sent' /\ sent' \subseteq Events /\ marker' \in [Events -> SUBSET Events]
  BY <1>1, <1>2, <1>3, <1>5
<1>12. digests \subseteq digests' /\ digests' \subseteq SUBSET Events
  BY <1>4 DEF NoticeInv, NoticeTypeOK
<1> QED BY <1>4, <1>6, <1>7, <1>8, <1>9, <1>10, <1>11, <1>12, ReceiptsWritten

\* A digest's page, its receipt and the fanout, interrupted or not, keep the
\* invariant: members are mapped before the digest is committed.
LEMMA NudgeDigestKeeps ==
    ASSUME EventAssumption, NoticeInv, NEW p \in Procs, NudgeDigest(p)
    PROVE  NoticeInv'
<1> DEFINE S == sweep[p].grouped
           known == sent \cup Recovered(S)
           clean == Pruned(marker, known)
           D == S \ known
           mapped == [e \in Events |-> IF e \in D THEN D ELSE clean[e]]
           closed == [sweep[p] EXCEPT !.todo = {}, !.grouped = {}, !.done = @ \cup S]
           failing == [sweep[p] EXCEPT !.todo = {}, !.grouped = {}]
<1>1. sweep \in [Procs -> Sweeps] /\ S \subseteq Events /\ known \subseteq Events
      /\ sent \subseteq known /\ D \subseteq Events
  BY DEF NoticeInv, NoticeTypeOK, Sweeps, Recovered
<1>2. /\ clean \in [Events -> SUBSET Events]
      /\ \A x \in Events : clean[x] = marker[x] \/ x \in known
  BY PrunedMaps DEF NoticeInv, NoticeTypeOK
<1>3. mapped \in [Events -> SUBSET Events]
  BY <1>1, <1>2
<1>4. /\ Pruned(mapped, known \cup D) \in [Events -> SUBSET Events]
      /\ \A x \in Events : Pruned(mapped, known \cup D)[x] = mapped[x] \/ x \in known \cup D
  BY <1>3, PrunedMaps
<1>5. /\ sweep[p].at = "deliver" /\ sweep[p].todo = S /\ S \subseteq sweep[p].queued
      /\ UNCHANGED <<registryVars, inbox, rows, paneUp, clock>>
  BY DEF NudgeDigest
<1>a. (UNCHANGED pages \/ Page(D)) /\ (digests' = digests \/ digests' = digests \cup {D})
  BY Zenon DEF NudgeDigest
<1>b. faults' = faults \/ (faults < MaxFaults /\ faults' = faults + 1)
  BY Zenon DEF NudgeDigest
<1>c. sent' = known \/ sent' = known \cup D \/ \E F \in SUBSET D : sent' = known \cup F
  BY Zenon DEF NudgeDigest
<1>d. \/ marker' = mapped
      \/ marker' = Pruned(mapped, known \cup D) /\ sent' = known \cup D
  BY Zenon DEF NudgeDigest
<1>e. \/ sweep' = [sweep EXCEPT ![p] = Idle]
      \/ FinishDigest(p, FALSE)
      \/ FinishDigest(p, TRUE) /\ sent' = known \cup D
  BY Zenon DEF NudgeDigest
<1>7. /\ closed \in Sweeps /\ failing \in Sweeps
      /\ FinishDigest(p, TRUE) => sweep' = [sweep EXCEPT ![p] = closed]
      /\ FinishDigest(p, FALSE) => sweep' = [sweep EXCEPT ![p] = failing]
  BY <1>1 DEF Sweeps, FinishDigest
<1>8. /\ closed.at = "deliver" /\ closed.batch = sweep[p].batch /\ closed.todo = {}
      /\ closed.queued = sweep[p].queued /\ closed.done = sweep[p].done \cup S
      /\ failing.at = "deliver" /\ failing.batch = sweep[p].batch /\ failing.todo = {}
      /\ failing.queued = sweep[p].queued /\ failing.done = sweep[p].done
  BY <1>1, <1>5 DEF Sweeps
<1>9. S \subseteq known \cup D /\ D \subseteq S
  OBVIOUS
<1>10. \A x \in D : x \notin Delivered
  BY CommittedIsKnown DEF NoticeInv
<1>11. \A x \in Events : mapped[x] = IF x \in D THEN D ELSE clean[x]
  OBVIOUS
<1> HIDE DEF S, known, clean, D, mapped, closed, failing
<1>12. sent \subseteq sent' /\ sent' \subseteq Events /\ known \subseteq sent'
       /\ digests \subseteq digests' /\ digests' \subseteq SUBSET Events
       /\ marker' \in [Events -> SUBSET Events]
  <2>1. known \subseteq sent' /\ sent' \subseteq Events
    BY <1>1, <1>c
  <2>2. digests \subseteq digests' /\ digests' \subseteq SUBSET Events
    BY <1>1, <1>a DEF NoticeInv, NoticeTypeOK
  <2>3. marker' \in [Events -> SUBSET Events]
    BY <1>3, <1>4, <1>d
  <2> QED BY <1>1, <2>1, <2>2, <2>3
<1>13. PICK new \in Sweeps : /\ sweep' = [sweep EXCEPT ![p] = new]
                             /\ SweepMeans(new, rows, sent' \cup UNION digests')
  <2>1. SweepMeans(sweep[p], rows, Delivered) /\ Delivered \subseteq sent' \cup UNION digests'
    BY <1>12 DEF NoticeInv, QueueInv, Delivered
  <2>2. CASE sweep' = [sweep EXCEPT ![p] = Idle]
    BY <2>2, IdleMeans
  <2>3. CASE FinishDigest(p, FALSE)
    BY <2>1, <2>3, <1>5, <1>7, <1>8 DEF SweepMeans
  <2>4. CASE FinishDigest(p, TRUE) /\ sent' = known \cup D
    BY <2>1, <2>4, <1>5, <1>7, <1>8, <1>9 DEF SweepMeans
  <2> QED BY <1>e, <2>2, <2>3, <2>4
<1>14. DigestRecoverable'
  <2> SUFFICES ASSUME NEW E \in digests', NEW x \in E, x \notin sent'
               PROVE  marker'[x] \in digests' /\ x \in marker'[x]
    BY DEF DigestRecoverable
  <2>1. x \in Events /\ x \notin known
    BY <1>12
  <2>3. CASE x \in D
    <3>1. E \notin digests
      BY <1>10, <2>3 DEF Delivered
    <3>2. D \in digests'
      BY <1>a, <3>1
    <3>3. marker' = mapped
      BY <1>d, <2>3
    <3>4. marker'[x] = D
      BY <1>11, <2>1, <2>3, <3>3
    <3> QED BY <2>3, <3>2, <3>4
  <2>4. CASE x \notin D
    <3>1. E \in digests
      BY <1>a, <2>4
    <3>2. marker[x] \in digests /\ x \in marker[x]
      BY <3>1, <1>12 DEF NoticeInv, DigestRecoverable
    <3>3. marker'[x] = mapped[x]
      BY <1>4, <1>d, <2>1, <2>4
    <3>4. mapped[x] = marker[x]
      BY <1>2, <1>11, <2>1, <2>4
    <3> QED BY <1>12, <3>2, <3>3, <3>4
  <2> QED BY <2>3, <2>4
<1>15. pages' \in [Events -> Nat] /\ \A x \in Events : pages'[x] = pages[x] \/ x \in rows
  <2>1. D \subseteq rows
    BY <1>5, <1>9 DEF NoticeInv, QueueInv, SweepMeans
  <2> QED BY <1>a, <2>1 DEF Page, NoticeInv, NoticeTypeOK
<1>16. faults' \in 0..MaxFaults
  BY <1>b DEF NoticeInv, NoticeTypeOK, EventAssumption
<1> QED BY <1>5, <1>12, <1>13, <1>14, <1>15, <1>16, ReceiptsWritten

\* The choice of what to deliver, the queue rows, a withheld page and the end of
\* the delivery loop keep the invariant.
LEMMA DeliveryKeeps ==
    ASSUME NoticeInv, NEW p \in Procs,
           \/ SelectDeliveries(p) \/ EndDelivery(p)
           \/ \E e \in Events : AppendChronoQueue(p, e) \/ WithholdPage(p, e)
    PROVE  NoticeInv'
<1>0. /\ sweep \in [Procs -> Sweeps] /\ sweep[p] \in Sweeps
      /\ SweepMeans(sweep[p], rows, Delivered)
      /\ Delivered = sent \cup UNION digests /\ sent \subseteq Events
      /\ NoticeTypeOK /\ QueueInv
  BY DEF NoticeInv, NoticeTypeOK, Sweeps, QueueInv, Delivered
<1>1. CASE SelectDeliveries(p)
  <2>1. PICK grouped \in SUBSET Events, receipted \in SUBSET sent, tidy \in BOOLEAN :
          /\ sweep' = [sweep EXCEPT ![p] =
                          [sweep[p] EXCEPT !.at = "deliver", !.grouped = grouped,
                                           !.done = receipted, !.tidy = tidy,
                                           !.todo = sweep[p].batch \ receipted]]
          /\ UNCHANGED <<registryVars, receiptVars, inbox, rows, paneUp, clock, faults>>
    <3> DEFINE canonical == {e \in sweep[p].batch : TaskOf(e) \in Registered}
               eligible == canonical \ sent
               grouped == IF Cardinality(eligible) > 3 THEN eligible ELSE eligible \cap old
    <3>1. grouped \in SUBSET Events /\ canonical \cap sent \in SUBSET sent
          /\ (eligible = {} /\ canonical # {}) \in BOOLEAN
      BY <1>0 DEF Sweeps
    <3>2. /\ sweep' = [sweep EXCEPT ![p] =
                        [sweep[p] EXCEPT !.at = "deliver", !.grouped = grouped,
                              !.done = canonical \cap sent,
                              !.tidy = (eligible = {} /\ canonical # {}),
                              !.todo = sweep[p].batch \ (canonical \cap sent)]]
          /\ UNCHANGED <<registryVars, receiptVars, inbox, rows, paneUp, clock, faults>>
      BY <1>1, Zenon DEF SelectDeliveries
    <3> HIDE DEF canonical, eligible, grouped
    <3> QED BY <3>1, <3>2
  <2> DEFINE new == [sweep[p] EXCEPT !.at = "deliver", !.grouped = grouped, !.done = receipted,
                                     !.tidy = tidy, !.todo = sweep[p].batch \ receipted]
  <2>2. new \in Sweeps /\ SweepMeans(new, rows, Delivered)
    BY <1>0 DEF Sweeps, SweepMeans
  <2> HIDE DEF new
  <2>3. DurableFirst' /\ DigestRecoverable' /\ Delivered' = Delivered
    BY <2>1, SameReceipts
  <2>4. sweep' \in [Procs -> Sweeps] /\ QueueInv'
    BY <2>1, <2>2, <2>3, <1>0, OneSweep DEF QueueInv, registryVars, new
  <2>5. NoticeTypeOK'
    BY <2>1, <2>4 DEF NoticeInv, NoticeTypeOK, registryVars, receiptVars, Sweeps
  <2> QED BY <2>1, <2>3, <2>4, <2>5, SameRegistry DEF NoticeInv
<1>2. ASSUME NEW e \in Events, AppendChronoQueue(p, e) PROVE NoticeInv'
  <2> DEFINE new == [sweep[p] EXCEPT !.queued = @ \cup {e}]
  <2>1. /\ sweep' = [sweep EXCEPT ![p] = new] /\ rows' = rows \cup {e}
        /\ UNCHANGED <<registryVars, receiptVars, inbox, paneUp, clock, faults>>
    BY <1>0, <1>2 DEF AppendChronoQueue
  <2>2. new \in Sweeps /\ SweepMeans(new, rows', Delivered)
    BY <1>0, <2>1 DEF Sweeps, SweepMeans
  <2> HIDE DEF new
  <2>3. DurableFirst' /\ DigestRecoverable' /\ Delivered' = Delivered
    BY <2>1, SameReceipts
  <2>4. sweep' \in [Procs -> Sweeps] /\ QueueInv'
    BY <2>1, <2>2, <2>3, <1>0, OneSweep DEF QueueInv, registryVars
  <2>5. NoticeTypeOK'
    BY <2>1, <2>4 DEF NoticeInv, NoticeTypeOK, registryVars, receiptVars, Sweeps
  <2> QED BY <2>1, <2>3, <2>4, <2>5, SameRegistry DEF NoticeInv
<1>3. ASSUME NEW e \in Events, WithholdPage(p, e) PROVE NoticeInv'
  <2>1. /\ Finish(p, e, FALSE) /\ NudgeReady(p, e)
        /\ UNCHANGED <<registryVars, receiptVars, inbox, rows, paneUp, clock, faults>>
    BY <1>3 DEF WithholdPage
  <2> DEFINE new == Finished(sweep[p], e, FALSE)
  <2>2. /\ new \in Sweeps
        /\ sweep' = [sweep EXCEPT ![p] = new]
        /\ new.at = sweep[p].at /\ new.batch = sweep[p].batch
        /\ new.queued = sweep[p].queued /\ new.todo = sweep[p].todo \ {e}
        /\ new.done = sweep[p].done
    BY <2>1, <1>0, FinishRecord
  <2> HIDE DEF new
  <2>3. SweepMeans(new, rows, Delivered)
    BY <2>1, <2>2, FinishMeans
  <2>4. DurableFirst' /\ DigestRecoverable' /\ Delivered' = Delivered
    BY <2>1, SameReceipts
  <2>5. sweep' \in [Procs -> Sweeps] /\ QueueInv'
    BY <2>1, <2>2, <2>3, <2>4, <1>0, OneSweep DEF QueueInv, registryVars
  <2>6. NoticeTypeOK'
    BY <2>1, <2>5 DEF NoticeInv, NoticeTypeOK, registryVars, receiptVars, Sweeps
  <2> QED BY <2>1, <2>4, <2>5, <2>6, SameRegistry DEF NoticeInv
<1>4. CASE EndDelivery(p)
  <2> DEFINE new == [sweep[p] EXCEPT !.at = "settle", !.todo = sweep[p].batch \cap Managed]
  <2>1. /\ sweep[p].at = "deliver" /\ sweep[p].todo = {}
        /\ sweep' = [sweep EXCEPT ![p] = new]
        /\ marker' = marker \/ marker' = Pruned(marker, sent)
        /\ UNCHANGED <<registryVars, sent, digests, pages, inbox, rows, paneUp, clock, faults>>
    BY <1>0, <1>4 DEF EndDelivery
  <2>2. new \in Sweeps /\ SweepMeans(new, rows, sent \cup UNION digests)
    BY <1>0, <2>1 DEF Sweeps, SweepMeans
  <2> HIDE DEF new
  <2>3. /\ marker' \in [Events -> SUBSET Events]
        /\ \A x \in Events : marker'[x] = marker[x] \/ x \in sent
    BY <2>1, PrunedMaps DEF NoticeInv, NoticeTypeOK
  <2>4. DigestRecoverable'
    BY <2>1, <2>3 DEF NoticeInv, NoticeTypeOK, DigestRecoverable
  <2>5. /\ digests' = digests /\ digests \subseteq SUBSET Events /\ sent' = sent
        /\ sent \subseteq Events /\ faults' \in 0..MaxFaults
        /\ pages' = pages /\ pages \in [Events -> Nat]
    BY <2>1 DEF NoticeInv, NoticeTypeOK
  <2> QED BY <2>1, <2>2, <2>3, <2>4, <2>5, ReceiptsWritten
<1> QED BY <1>1, <1>2, <1>3, <1>4

-----------------------------------------------------------------------------
(* Outcomes, and everything else. *)

\* The end of a sweep, its death, and a sweep that raises leave the receipts and
\* the registry as they are.
LEMMA IdleKeeps ==
    ASSUME NoticeInv, NEW p \in Procs, sweep' = [sweep EXCEPT ![p] = Idle],
           UNCHANGED <<registryVars, receiptVars, inbox, rows, paneUp, clock>>,
           faults' \in 0..MaxFaults
    PROVE  NoticeInv'
<1>1. DurableFirst' /\ DigestRecoverable' /\ Delivered' = Delivered
  BY SameReceipts
<1>2. sweep' \in [Procs -> Sweeps] /\ QueueInv'
  BY <1>1, IdleMeans, OneSweep DEF NoticeInv, QueueInv, registryVars
<1>3. NoticeTypeOK'
  BY <1>2 DEF NoticeInv, NoticeTypeOK, registryVars, receiptVars, Sweeps
<1> QED BY <1>1, <1>2, <1>3, SameRegistry DEF NoticeInv

\* The outcome of a delivery, recorded in a registry that may have moved on,
\* keeps the invariant.
LEMMA SettleKeeps ==
    ASSUME EventAssumption, NoticeInv, NEW p \in Procs, NEW e \in Managed,
           AcknowledgeDelivery(p, e) \/ RecordDeliveryFailure(p, e)
    PROVE  NoticeInv'
<1> DEFINE new == [sweep[p] EXCEPT !.todo = @ \ {e}]
<1>0. /\ sweep \in [Procs -> Sweeps] /\ sweep[p] \in Sweeps
      /\ SweepMeans(sweep[p], rows, Delivered) /\ NoticeTypeOK /\ QueueInv
  BY DEF NoticeInv, NoticeTypeOK, Sweeps, QueueInv
<1>1. /\ sweep[p].at = "settle" /\ e \in sweep[p].todo
      /\ UNCHANGED <<receiptVars, inbox, rows, paneUp, clock, faults>>
  BY DEF AcknowledgeDelivery, RecordDeliveryFailure
<1>2. new \in Sweeps /\ SweepMeans(new, rows, Delivered)
  BY <1>0, <1>1 DEF Sweeps, SweepMeans
<1>3. DurableFirst' /\ DigestRecoverable' /\ Delivered' = Delivered
  BY <1>1, SameReceipts
<1>4. CASE RecordGone(p, e)
  <2>1. UNCHANGED registryVars
        /\ (sweep' = [sweep EXCEPT ![p] = Idle] \/ sweep' = [sweep EXCEPT ![p] = new])
    BY <1>4, Zenon DEF RecordGone
  <2> HIDE DEF new
  <2>2. CASE sweep' = [sweep EXCEPT ![p] = Idle]
    BY <1>1, <2>1, <2>2, IdleKeeps DEF NoticeInv, NoticeTypeOK
  <2>3. CASE sweep' = [sweep EXCEPT ![p] = new]
    <3>1. sweep' \in [Procs -> Sweeps] /\ QueueInv'
      BY <1>0, <1>1, <1>2, <1>3, <2>1, <2>3, OneSweep DEF QueueInv, registryVars
    <3>2. NoticeTypeOK'
      BY <1>0, <1>1, <2>1, <3>1 DEF NoticeTypeOK, registryVars, receiptVars, Sweeps
    <3> QED BY <1>1, <1>3, <2>1, <3>1, <3>2, SameRegistry DEF NoticeInv
  <2> QED BY <2>1, <2>2, <2>3
<1>5. CASE ~RecordGone(p, e)
  <2>1. /\ e \in pending /\ sweep' = [sweep EXCEPT ![p] = new]
        /\ pending' \subseteq pending /\ coordKeyed' = coordKeyed /\ intents' = intents
        /\ failed' \subseteq pending' /\ old' \subseteq pending' /\ created' = created
        /\ failed' \subseteq failed \/ (failed' = failed \cup {e} /\ e \notin sweep[p].done)
    <3>1. CASE AcknowledgeDelivery(p, e)
      <4>1. /\ e \in pending /\ sweep' = [sweep EXCEPT ![p].todo = @ \ {e}]
            /\ pending' = pending \ {e} /\ failed' = failed \ {e} /\ old' = old \ {e}
            /\ UNCHANGED <<created, coordKeyed, intents>>
        BY <1>5, <3>1, Zenon DEF AcknowledgeDelivery
      <4> QED BY <1>0, <4>1 DEF NoticeTypeOK
    <3>2. CASE RecordDeliveryFailure(p, e)
      <4>1. /\ e \in pending /\ sweep' = [sweep EXCEPT ![p].todo = @ \ {e}]
            /\ failed' = failed \cup {e} /\ e \notin sweep[p].done
            /\ UNCHANGED <<pending, created, old, coordKeyed, intents>>
        BY <1>5, <3>2 DEF RecordDeliveryFailure
      <4> QED BY <1>0, <4>1 DEF NoticeTypeOK
    <3> QED BY <3>1, <3>2
  <2>2. notifKey' \in [Tasks -> Managed \cup {NoEvent}] /\ notifAt' \in [Tasks -> 0..MaxRaises]
    <3>1. TaskOf(e) \in Tasks /\ created[e] \in 0..MaxRaises
      BY <1>0 DEF EventAssumption, Events, NoticeTypeOK
    <3>2. CASE AcknowledgeDelivery(p, e)
      <4>1. /\ notifKey' = notifKey \/ notifKey' = [notifKey EXCEPT ![TaskOf(e)] = e]
            /\ notifAt' = notifAt \/ notifAt' = [notifAt EXCEPT ![TaskOf(e)] = created[e]]
        BY <3>2, <1>5, Zenon DEF AcknowledgeDelivery
      <4> QED BY <1>0, <3>1, <4>1 DEF NoticeTypeOK
    <3>3. CASE RecordDeliveryFailure(p, e)
      BY <1>0, <1>5, <3>3 DEF RecordDeliveryFailure, NoticeTypeOK
    <3> QED BY <3>2, <3>3
  <2> HIDE DEF new
  <2>3. failed' \subseteq rows'
    BY <1>0, <1>1, <2>1 DEF QueueInv, SweepMeans
  <2>4. sweep' \in [Procs -> Sweeps] /\ QueueInv'
    BY <1>0, <1>1, <1>2, <1>3, <2>1, <2>3, OneSweep
  <2>5. NoticeTypeOK'
    BY <1>0, <1>1, <2>1, <2>2, <2>4 DEF NoticeTypeOK, receiptVars, Sweeps
  <2>6. RaisedIsOwed'
    BY <1>1, <2>1 DEF NoticeInv, RaisedIsOwed
  <2> QED BY <1>3, <2>4, <2>5, <2>6 DEF NoticeInv
<1> QED BY <1>4, <1>5

\* Acknowledgements of the recipient, the pane and the clock keep the invariant.
LEMMA EnvironmentKeeps ==
    ASSUME NoticeInv, (\E e \in Events : AckNotice(e)) \/ PaneChanges \/ SixHoursPass
    PROVE  NoticeInv'
<1>0. sweep' = sweep /\ UNCHANGED <<receiptVars, rows>>
  BY DEF AckNotice, PaneChanges, SixHoursPass
<1>1. DurableFirst' /\ DigestRecoverable' /\ Delivered' = Delivered
  BY <1>0, SameReceipts
<1>2. ASSUME NEW e \in Events, AckNotice(e) PROVE NoticeInv'
  BY <1>0, <1>1, <1>2 DEF NoticeInv, AckNotice, NoticeTypeOK, QueueInv, RaisedIsOwed,
                      registryVars, receiptVars
<1>3. CASE PaneChanges
  BY <1>0, <1>1, <1>3 DEF NoticeInv, PaneChanges, NoticeTypeOK, QueueInv, RaisedIsOwed,
                      registryVars, receiptVars
<1>4. CASE SixHoursPass
  BY <1>0, <1>1, <1>4 DEF NoticeInv, SixHoursPass, NoticeTypeOK, QueueInv, RaisedIsOwed,
                      receiptVars
<1> QED BY <1>2, <1>3, <1>4

\* Every step keeps the invariant.
LEMMA NoticeInvKept ==
    ASSUME EventAssumption, NoticeInv, [NoticeNext]_nvars
    PROVE  NoticeInv'
<1>1. ASSUME NEW p \in Procs, StartSweep(p) PROVE NoticeInv'
  BY <1>1, PrepareKeeps
<1>2. ASSUME NEW p \in Procs, NEW scope \in Scopes, NEW newly \in SUBSET Due,
             PrepareTorn(p, scope, newly)
      PROVE  NoticeInv'
  BY <1>2, TornKeeps
<1>3. ASSUME NEW p \in Procs, SweepStep(p) PROVE NoticeInv'
  <2>1. CASE EndSweep(p)
    BY <2>1, IdleKeeps DEF EndSweep, NoticeInv, NoticeTypeOK
  <2> QED BY <1>3, <2>1, DeliveryKeeps, NudgeEventKeeps, NudgeDigestKeeps, SettleKeeps
          DEF SweepStep
<1>4. ASSUME NEW p \in Procs, Crash(p) PROVE NoticeInv'
  <2>1. faults' \in 0..MaxFaults
    BY <1>4 DEF Crash, NoticeInv, NoticeTypeOK, EventAssumption
  <2> QED BY <1>4, <2>1, IdleKeeps DEF Crash
<1>5. CASE (\E e \in Events : AckNotice(e)) \/ PaneChanges \/ SixHoursPass
  BY <1>5, EnvironmentKeeps
<1>6. CASE UNCHANGED nvars
  BY <1>6 DEF nvars, NoticeInv, NoticeTypeOK, QueueInv, DurableFirst, DigestRecoverable,
              RaisedIsOwed, registryVars, receiptVars, Delivered
<1> QED BY <1>1, <1>2, <1>3, <1>4, <1>5, <1>6 DEF NoticeNext

-----------------------------------------------------------------------------
(* The theorems. *)

\* The invariant of every behaviour.
LEMMA NoticeInvariant ==
    ASSUME EventAssumption
    PROVE  NoticeSpec => []NoticeInv
<1>1. NoticeInit => NoticeInv
  BY NoticeInvInit
<1>2. NoticeInv /\ [NoticeNext]_nvars => NoticeInv'
  BY NoticeInvKept
<1> QED BY <1>1, <1>2, PTL DEF NoticeSpec

(* The registry's notification fields, receipts, maps and sweeps keep their *)
(* types under concurrent sweeps that crash anywhere.                       *)
THEOREM NoticeTypeCorrect ==
    ASSUME EventAssumption
    PROVE  NoticeSpec => []NoticeTypeOK
<1>1. NoticeInv => NoticeTypeOK
  BY DEF NoticeInv
<1> QED BY NoticeInvariant, <1>1, PTL

(* emit_event is durable-first: for any number of sweeps and faults, what   *)
(* was typed into the pane has its row in the queue.                        *)
THEOREM DurableFirstInvariant ==
    ASSUME EventAssumption
    PROVE  NoticeSpec => []DurableFirst
<1>1. NoticeInv => DurableFirst
  BY DEF NoticeInv
<1> QED BY NoticeInvariant, <1>1, PTL

(* nudge_chrono: a member of a committed digest has its receipt or a map to *)
(* a committed digest that names it, wherever the fanout was interrupted    *)
(* and whatever maps other sweeps retire.                                   *)
THEOREM DigestRecoverableInvariant ==
    ASSUME EventAssumption
    PROVE  NoticeSpec => []DigestRecoverable
<1>1. NoticeInv => DigestRecoverable
  BY DEF NoticeInv
<1> QED BY NoticeInvariant, <1>1, PTL

(* publish_durable_notices: whatever the registry has on record is an       *)
(* intent, a notice, or was consumed.                                       *)
THEOREM RaisedIsOwedInvariant ==
    ASSUME EventAssumption
    PROVE  NoticeSpec => []RaisedIsOwed
<1>1. NoticeInv => RaisedIsOwed
  BY DEF NoticeInv
<1> QED BY NoticeInvariant, <1>1, PTL

(* nudge_chrono never types again what a receipt commits, its own or a      *)
(* digest's, whichever of the concurrent sweeps holds the event.            *)
THEOREM PagesAreNotRepeated ==
    ASSUME EventAssumption
    PROVE  NoticeSpec => [][NoDuplicatePage]_nvars
<1>1. ASSUME NoticeInv, [NoticeNext]_nvars PROVE [NoDuplicatePage]_nvars
  <2> SUFFICES ASSUME NEW x \in Delivered PROVE pages'[x] = pages[x]
    BY DEF NoDuplicatePage
  <2>0. x \in Events
    BY <1>1 DEF NoticeInv, NoticeTypeOK, Delivered
  <2>1. ASSUME NEW p \in Procs, NEW e \in Events, NudgeEvent(p, e) PROVE pages'[x] = pages[x]
    <3>1. UNCHANGED pages \/ (Page({e}) /\ e \notin sent \cup Recovered({e}))
      BY <2>1, Zenon DEF NudgeEvent
    <3>2. CASE Page({e}) /\ e \notin sent \cup Recovered({e})
      <4>1. x # e
        BY <1>1, <3>2, CommittedIsKnown DEF NoticeInv
      <4> QED BY <2>0, <3>2, <4>1 DEF Page
    <3> QED BY <3>1, <3>2
  <2>2. ASSUME NEW p \in Procs, NudgeDigest(p) PROVE pages'[x] = pages[x]
    <3> DEFINE S == sweep[p].grouped
               D == S \ (sent \cup Recovered(S))
    <3>1. UNCHANGED pages \/ Page(D)
      BY <2>2, Zenon DEF NudgeDigest
    <3>2. CASE Page(D)
      <4>1. x \notin D
        BY <1>1, CommittedIsKnown DEF NoticeInv
      <4> QED BY <2>0, <3>2, <4>1 DEF Page
    <3> QED BY <3>1, <3>2
  <2>3. ASSUME NEW p \in Procs, SweepStep(p) PROVE pages'[x] = pages[x]
    <3>1. CASE \E e \in Events : NudgeEvent(p, e)
      BY <3>1, <2>1
    <3>2. CASE NudgeDigest(p)
      BY <3>2, <2>2
    <3>3. CASE \/ SelectDeliveries(p) \/ EndDelivery(p) \/ EndSweep(p)
               \/ \E e \in Events : AppendChronoQueue(p, e) \/ WithholdPage(p, e)
               \/ \E e \in Managed : AcknowledgeDelivery(p, e) \/ RecordDeliveryFailure(p, e)
      BY <3>3 DEF SelectDeliveries, EndDelivery, EndSweep, AppendChronoQueue, WithholdPage,
                  AcknowledgeDelivery, RecordDeliveryFailure, receiptVars
    <3> QED BY <2>3, <3>1, <3>2, <3>3 DEF SweepStep
  <2>4. ASSUME NEW p \in Procs,
               StartSweep(p) \/ Crash(p)
               \/ \E scope \in Scopes : \E newly \in SUBSET Due : PrepareTorn(p, scope, newly)
        PROVE  pages' = pages
    BY <2>4 DEF StartSweep, PrepareSweep, Crash, PrepareTorn, receiptVars
  <2>5. CASE (\E e \in Events : AckNotice(e)) \/ PaneChanges \/ SixHoursPass \/ UNCHANGED nvars
    BY <2>5 DEF AckNotice, PaneChanges, SixHoursPass, nvars, receiptVars
  <2> QED BY <1>1, <2>3, <2>4, <2>5 DEF NoticeNext
<1> QED BY NoticeInvariant, <1>1, PTL DEF NoticeSpec

(* acknowledge_notification_delivery: a pending record leaves the registry  *)
(* only when a receipt backs its delivery.                                  *)
THEOREM RetiredOnlyDelivered ==
    ASSUME EventAssumption
    PROVE  NoticeSpec => [][RetiredOnlyIfDelivered]_nvars
<1>1. ASSUME NoticeInv, [NoticeNext]_nvars PROVE [RetiredOnlyIfDelivered]_nvars
  <2> SUFFICES ASSUME NEW x \in pending \ pending' PROVE x \in Delivered
    BY DEF RetiredOnlyIfDelivered
  <2>1. ASSUME NEW p \in Procs, NEW e \in Managed, AcknowledgeDelivery(p, e)
        PROVE  x \in Delivered
    <3>1. e \in sweep[p].done /\ x = e
      BY <2>1 DEF AcknowledgeDelivery, RecordGone, registryVars
    <3> QED BY <1>1, <3>1 DEF NoticeInv, QueueInv, SweepMeans
  <2>2. ASSUME NEW p \in Procs, SweepStep(p) PROVE x \in Delivered
    <3>1. CASE \/ SelectDeliveries(p) \/ EndDelivery(p) \/ EndSweep(p) \/ NudgeDigest(p)
               \/ \E e \in Events : \/ AppendChronoQueue(p, e) \/ WithholdPage(p, e)
                                    \/ NudgeEvent(p, e)
      BY <3>1, Zenon DEF SelectDeliveries, EndDelivery, EndSweep, AppendChronoQueue,
                  WithholdPage, NudgeDigest, NudgeEvent, registryVars
    <3>2. CASE \E e \in Managed : RecordDeliveryFailure(p, e)
      BY <3>2 DEF RecordDeliveryFailure, RecordGone, registryVars
    <3> QED BY <2>1, <2>2, <3>1, <3>2 DEF SweepStep
  <2>3. ASSUME NEW p \in Procs,
               StartSweep(p) \/ Crash(p)
               \/ \E scope \in Scopes : \E newly \in SUBSET Due : PrepareTorn(p, scope, newly)
        PROVE  pending \subseteq pending'
    BY <2>3 DEF StartSweep, PrepareSweep, Crash, PrepareTorn, registryVars
  <2>4. CASE (\E e \in Events : AckNotice(e)) \/ PaneChanges \/ SixHoursPass \/ UNCHANGED nvars
    BY <2>4 DEF AckNotice, PaneChanges, SixHoursPass, nvars, registryVars
  <2> QED BY <1>1, <2>2, <2>3, <2>4 DEF NoticeNext
<1> QED BY NoticeInvariant, <1>1, PTL DEF NoticeSpec

-----------------------------------------------------------------------------
(* Publication implements Obligations. *)

\* What is owed depends on the store and the intents alone.
LEMMA OwedFrame ==
    ASSUME UNCHANGED <<inbox, intents>>
    PROVE  Owed' = Owed
BY DEF Owed

\* A publication that stores some of the events it owes and has the rest as
\* intents, written before it dies or not, raises exactly the ones of its batch
\* that were not raised before.
LEMMA PublicationRaises ==
    ASSUME NoticeTypeOK, NEW batch \in SUBSET Events, NEW stored,
           inbox' = Enqueued(stored), intents' \cup stored = intents \cup batch
    PROVE  Obligation!Raise
<1> DEFINE E == {e \in batch : Owed[e] = "none"}
<1>1. E \in SUBSET Events /\ \A e \in E : Owed[e] = "none"
  OBVIOUS
<1>2. Owed' = [e \in Events |-> IF e \in E THEN "owed" ELSE Owed[e]]
  <2> SUFFICES ASSUME NEW e \in Events
               PROVE  Owed'[e] = IF e \in E THEN "owed" ELSE Owed[e]
    BY DEF Owed
  <2>1. inbox'[e] = IF e \in stored /\ inbox[e] = "absent" THEN "pending" ELSE inbox[e]
    BY DEF Enqueued
  <2>2. inbox[e] \in {"absent", "pending", "acknowledged"}
    BY DEF NoticeTypeOK
  <2> QED BY <2>1, <2>2 DEF Owed
<1> QED BY <1>1, <1>2 DEF Obligation!Raise

\* The recipient's acknowledgement consumes one event.
LEMMA AckConsumes ==
    ASSUME NoticeTypeOK, NEW e \in Events, AckNotice(e)
    PROVE  Obligation!Consume
<1>1. {e} \in SUBSET Events /\ \A x \in {e} : Owed[x] = "owed"
  BY DEF AckNotice, Owed
<1>2. Owed' = [x \in Events |-> IF x \in {e} THEN "consumed" ELSE Owed[x]]
  BY DEF AckNotice, Owed, NoticeTypeOK, registryVars
<1> QED BY <1>1, <1>2 DEF Obligation!Consume

(* publish_durable_notices implements the durable obligation, for any       *)
(* sweeps, scopes, crashes between store and registry and failed stores:    *)
(* whatever was raised stays owed, as an intent or as a notice, until its   *)
(* recipient acknowledges it, and no replay raises it again.                *)
THEOREM PublicationImplementsObligations ==
    ASSUME EventAssumption
    PROVE  NoticeSpec => Obligation!ObSpec
<1>1. NoticeInit => Obligation!ObInit
  BY DEF NoticeInit, Obligation!ObInit, Owed
<1>2. ASSUME NoticeInv, [NoticeNext]_nvars
      PROVE  [Obligation!Raise \/ Obligation!Consume]_Owed
  <2>0. NoticeTypeOK
    BY <1>2 DEF NoticeInv
  <2>1. ASSUME NEW p \in Procs, StartSweep(p) PROVE Obligation!Raise
    <3>1. PICK scope \in Scopes, newly \in SUBSET Due :
            \E stored : PrepareSweep(p, scope, newly, stored)
      BY <2>1 DEF StartSweep
    <3>2. PICK stored : PrepareSweep(p, scope, newly, stored)
      BY <3>1
    <3>3. Deliveries(scope, newly) \in SUBSET Events
      BY <2>0 DEF Due, Deliveries, NoticeTypeOK, Events
    <3>4. /\ stored \in SUBSET (intents \cup Deliveries(scope, newly))
          /\ inbox' = Enqueued(stored)
          /\ intents' = (intents \cup Deliveries(scope, newly)) \ stored
      BY <3>2 DEF PrepareSweep, PublishIntents
    <3>5. intents' \cup stored = intents \cup Deliveries(scope, newly)
      BY <3>4
    <3> QED BY <2>0, <3>3, <3>4, <3>5, PublicationRaises
  <2>2. ASSUME NEW p \in Procs, NEW scope \in Scopes, NEW newly \in SUBSET Due,
               PrepareTorn(p, scope, newly)
        PROVE  Obligation!Raise
    <3>1. Deliveries(scope, newly) \in SUBSET Events
      BY <2>0 DEF Due, Deliveries, NoticeTypeOK, Events
    <3>2. inbox' = Enqueued(Deliveries(scope, newly)) /\ intents' = intents
      BY <2>2 DEF PrepareTorn, registryVars
    <3> QED BY <2>0, <3>1, <3>2, PublicationRaises
  <2>3. ASSUME NEW p \in Procs, SweepStep(p) PROVE UNCHANGED <<inbox, intents>>
    <3>1. CASE \/ SelectDeliveries(p) \/ EndDelivery(p) \/ EndSweep(p) \/ NudgeDigest(p)
               \/ \E e \in Events : \/ AppendChronoQueue(p, e) \/ WithholdPage(p, e)
                                    \/ NudgeEvent(p, e)
      BY <3>1, Zenon DEF SelectDeliveries, EndDelivery, EndSweep, AppendChronoQueue,
                  WithholdPage, NudgeDigest, NudgeEvent, registryVars
    <3>2. CASE \E e \in Managed : AcknowledgeDelivery(p, e) \/ RecordDeliveryFailure(p, e)
      BY <3>2, Zenon DEF AcknowledgeDelivery, RecordDeliveryFailure, RecordGone, registryVars
    <3> QED BY <2>3, <3>1, <3>2 DEF SweepStep
  <2>4. CASE (\E p \in Procs : Crash(p)) \/ PaneChanges \/ SixHoursPass \/ UNCHANGED nvars
    <3>1. UNCHANGED <<inbox, intents>>
      BY <2>4 DEF Crash, PaneChanges, SixHoursPass, nvars, registryVars
    <3> QED BY <3>1, OwedFrame
  <2>5. ASSUME NEW e \in Events, AckNotice(e) PROVE Obligation!Consume
    BY <2>0, <2>5, AckConsumes
  <2> QED BY <1>2, <2>1, <2>2, <2>3, <2>4, <2>5, OwedFrame DEF NoticeNext
<1> QED BY NoticeInvariant, <1>1, <1>2, PTL DEF NoticeSpec, Obligation!ObSpec

-----------------------------------------------------------------------------
(* The inbox. *)

HookRecords == [at : {"idle", "context", "arm", "wait", "poll", "print"},
                s : Sessions \cup {None}, sync : BOOLEAN, batch : SUBSET Notices]

\* Hook processes have their records, and a hook that is not idle a session.
HookShape ==
    /\ hook \in [Hooks -> HookRecords]
    /\ \A h \in Hooks : hook[h].at # "idle" => hook[h].s \in Sessions

\* A waiter in its polling loop has the waiter lease of its session.
OwnLease ==
    \A h \in Hooks : hook[h].at \in {"wait", "poll"} => waiter[hook[h].s] = h

\* What was shown or is about to be is in the store.
Held ==
    /\ \A n \in shown : state[n] # "absent"
    /\ \A h \in Hooks : \A n \in hook[h].batch : state[n] # "absent"

\* FaultsCountedOnce; a lease left behind is a failure not yet counted.
Counted == FaultsCountedOnce /\ \A s \in Sessions : sampler[s] = "gone" => exits[s] > 0

InboxInv == InboxTypeOK /\ HookShape /\ OwnLease /\ Held /\ Counted

-----------------------------------------------------------------------------
\* The smaller of two numbers.
LEMMA MinOfTwo ==
    ASSUME NEW a \in Int, NEW b \in Int
    PROVE  Min({a, b}) = IF a <= b THEN a ELSE b
<1>1. \E x \in {a, b} : \A y \in {a, b} : x <= y
  OBVIOUS
<1>2. Min({a, b}) \in {a, b} /\ \A y \in {a, b} : Min({a, b}) <= y
  BY <1>1 DEF Min
<1> QED BY <1>2

\* The invariant holds initially.
LEMMA InboxInvInit ==
    ASSUME InboxAssumption, InboxInit
    PROVE  InboxInv
<1> USE DEF InboxInit
<1>1. HookShape /\ OwnLease /\ Held
  BY DEF HookShape, HookRecords, NoHook, OwnLease, Held, Notices
<1>2. InboxTypeOK
  BY <1>1 DEF InboxTypeOK, HookShape, HookRecords, NoHook, InboxAssumption, Notices
<1>3. Counted
  <2>1. FaultNoticeAfter \in Int /\ FaultNoticeAfter > 0
    BY DEF InboxAssumption
  <2>2. Min({0, FaultNoticeAfter}) = 0
    BY <2>1, MinOfTwo
  <2> QED BY <2>1, <2>2 DEF Counted, FaultsCountedOnce
<1> QED BY <1>1, <1>2, <1>3 DEF InboxInv

-----------------------------------------------------------------------------
(* The parts of the invariant that rest on few variables. *)

\* A step that leaves the sampler's variables alone leaves the count alone.
LEMMA SameSampler ==
    ASSUME Counted, UNCHANGED samplerVars
    PROVE  Counted'
BY DEF Counted, FaultsCountedOnce, samplerVars

\* One failed attempt is counted once more and reported from the last one on.
LEMMA FaultCounted ==
    ASSUME InboxAssumption, InboxTypeOK, NEW s \in Sessions, NEW c \in Nat,
           fails[s] = Min({c, FaultNoticeAfter}), c >= FaultNoticeAfter => s \in outage,
           SamplerFault(s)
    PROVE  /\ fails' \in [Sessions -> 0..FaultNoticeAfter]
           /\ fails'[s] = Min({c + 1, FaultNoticeAfter})
           /\ c + 1 >= FaultNoticeAfter => s \in outage'
           /\ \A x \in Sessions \ {s} : fails'[x] = fails[x] /\ (x \in outage => x \in outage')
           /\ outage' \subseteq Sessions /\ backoff' \subseteq Sessions
<1>1. FaultNoticeAfter \in Nat /\ fails[s] \in 0..FaultNoticeAfter
      /\ fails \in [Sessions -> 0..FaultNoticeAfter]
  BY DEF InboxAssumption, InboxTypeOK
<1>2. /\ fails[s] = IF c <= FaultNoticeAfter THEN c ELSE FaultNoticeAfter
      /\ Min({c + 1, FaultNoticeAfter}) = IF c + 1 <= FaultNoticeAfter THEN c + 1 ELSE FaultNoticeAfter
      /\ Min({fails[s] + 1, FaultNoticeAfter})
            = IF fails[s] + 1 <= FaultNoticeAfter THEN fails[s] + 1 ELSE FaultNoticeAfter
  <2>1. c \in Int /\ c + 1 \in Int /\ FaultNoticeAfter \in Int /\ fails[s] + 1 \in Int
    BY <1>1
  <2> QED BY <2>1, MinOfTwo
<1>3. fails' = [fails EXCEPT ![s] = Min({fails[s] + 1, FaultNoticeAfter})]
      /\ backoff' = backoff \cup {s}
      /\ outage' = IF fails[s] + 1 >= FaultNoticeAfter THEN outage \cup {s} ELSE outage
  BY DEF SamplerFault
<1>4. Min({fails[s] + 1, FaultNoticeAfter}) = Min({c + 1, FaultNoticeAfter})
      /\ Min({fails[s] + 1, FaultNoticeAfter}) \in 0..FaultNoticeAfter
  BY <1>1, <1>2
<1>5. c + 1 >= FaultNoticeAfter => fails[s] + 1 >= FaultNoticeAfter
  BY <1>1, <1>2
<1>6. outage \subseteq Sessions /\ backoff \subseteq Sessions
  BY DEF InboxTypeOK
<1> QED BY <1>1, <1>3, <1>4, <1>5, <1>6

\* The count after a failed start, a lease found left behind, or a fault.
LEMMA SamplerCounts ==
    ASSUME InboxAssumption, InboxInv, NEW s \in Sessions, SamplerFault(s),
           \/ /\ sampler[s] = "gone" /\ sampler' = [sampler EXCEPT ![s] = "none"]
              /\ exits' = exits
           \/ /\ sampler[s] \in {"none", "live"} /\ sampler' = [sampler EXCEPT ![s] = "none"]
              /\ exits' = [exits EXCEPT ![s] = @ + 1]
    PROVE  /\ Counted'
           /\ fails' \in [Sessions -> 0..FaultNoticeAfter]
           /\ outage' \subseteq Sessions /\ backoff' \subseteq Sessions
<1> DEFINE c == exits[s] - (IF sampler[s] = "gone" THEN 1 ELSE 0)
<1>1. /\ exits \in [Sessions -> Nat] /\ sampler \in [Sessions -> {"none", "live", "gone"}]
      /\ exits[s] \in Nat /\ (sampler[s] = "gone" => exits[s] > 0) /\ c \in Nat
  BY DEF InboxInv, InboxTypeOK, Counted
<1>2. fails[s] = Min({c, FaultNoticeAfter}) /\ (c >= FaultNoticeAfter => s \in outage)
  BY DEF InboxInv, Counted, FaultsCountedOnce
<1>3. sampler'[s] = "none" /\ exits'[s] = c + 1
  BY <1>1
<1>4. \A x \in Sessions \ {s} : sampler'[x] = sampler[x] /\ exits'[x] = exits[x]
  BY <1>1
<1> HIDE DEF c
<1>5. /\ fails' \in [Sessions -> 0..FaultNoticeAfter]
      /\ fails'[s] = Min({c + 1, FaultNoticeAfter})
      /\ c + 1 >= FaultNoticeAfter => s \in outage'
      /\ \A x \in Sessions \ {s} : fails'[x] = fails[x] /\ (x \in outage => x \in outage')
      /\ outage' \subseteq Sessions /\ backoff' \subseteq Sessions
  BY <1>1, <1>2, FaultCounted DEF InboxInv
<1>6. ASSUME NEW x \in Sessions
      PROVE  LET d == exits'[x] - (IF sampler'[x] = "gone" THEN 1 ELSE 0)
             IN  /\ fails'[x] = Min({d, FaultNoticeAfter})
                 /\ d >= FaultNoticeAfter => x \in outage'
                 /\ sampler'[x] = "gone" => exits'[x] > 0
  <2>1. CASE x = s
    <3>1. exits'[x] - (IF sampler'[x] = "gone" THEN 1 ELSE 0) = c + 1
      BY <1>1, <1>3, <2>1
    <3> QED BY <1>3, <1>5, <2>1, <3>1
  <2>2. CASE x # s
    BY <1>4, <1>5, <2>2 DEF InboxInv, Counted, FaultsCountedOnce
  <2> QED BY <2>1, <2>2
<1> QED BY <1>5, <1>6 DEF Counted, FaultsCountedOnce

-----------------------------------------------------------------------------
(* The store. *)

\* Enqueue, acknowledge, require attention and the expiry of a lease keep the
\* invariant.
LEMMA StoreKeeps ==
    ASSUME InboxAssumption, InboxInv, NEW n \in Notices,
           EnqueueNotice(n) \/ Acknowledge(n) \/ RequireAttention(n) \/ LeaseExpires(n)
    PROVE  InboxInv'
<1> USE DEF EnqueueNotice, Acknowledge, RequireAttention, LeaseExpires
<1>1. UNCHANGED <<offers, shown, samplerVars, session, alive, flag, waiter, hook, kills>>
  OBVIOUS
<1>2. Counted'
  BY <1>1, SameSampler DEF InboxInv
<1>3. HookShape' /\ OwnLease'
  BY <1>1 DEF InboxInv, HookShape, OwnLease
<1>4. InboxTypeOK'
  BY <1>1 DEF InboxInv, InboxTypeOK, samplerVars
<1>5. Held'
  <2>1. \A m \in Notices : state[m] # "absent" => state'[m] # "absent"
    BY DEF InboxInv, InboxTypeOK
  <2> QED BY <1>1, <2>1 DEF InboxInv, InboxTypeOK, Held
<1> QED BY <1>2, <1>3, <1>4, <1>5 DEF InboxInv

\* An offer leases notices the store has and was not told to forget, and takes
\* none away.
LEMMA OfferEffect ==
    ASSUME InboxAssumption, InboxTypeOK, NEW sync, NEW s \in Sessions, OfferTo(s, OfferBatch(sync))
    PROVE  /\ OfferBatch(sync) \subseteq Notices
           /\ \A n \in OfferBatch(sync) : state[n] \notin {"absent", "acknowledged"}
           /\ state' \in [Notices -> {"absent", "pending", "offered", "attention", "acknowledged"}]
           /\ \A n \in Notices : \/ state'[n] = state[n]
                                 \/ /\ state[n] \notin {"absent", "acknowledged"}
                                    /\ state'[n] = "offered"
           /\ offers' \in [Notices -> 0..MaxAsyncOffers]
           /\ lease' \in [Notices -> Sessions \cup {None}]
           /\ fresh' \subseteq {n \in Notices : lease'[n] # None}
<1>1. OfferBatch(sync) \subseteq Notices
      /\ \A n \in OfferBatch(sync) : state[n] \notin {"absent", "acknowledged"}
  BY DEF OfferBatch, OfferDue
<1>2. ASSUME NEW n \in Notices PROVE Min({offers[n] + 1, MaxAsyncOffers}) \in 0..MaxAsyncOffers
  <2>1. offers[n] \in Nat /\ MaxAsyncOffers \in Nat
    BY DEF InboxTypeOK, InboxAssumption
  <2>2. offers[n] + 1 \in Int /\ MaxAsyncOffers \in Int
    BY <2>1
  <2>3. Min({offers[n] + 1, MaxAsyncOffers})
          = IF offers[n] + 1 <= MaxAsyncOffers THEN offers[n] + 1 ELSE MaxAsyncOffers
    BY <2>2, MinOfTwo
  <2> QED BY <2>1, <2>3
<1>3. offers' \in [Notices -> 0..MaxAsyncOffers]
  BY <1>2 DEF OfferTo, InboxTypeOK
<1>4. lease' \in [Notices -> Sessions \cup {None}]
      /\ fresh' \subseteq {n \in Notices : lease'[n] # None}
  BY <1>1 DEF OfferTo, InboxTypeOK, InboxAssumption
<1>5. /\ state' \in [Notices -> {"absent", "pending", "offered", "attention", "acknowledged"}]
      /\ \A n \in Notices : \/ state'[n] = state[n]
                            \/ /\ state[n] \notin {"absent", "acknowledged"}
                               /\ state'[n] = "offered"
  BY <1>1 DEF OfferTo, InboxTypeOK
<1> QED BY <1>1, <1>3, <1>4, <1>5

-----------------------------------------------------------------------------
(* Hook processes. *)

\* A step in which hook h gets a record and no other hook loses its lease.
LEMMA OneHook ==
    ASSUME InboxInv, NEW h \in Hooks, NEW new \in HookRecords,
           hook' = [hook EXCEPT ![h] = new], new.at # "idle" => new.s \in Sessions,
           new.at \in {"wait", "poll"} => waiter'[new.s] = h,
           \A s \in Sessions : \A g \in Hooks \ {h} : waiter[s] = g => waiter'[s] = g
    PROVE  HookShape' /\ OwnLease'
<1>1. hook' \in [Hooks -> HookRecords] /\ hook'[h] = new
      /\ \A g \in Hooks \ {h} : hook'[g] = hook[g]
  BY DEF InboxInv, HookShape
<1>2. HookShape'
  BY <1>1 DEF InboxInv, HookShape
<1>3. ASSUME NEW g \in Hooks, hook'[g].at \in {"wait", "poll"} PROVE waiter'[hook'[g].s] = g
  <2>1. CASE g = h
    BY <1>1, <1>3, <2>1
  <2>2. CASE g # h
    <3>1. hook'[g] = hook[g] /\ hook[g].s \in Sessions /\ waiter[hook[g].s] = g
      BY <1>1, <1>3, <2>2 DEF InboxInv, HookShape, OwnLease
    <3> QED BY <2>2, <3>1
  <2> QED BY <2>1, <2>2
<1> QED BY <1>2, <1>3 DEF OwnLease

\* Releasing h's lease takes nobody else's.
LEMMA ReleasedKeeps ==
    ASSUME InboxInv, NEW h \in Hooks
    PROVE  /\ Released(h) \in [Sessions -> Hooks \cup {None, Dead}]
           /\ \A s \in Sessions : \A g \in Hooks \ {h} : waiter[s] = g => Released(h)[s] = g
BY DEF Released, InboxInv, InboxTypeOK

\* A hook that arrives keeps the invariant.
LEMMA ArrivalKeeps ==
    ASSUME InboxAssumption, InboxInv, NEW h \in Hooks, NEW s \in Sessions,
           NEW event \in {"SessionStart", "tool", "prompt"}, NEW wait \in BOOLEAN,
           HookArrives(h, s, event, wait)
    PROVE  InboxInv'
<1> DEFINE new == [NoHook EXCEPT !.s = s, !.sync = (event = "prompt"),
                                 !.at = IF wait THEN "arm" ELSE "context"]
<1>1. /\ hook' = hook \/ hook' = [hook EXCEPT ![h] = new]
      /\ UNCHANGED <<noticeVars, samplerVars, alive, flag, waiter, kills>>
  BY Zenon DEF HookArrives
<1>2. session' \in [Sessions -> {"absent", "open", "closed"}]
  BY DEF HookArrives, InboxInv, InboxTypeOK
<1>3. new \in HookRecords /\ new.s = s /\ new.at \in {"arm", "context"} /\ new.batch = {}
  BY DEF NoHook, HookRecords
<1> HIDE DEF new
<1>4. HookShape' /\ OwnLease'
  <2>1. CASE hook' = hook
    BY <1>1, <2>1 DEF InboxInv, HookShape, OwnLease
  <2>2. CASE hook' = [hook EXCEPT ![h] = new]
    BY <1>1, <1>3, <2>2, OneHook
  <2> QED BY <1>1, <2>1, <2>2
<1>5. InboxTypeOK'
  BY <1>1, <1>2, <1>4 DEF InboxInv, InboxTypeOK, HookShape, HookRecords, noticeVars, samplerVars
<1>6. Held'
  BY <1>1, <1>3 DEF InboxInv, Held, HookShape, noticeVars
<1> QED BY <1>1, <1>4, <1>5, <1>6, SameSampler DEF InboxInv

\* A step of hook h that changes no notice and no sampler: claiming the lease,
\* stopping, being killed, finding nothing to offer.
LEMMA QuietHookKeeps ==
    ASSUME InboxAssumption, InboxInv, NEW h \in Hooks, NEW new \in HookRecords,
           hook' = [hook EXCEPT ![h] = new], new.at # "idle" => new.s \in Sessions,
           new.at \in {"wait", "poll"} => waiter'[new.s] = h, new.batch \subseteq hook[h].batch,
           waiter' \in [Sessions -> Hooks \cup {None, Dead}],
           \A s \in Sessions : \A g \in Hooks \ {h} : waiter[s] = g => waiter'[s] = g,
           UNCHANGED <<noticeVars, samplerVars, session, alive, flag>>, kills' \in 0..MaxKills
    PROVE  InboxInv'
<1>1. HookShape' /\ OwnLease'
  BY OneHook
<1>2. InboxTypeOK'
  BY <1>1 DEF InboxInv, InboxTypeOK, HookShape, HookRecords, noticeVars, samplerVars
<1>3. Held'
  BY DEF InboxInv, Held, HookShape, noticeVars
<1> QED BY <1>1, <1>2, <1>3, SameSampler DEF InboxInv

\* No hook: the record of a process that ended.
LEMMA NoHookRecord == NoHook \in HookRecords /\ NoHook.at = "idle" /\ NoHook.batch = {}
BY DEF NoHook, HookRecords

\* Claiming the waiter lease, stopping and being killed keep the invariant.
LEMMA WaiterKeeps ==
    ASSUME InboxAssumption, InboxInv, NEW h \in Hooks,
           ClaimWaiter(h) \/ WaiterStops(h) \/ HookKilled(h)
    PROVE  InboxInv'
<1>0. /\ hook \in [Hooks -> HookRecords] /\ hook[h] \in HookRecords
      /\ hook[h].at # "idle" => hook[h].s \in Sessions
      /\ waiter \in [Sessions -> Hooks \cup {None, Dead}] /\ kills \in 0..MaxKills
      /\ MaxKills \in Nat
  BY DEF InboxInv, HookShape, InboxTypeOK, InboxAssumption
<1>1. CASE ClaimWaiter(h)
  <2> DEFINE new == [hook[h] EXCEPT !.at = "wait"]
  <2>1. /\ hook[h].at = "arm"
        /\ UNCHANGED <<noticeVars, samplerVars, session, alive, flag, kills>>
        /\ \/ /\ WaiterFree(hook[h].s) /\ waiter' = [waiter EXCEPT ![hook[h].s] = h]
              /\ hook' = [hook EXCEPT ![h].at = "wait"]
           \/ hook' = [hook EXCEPT ![h] = NoHook] /\ UNCHANGED waiter
    BY <1>1, Zenon DEF ClaimWaiter
  <2>2. CASE hook' = [hook EXCEPT ![h] = NoHook] /\ UNCHANGED waiter
    BY <1>0, <2>1, <2>2, NoHookRecord, QuietHookKeeps
  <2>3. CASE /\ WaiterFree(hook[h].s) /\ waiter' = [waiter EXCEPT ![hook[h].s] = h]
             /\ hook' = [hook EXCEPT ![h].at = "wait"]
    <3>1. /\ new \in HookRecords /\ new.at = "wait" /\ new.s = hook[h].s
          /\ new.batch = hook[h].batch /\ hook' = [hook EXCEPT ![h] = new]
      BY <1>0, <2>3 DEF HookRecords
    <3>2. /\ waiter' \in [Sessions -> Hooks \cup {None, Dead}] /\ waiter'[hook[h].s] = h
          /\ \A s \in Sessions : \A g \in Hooks \ {h} : waiter[s] = g => waiter'[s] = g
      BY <1>0, <2>1, <2>3 DEF WaiterFree, InboxAssumption
    <3> HIDE DEF new
    <3> QED BY <1>0, <2>1, <3>1, <3>2, QuietHookKeeps
  <2> QED BY <2>1, <2>2, <2>3
<1>2. CASE WaiterStops(h)
  <2>1. /\ waiter' = Released(h) /\ hook' = [hook EXCEPT ![h] = NoHook]
        /\ UNCHANGED <<noticeVars, samplerVars, session, alive, flag, kills>>
    BY <1>2 DEF WaiterStops
  <2>2. /\ waiter' \in [Sessions -> Hooks \cup {None, Dead}]
        /\ \A s \in Sessions : \A g \in Hooks \ {h} : waiter[s] = g => waiter'[s] = g
    BY <2>1, ReleasedKeeps
  <2> QED BY <1>0, <2>1, <2>2, NoHookRecord, QuietHookKeeps
<1>3. CASE HookKilled(h)
  <2>1. /\ waiter' = [s \in Sessions |-> IF waiter[s] = h THEN Dead ELSE waiter[s]]
        /\ hook' = [hook EXCEPT ![h] = NoHook] /\ kills < MaxKills /\ kills' = kills + 1
        /\ UNCHANGED <<noticeVars, samplerVars, session, alive, flag>>
    BY <1>3 DEF HookKilled
  <2>2. kills' \in 0..MaxKills
    BY <1>0, <2>1
  <2>3. /\ waiter' \in [Sessions -> Hooks \cup {None, Dead}]
        /\ \A s \in Sessions : \A g \in Hooks \ {h} : waiter[s] = g => waiter'[s] = g
    BY <1>0, <2>1
  <2> QED BY <2>1, <2>2, <2>3, NoHookRecord, QuietHookKeeps
<1> QED BY <1>1, <1>2, <1>3

\* A poll of the waiter, which keeps the sampler up, keeps the invariant.
LEMMA PollKeeps ==
    ASSUME InboxAssumption, InboxInv, NEW h \in Hooks, WaiterPoll(h)
    PROVE  InboxInv'
<1> DEFINE s == hook[h].s
           new == [hook[h] EXCEPT !.at = "poll"]
<1>0. /\ hook \in [Hooks -> HookRecords] /\ hook[h] \in HookRecords /\ InboxTypeOK
      /\ hook[h].at # "idle" => hook[h].s \in Sessions
  BY DEF InboxInv, HookShape
<1>1. /\ hook[h].at = "wait" /\ waiter[s] = h /\ EnsureSampler(s)
      /\ kills' = IF exits' = exits THEN kills ELSE kills + 1
      /\ hook' = [hook EXCEPT ![h].at = "poll"]
      /\ UNCHANGED <<noticeVars, session, alive, flag, waiter>>
  BY Zenon DEF WaiterPoll
<1>2. /\ new \in HookRecords /\ new.at = "poll" /\ new.s = hook[h].s
      /\ new.batch = hook[h].batch /\ hook' = [hook EXCEPT ![h] = new]
  BY <1>0, <1>1 DEF HookRecords
<1>3. s \in Sessions
  BY <1>0, <1>1
<1> HIDE DEF new, s
<1>4. HookShape' /\ OwnLease'
  <2>1. \A x \in Sessions : \A g \in Hooks \ {h} : waiter[x] = g => waiter'[x] = g
    BY <1>1
  <2>2. new.s \in Sessions /\ waiter'[new.s] = h
    BY <1>1, <1>2, <1>3 DEF s
  <2> QED BY <1>2, <2>1, <2>2, OneHook
<1>5. /\ Counted' /\ fails' \in [Sessions -> 0..FaultNoticeAfter]
      /\ outage' \subseteq Sessions /\ backoff' \subseteq Sessions
      /\ sampler' \in [Sessions -> {"none", "live", "gone"}] /\ exits' \in [Sessions -> Nat]
      /\ exits' # exits => kills < MaxKills
  <2>0. /\ sampler \in [Sessions -> {"none", "live", "gone"}] /\ exits \in [Sessions -> Nat]
        /\ fails \in [Sessions -> 0..FaultNoticeAfter]
        /\ outage \subseteq Sessions /\ backoff \subseteq Sessions
    BY <1>0 DEF InboxTypeOK
  <2>1. CASE UNCHANGED samplerVars
    BY <2>0, <2>1, SameSampler DEF InboxInv, samplerVars
  <2>2. CASE /\ sampler[s] = "gone" /\ sampler' = [sampler EXCEPT ![s] = "none"]
             /\ SamplerFault(s) /\ UNCHANGED exits
    BY <1>3, <2>0, <2>2, SamplerCounts
  <2>3. CASE /\ sampler[s] = "none" /\ sampler' = [sampler EXCEPT ![s] = "live"]
             /\ UNCHANGED <<fails, backoff, outage, exits>>
    <3>1. \A x \in Sessions : sampler'[x] = "gone" <=> sampler[x] = "gone"
      BY <1>3, <2>0, <2>3
    <3>2. Counted'
      BY <2>3, <3>1 DEF InboxInv, Counted, FaultsCountedOnce
    <3> QED BY <2>0, <2>3, <3>2
  <2>4. CASE /\ sampler[s] = "none" /\ kills < MaxKills /\ SamplerFault(s) /\ UNCHANGED sampler
             /\ exits' = [exits EXCEPT ![s] = @ + 1]
    <3>1. sampler' = [sampler EXCEPT ![s] = "none"]
      BY <1>3, <2>0, <2>4
    <3>2. exits' \in [Sessions -> Nat]
      BY <1>3, <2>0, <2>4
    <3> QED BY <1>3, <2>0, <2>4, <3>1, <3>2, SamplerCounts
  <2> QED BY <1>1, <2>1, <2>2, <2>3, <2>4 DEF EnsureSampler
<1>6. kills' \in 0..MaxKills
  BY <1>0, <1>1, <1>5 DEF InboxTypeOK, InboxAssumption
<1>7. InboxTypeOK'
  BY <1>0, <1>1, <1>4, <1>5, <1>6 DEF InboxTypeOK, HookShape, HookRecords, noticeVars
<1>8. Held'
  BY <1>0, <1>1, <1>2 DEF InboxInv, Held, noticeVars
<1> QED BY <1>4, <1>5, <1>7, <1>8 DEF InboxInv

\* An offer by the waiter or by a context hook, and the print of what was
\* offered, keep the invariant.
LEMMA OfferKeeps ==
    ASSUME InboxAssumption, InboxInv, NEW h \in Hooks,
           WaiterOffer(h) \/ ContextOffer(h) \/ PrintNotices(h)
    PROVE  InboxInv'
<1>0. /\ hook \in [Hooks -> HookRecords] /\ hook[h] \in HookRecords /\ InboxTypeOK
      /\ hook[h].at # "idle" => hook[h].s \in Sessions
      /\ waiter \in [Sessions -> Hooks \cup {None, Dead}] /\ kills \in 0..MaxKills
  BY DEF InboxInv, HookShape, InboxTypeOK
<1>1. ASSUME NEW sync, hook[h].at # "idle", OfferTo(hook[h].s, OfferBatch(sync)),
             hook' = [hook EXCEPT ![h].at = "print", ![h].batch = OfferBatch(sync)],
             waiter' = waiter \/ waiter' = Released(h),
             UNCHANGED <<shown, samplerVars, session, alive, flag, kills>>
      PROVE  InboxInv'
  <2> DEFINE B == OfferBatch(sync)
             new == [hook[h] EXCEPT !.at = "print", !.batch = B]
  <2>1. /\ B \subseteq Notices /\ \A n \in B : state[n] \notin {"absent", "acknowledged"}
        /\ state' \in [Notices -> {"absent", "pending", "offered", "attention", "acknowledged"}]
        /\ \A n \in Notices : \/ state'[n] = state[n]
                              \/ /\ state[n] \notin {"absent", "acknowledged"}
                                 /\ state'[n] = "offered"
        /\ offers' \in [Notices -> 0..MaxAsyncOffers]
        /\ lease' \in [Notices -> Sessions \cup {None}]
        /\ fresh' \subseteq {n \in Notices : lease'[n] # None}
    BY <1>0, <1>1, OfferEffect
  <2> HIDE DEF B
  <2>2. /\ new \in HookRecords /\ new.at = "print" /\ new.s = hook[h].s /\ new.batch = B
        /\ hook' = [hook EXCEPT ![h] = new]
    BY <1>0, <1>1, <2>1 DEF HookRecords, B
  <2>3. /\ waiter' \in [Sessions -> Hooks \cup {None, Dead}]
        /\ \A s \in Sessions : \A g \in Hooks \ {h} : waiter[s] = g => waiter'[s] = g
    BY <1>0, <1>1, ReleasedKeeps
  <2> HIDE DEF new
  <2>4. HookShape' /\ OwnLease'
    BY <1>0, <1>1, <2>2, <2>3, OneHook
  <2>5. InboxTypeOK'
    BY <1>0, <1>1, <2>1, <2>3, <2>4 DEF InboxTypeOK, HookShape, HookRecords, samplerVars
  <2>6. Held'
    <3>1. \A n \in Notices : state[n] # "absent" => state'[n] # "absent"
      BY <2>1
    <3>2. \A n \in shown' : state'[n] # "absent"
      BY <1>0, <1>1, <3>1 DEF InboxInv, Held, InboxTypeOK
    <3>3. ASSUME NEW g \in Hooks, NEW n \in hook'[g].batch PROVE state'[n] # "absent"
      <4>1. CASE g = h
        BY <1>0, <2>1, <2>2, <3>1, <4>1, <3>3
      <4>2. CASE g # h
        <5>1. hook'[g] = hook[g] /\ hook[g].batch \subseteq Notices
          BY <1>0, <2>2, <4>2 DEF HookRecords
        <5> QED BY <3>1, <3>3, <5>1 DEF InboxInv, Held
      <4> QED BY <4>1, <4>2
    <3> QED BY <3>2, <3>3 DEF Held
  <2> QED BY <1>1, <2>4, <2>5, <2>6, SameSampler DEF InboxInv
<1>2. CASE WaiterOffer(h)
  <2>1. /\ hook[h].at = "poll"
        /\ UNCHANGED <<shown, samplerVars, session, alive, flag, kills>>
        /\ \/ /\ OfferTo(hook[h].s, OfferBatch(FALSE)) /\ waiter' = Released(h)
              /\ hook' = [hook EXCEPT ![h].at = "print", ![h].batch = OfferBatch(FALSE)]
           \/ /\ UNCHANGED <<state, offers, lease, fresh>>
              /\ \/ hook' = [hook EXCEPT ![h].at = "wait"] /\ UNCHANGED waiter
                 \/ hook' = [hook EXCEPT ![h] = NoHook] /\ waiter' = Released(h)
    BY <1>2, Zenon DEF WaiterOffer
  <2>2. CASE OfferTo(hook[h].s, OfferBatch(FALSE)) /\ waiter' = Released(h)
             /\ hook' = [hook EXCEPT ![h].at = "print", ![h].batch = OfferBatch(FALSE)]
    BY <1>1, <2>1, <2>2
  <2>3. CASE UNCHANGED <<state, offers, lease, fresh>>
             /\ hook' = [hook EXCEPT ![h] = NoHook] /\ waiter' = Released(h)
    <3>1. /\ waiter' \in [Sessions -> Hooks \cup {None, Dead}]
          /\ \A s \in Sessions : \A g \in Hooks \ {h} : waiter[s] = g => waiter'[s] = g
      BY <2>3, ReleasedKeeps
    <3>2. UNCHANGED <<noticeVars, samplerVars, session, alive, flag>> /\ kills' \in 0..MaxKills
      BY <1>0, <2>1, <2>3 DEF noticeVars
    <3> QED BY <2>3, <3>1, <3>2, NoHookRecord, QuietHookKeeps
  <2>4. CASE UNCHANGED <<state, offers, lease, fresh>>
             /\ hook' = [hook EXCEPT ![h].at = "wait"] /\ UNCHANGED waiter
    <3> DEFINE new == [hook[h] EXCEPT !.at = "wait"]
    <3>1. /\ new \in HookRecords /\ new.at = "wait" /\ new.s = hook[h].s
          /\ new.batch = hook[h].batch /\ hook' = [hook EXCEPT ![h] = new]
      BY <1>0, <2>4 DEF HookRecords
    <3>2. hook[h].s \in Sessions /\ waiter'[hook[h].s] = h
      BY <1>0, <2>1, <2>4 DEF InboxInv, OwnLease
    <3>3. UNCHANGED <<noticeVars, samplerVars, session, alive, flag>> /\ kills' \in 0..MaxKills
      BY <1>0, <2>1, <2>4 DEF noticeVars
    <3>4. /\ waiter' \in [Sessions -> Hooks \cup {None, Dead}]
          /\ \A s \in Sessions : \A g \in Hooks \ {h} : waiter[s] = g => waiter'[s] = g
      BY <1>0, <2>4
    <3> HIDE DEF new
    <3> QED BY <3>1, <3>2, <3>3, <3>4, QuietHookKeeps
  <2> QED BY <2>1, <2>2, <2>3, <2>4
<1>3. CASE ContextOffer(h)
  <2>1. /\ hook[h].at = "context"
        /\ UNCHANGED <<shown, samplerVars, session, alive, flag, waiter, kills>>
        /\ \/ /\ OfferTo(hook[h].s, OfferBatch(hook[h].sync))
              /\ hook' = [hook EXCEPT ![h].at = "print", ![h].batch = OfferBatch(hook[h].sync)]
           \/ hook' = [hook EXCEPT ![h] = NoHook] /\ UNCHANGED <<state, offers, lease, fresh>>
    BY <1>3, Zenon DEF ContextOffer
  <2>2. CASE OfferTo(hook[h].s, OfferBatch(hook[h].sync))
             /\ hook' = [hook EXCEPT ![h].at = "print", ![h].batch = OfferBatch(hook[h].sync)]
    BY <1>1, <2>1, <2>2
  <2>3. CASE hook' = [hook EXCEPT ![h] = NoHook] /\ UNCHANGED <<state, offers, lease, fresh>>
    <3>1. UNCHANGED <<noticeVars, samplerVars, session, alive, flag>> /\ kills' \in 0..MaxKills
      BY <1>0, <2>1, <2>3 DEF noticeVars
    <3> QED BY <1>0, <2>1, <2>3, <3>1, NoHookRecord, QuietHookKeeps
  <2> QED BY <2>1, <2>2, <2>3
<1>4. CASE PrintNotices(h)
  <2>1. /\ shown' = shown \cup hook[h].batch /\ hook' = [hook EXCEPT ![h] = NoHook]
        /\ UNCHANGED <<state, offers, lease, fresh, samplerVars, session, alive, flag, waiter, kills>>
    BY <1>4 DEF PrintNotices
  <2>2. HookShape' /\ OwnLease'
    BY <2>1, NoHookRecord, OneHook
  <2>3. InboxTypeOK'
    BY <1>0, <2>1, <2>2 DEF InboxTypeOK, HookShape, HookRecords, samplerVars
  <2>4. Held'
    BY <1>0, <2>1, NoHookRecord DEF InboxInv, Held
  <2> QED BY <2>1, <2>2, <2>3, <2>4, SameSampler DEF InboxInv
<1> QED BY <1>2, <1>3, <1>4

-----------------------------------------------------------------------------
(* Samplers, sessions and the operator. *)

\* The parts of the invariant that rest on hooks, leases and notices alone.
LEMMA SameHooks ==
    ASSUME InboxInv, UNCHANGED <<noticeVars, waiter, hook>>
    PROVE  HookShape' /\ OwnLease' /\ Held'
BY DEF InboxInv, HookShape, OwnLease, Held, noticeVars

\* Samples, stops, faults and kills of a sampler keep the invariant.
LEMMA SamplerKeeps ==
    ASSUME InboxAssumption, InboxInv, NEW s \in Sessions,
           SamplerSamples(s) \/ SamplerStops(s) \/ SamplerFaults(s) \/ SamplerKilled(s)
           \/ BackoffEnds(s)
    PROVE  InboxInv'
<1>0. /\ sampler \in [Sessions -> {"none", "live", "gone"}] /\ exits \in [Sessions -> Nat]
      /\ fails \in [Sessions -> 0..FaultNoticeAfter] /\ FaultNoticeAfter \in Nat
      /\ FaultNoticeAfter > 0 /\ outage \subseteq Sessions /\ backoff \subseteq Sessions
      /\ kills \in 0..MaxKills /\ MaxKills \in Nat
  BY DEF InboxInv, InboxTypeOK, InboxAssumption
<1>1. UNCHANGED <<noticeVars, session, alive, flag, waiter, hook>>
  BY DEF SamplerSamples, SamplerStops, SamplerFaults, SamplerKilled, BackoffEnds, noticeVars
<1>2. kills' \in 0..MaxKills
  <2>1. CASE SamplerSamples(s) \/ SamplerStops(s) \/ BackoffEnds(s)
    <3>1. kills' = kills
      BY <2>1 DEF SamplerSamples, SamplerStops, BackoffEnds
    <3> QED BY <1>0, <3>1
  <2>2. CASE SamplerFaults(s) \/ SamplerKilled(s)
    <3>1. kills < MaxKills /\ kills' = kills + 1
      BY <2>2 DEF SamplerFaults, SamplerKilled
    <3> QED BY <1>0, <3>1
  <2> QED BY <2>1, <2>2
<1>3. HookShape' /\ OwnLease' /\ Held'
  BY <1>1, SameHooks
<1> DEFINE Goal == /\ Counted' /\ fails' \in [Sessions -> 0..FaultNoticeAfter]
                   /\ outage' \subseteq Sessions /\ backoff' \subseteq Sessions
                   /\ sampler' \in [Sessions -> {"none", "live", "gone"}]
                   /\ exits' \in [Sessions -> Nat]
<1>4. Goal
  <2>1. CASE SamplerSamples(s)
    <3>1. /\ sampler[s] = "live" /\ sampler' = sampler
          /\ fails' = [fails EXCEPT ![s] = 0] /\ exits' = [exits EXCEPT ![s] = 0]
          /\ backoff' = backoff \ {s} /\ outage' = outage \ {s}
      BY <2>1 DEF SamplerSamples
    <3>2. Min({0, FaultNoticeAfter}) = 0
      <4>1. 0 \in Int /\ FaultNoticeAfter \in Int
        BY <1>0
      <4> QED BY <1>0, <4>1, MinOfTwo
    <3>3. ASSUME NEW x \in Sessions
          PROVE  LET d == exits'[x] - (IF sampler'[x] = "gone" THEN 1 ELSE 0)
                 IN  /\ fails'[x] = Min({d, FaultNoticeAfter})
                     /\ d >= FaultNoticeAfter => x \in outage'
                     /\ sampler'[x] = "gone" => exits'[x] > 0
      <4>1. CASE x = s
        <5>1. exits'[x] - (IF sampler'[x] = "gone" THEN 1 ELSE 0) = 0 /\ fails'[x] = 0
          BY <1>0, <3>1, <4>1
        <5> QED BY <1>0, <3>1, <3>2, <4>1, <5>1
      <4>2. CASE x # s
        <5>1. /\ fails'[x] = fails[x] /\ exits'[x] = exits[x] /\ sampler'[x] = sampler[x]
              /\ x \in outage => x \in outage'
          BY <1>0, <3>1, <4>2
        <5>2. LET d == exits[x] - (IF sampler[x] = "gone" THEN 1 ELSE 0)
              IN  /\ fails[x] = Min({d, FaultNoticeAfter})
                  /\ d >= FaultNoticeAfter => x \in outage
                  /\ sampler[x] = "gone" => exits[x] > 0
          BY DEF InboxInv, Counted, FaultsCountedOnce
        <5>3. exits'[x] - (IF sampler'[x] = "gone" THEN 1 ELSE 0)
                = exits[x] - (IF sampler[x] = "gone" THEN 1 ELSE 0)
          BY <5>1
        <5> QED BY <5>1, <5>2, <5>3
      <4> QED BY <4>1, <4>2
    <3>4. Counted'
      BY <3>3 DEF Counted, FaultsCountedOnce
    <3> QED BY <1>0, <3>1, <3>4
  <2>2. ASSUME sampler[s] = "live", UNCHANGED <<fails, backoff, outage>>,
               \/ /\ sampler' = [sampler EXCEPT ![s] = "gone"]
                  /\ exits' = [exits EXCEPT ![s] = @ + 1]
               \/ sampler' = [sampler EXCEPT ![s] = "none"] /\ exits' = exits
        PROVE  Goal
    <3>1. ASSUME NEW x \in Sessions
          PROVE  /\ exits'[x] - (IF sampler'[x] = "gone" THEN 1 ELSE 0)
                     = exits[x] - (IF sampler[x] = "gone" THEN 1 ELSE 0)
                 /\ sampler'[x] = "gone" => exits'[x] > 0
      BY <1>0, <2>2 DEF InboxInv, Counted
    <3>2. Counted'
      BY <2>2, <3>1 DEF InboxInv, Counted, FaultsCountedOnce
    <3> QED BY <1>0, <2>2, <3>2
  <2>3. CASE SamplerStops(s)
    BY <2>2, <2>3 DEF SamplerStops
  <2>4. CASE SamplerKilled(s)
    BY <2>2, <2>4 DEF SamplerKilled
  <2>5. CASE SamplerFaults(s)
    <3>1. /\ sampler[s] = "live" /\ sampler' = [sampler EXCEPT ![s] = "none"]
          /\ SamplerFault(s) /\ exits' = [exits EXCEPT ![s] = @ + 1]
      BY <2>5 DEF SamplerFaults
    <3>2. exits' \in [Sessions -> Nat] /\ sampler' \in [Sessions -> {"none", "live", "gone"}]
      BY <1>0, <3>1
    <3> QED BY <3>1, <3>2, SamplerCounts
  <2>6. CASE BackoffEnds(s)
    <3>1. UNCHANGED <<sampler, fails, outage, exits>> /\ backoff' = backoff \ {s}
      BY <2>6 DEF BackoffEnds
    <3> QED BY <1>0, <3>1 DEF InboxInv, Counted, FaultsCountedOnce
  <2> QED BY <2>1, <2>3, <2>4, <2>5, <2>6
<1>5. InboxTypeOK'
  BY <1>1, <1>4, <1>2 DEF InboxInv, InboxTypeOK, noticeVars
<1> QED BY <1>3, <1>4, <1>5 DEF InboxInv

\* The end of a session, the death of a coordinator and the flag keep it.
LEMMA OperatorKeeps ==
    ASSUME InboxAssumption, InboxInv,
           (\E s \in Sessions : SessionEnd(s)) \/ (\E o \in Owners : CoordinatorDies(o)) \/ ToggleFlag
    PROVE  InboxInv'
<1>1. UNCHANGED <<noticeVars, samplerVars, waiter, hook>>
  BY DEF SessionEnd, CoordinatorDies, ToggleFlag
<1>2. HookShape' /\ OwnLease' /\ Held' /\ Counted'
  BY <1>1, SameHooks, SameSampler DEF InboxInv
<1>3. /\ session' \in [Sessions -> {"absent", "open", "closed"}] /\ alive' \subseteq Owners
      /\ flag' \in BOOLEAN /\ kills' \in 0..MaxKills
  <2>1. /\ session \in [Sessions -> {"absent", "open", "closed"}] /\ alive \subseteq Owners
        /\ flag \in BOOLEAN /\ kills \in 0..MaxKills /\ MaxKills \in Nat
    BY DEF InboxInv, InboxTypeOK, InboxAssumption
  <2>2. CASE \E s \in Sessions : SessionEnd(s)
    BY <2>1, <2>2 DEF SessionEnd
  <2>3. CASE \E o \in Owners : CoordinatorDies(o)
    BY <2>1, <2>3 DEF CoordinatorDies
  <2>4. CASE ToggleFlag
    BY <2>1, <2>4 DEF ToggleFlag
  <2> QED BY <2>2, <2>3, <2>4
<1>4. InboxTypeOK'
  BY <1>1, <1>3 DEF InboxInv, InboxTypeOK, noticeVars, samplerVars
<1> QED BY <1>2, <1>4 DEF InboxInv

-----------------------------------------------------------------------------
(* The invariant, and what follows from it. *)

\* Every step keeps the invariant.
LEMMA InboxInvKept ==
    ASSUME InboxAssumption, InboxInv, [InboxNext]_ivars
    PROVE  InboxInv'
<1>1. CASE \E n \in Notices :
              EnqueueNotice(n) \/ Acknowledge(n) \/ RequireAttention(n) \/ LeaseExpires(n)
  BY <1>1, StoreKeeps
<1>2. CASE \E h \in Hooks :
              \E s \in Sessions, event \in {"SessionStart", "tool", "prompt"}, wait \in BOOLEAN :
                  HookArrives(h, s, event, wait)
  BY <1>2, ArrivalKeeps
<1>3. CASE \E h \in Hooks : HookStep(h)
  BY <1>3, WaiterKeeps, PollKeeps, OfferKeeps DEF HookStep
<1>4. CASE \E h \in Hooks : HookKilled(h)
  BY <1>4, WaiterKeeps
<1>5. CASE \E s \in Sessions :
              SamplerSamples(s) \/ SamplerStops(s) \/ SamplerFaults(s) \/ SamplerKilled(s)
              \/ BackoffEnds(s)
  BY <1>5, SamplerKeeps
<1>6. CASE (\E s \in Sessions : SessionEnd(s)) \/ (\E o \in Owners : CoordinatorDies(o)) \/ ToggleFlag
  BY <1>6, OperatorKeeps
<1>7. CASE UNCHANGED ivars
  <2>1. UNCHANGED <<noticeVars, waiter, hook>> /\ UNCHANGED samplerVars
    BY <1>7 DEF ivars
  <2>2. HookShape' /\ OwnLease' /\ Held' /\ Counted'
    BY <2>1, SameHooks, SameSampler DEF InboxInv
  <2>3. InboxTypeOK'
    BY <1>7 DEF InboxInv, InboxTypeOK, ivars, noticeVars, samplerVars
  <2> QED BY <2>2, <2>3 DEF InboxInv
<1> QED BY <1>1, <1>2, <1>3, <1>4, <1>5, <1>6, <1>7 DEF InboxNext

\* The invariant holds throughout.
LEMMA InboxInvariant ==
    ASSUME InboxAssumption
    PROVE  InboxSpec => []InboxInv
<1>1. InboxInit => InboxInv
  BY InboxInvInit
<1>2. InboxInv /\ [InboxNext]_ivars => InboxInv'
  BY InboxInvKept
<1> QED BY <1>1, <1>2, PTL DEF InboxSpec

\* The inbox, the leases and the hooks keep their types, for any numbers of them.
THEOREM InboxTypeCorrect ==
    ASSUME InboxAssumption
    PROVE  InboxSpec => []InboxTypeOK
<1>1. InboxInv => InboxTypeOK
  BY DEF InboxInv
<1> QED BY <1>1, InboxInvariant, PTL

\* A session never has two waiter processes in their polling loop, whatever was
\* killed, resumed or re-armed (claim_waiter, lease_alive, release).
THEOREM OneWaiterInvariant ==
    ASSUME InboxAssumption
    PROVE  InboxSpec => []OneWaiter
<1>1. InboxInv => OneWaiter
  <2> SUFFICES ASSUME InboxInv, NEW s \in Sessions
               PROVE  Cardinality({h \in Hooks : hook[h].s = s /\ hook[h].at \in {"wait", "poll"}}) <= 1
    BY DEF OneWaiter
  <2> DEFINE Loop == {h \in Hooks : hook[h].s = s /\ hook[h].at \in {"wait", "poll"}}
  <2>1. Loop \subseteq {waiter[s]}
    BY DEF InboxInv, OwnLease
  <2>2. IsFiniteSet({waiter[s]}) /\ Cardinality({waiter[s]}) = 1
    BY FS_Singleton
  <2> HIDE DEF Loop
  <2>3. Cardinality(Loop) <= 1
    BY <2>1, <2>2, FS_Subset
  <2> QED BY <2>3 DEF Loop
<1> QED BY <1>1, InboxInvariant, PTL

\* Every failed sampler attempt since the last sample is counted exactly once,
\* whether it failed to start, released its lease or left it behind, and the
\* third is reported (_sampler_fault, ensure_sampler, release).
THEOREM FaultsCountedOnceInvariant ==
    ASSUME InboxAssumption
    PROVE  InboxSpec => []FaultsCountedOnce
<1>1. InboxInv => FaultsCountedOnce
  BY DEF InboxInv, Counted
<1> QED BY <1>1, InboxInvariant, PTL

-----------------------------------------------------------------------------
(* The inbox implements Obligations. *)

\* An offer of any batch leaves what is owed as it was.
LEMMA OfferKeepsOwed ==
    ASSUME InboxTypeOK, NEW s, NEW sync, OfferTo(s, OfferBatch(sync))
    PROVE  InboxOwed' = InboxOwed
<1>1. ASSUME NEW n \in OfferBatch(sync)
      PROVE  state[n] \notin {"absent", "acknowledged"}
  BY DEF OfferBatch, OfferDue
<1>2. state' = [n \in Notices |-> IF n \in OfferBatch(sync) /\ state[n] # "attention"
                                 THEN "offered" ELSE state[n]]
  BY DEF OfferTo
<1> QED BY <1>1, <1>2 DEF InboxOwed

\* A hook's step leaves what is owed as it was: it offers or prints, no more.
LEMMA HookKeepsOwed ==
    ASSUME InboxTypeOK, NEW h, HookStep(h)
    PROVE  InboxOwed' = InboxOwed
<1>1. CASE ClaimWaiter(h)
  BY <1>1 DEF ClaimWaiter, noticeVars, InboxOwed
<1>2. CASE WaiterPoll(h)
  BY <1>2 DEF WaiterPoll, noticeVars, InboxOwed
<1>3. CASE WaiterOffer(h)
  <2>1. OfferTo(hook[h].s, OfferBatch(FALSE)) \/ state' = state
    BY <1>3, Zenon DEF WaiterOffer
  <2>2. CASE state' = state
    BY <2>2 DEF InboxOwed
  <2> QED BY <2>1, <2>2, OfferKeepsOwed
<1>4. CASE WaiterStops(h)
  BY <1>4 DEF WaiterStops, noticeVars, InboxOwed
<1>5. CASE ContextOffer(h)
  <2>1. OfferTo(hook[h].s, OfferBatch(hook[h].sync)) \/ state' = state
    BY <1>5, Zenon DEF ContextOffer
  <2>2. CASE state' = state
    BY <2>2 DEF InboxOwed
  <2> QED BY <2>1, <2>2, OfferKeepsOwed
<1>6. CASE PrintNotices(h)
  BY <1>6 DEF PrintNotices, InboxOwed
<1> QED BY <1>1, <1>2, <1>3, <1>4, <1>5, <1>6 DEF HookStep

\* Every step of the inbox raises or consumes one notice or leaves what is owed.
LEMMA InboxStepSimulates ==
    ASSUME InboxInv, [InboxNext]_ivars
    PROVE  InboxObligation!Raise \/ InboxObligation!Consume \/ InboxOwed' = InboxOwed
<1>0. InboxTypeOK /\ state \in [Notices -> {"absent", "pending", "offered", "attention", "acknowledged"}]
  BY DEF InboxInv, InboxTypeOK
<1>1. ASSUME NEW n \in Notices, EnqueueNotice(n)
      PROVE  InboxObligation!Raise
  <2>1. state[n] = "absent" /\ state' = [state EXCEPT ![n] = "pending"]
    BY <1>1 DEF EnqueueNotice
  <2>2. /\ \A m \in {n} : InboxOwed[m] = "none"
        /\ InboxOwed' = [m \in Notices |-> IF m \in {n} THEN "owed" ELSE InboxOwed[m]]
    BY <1>0, <2>1 DEF InboxOwed
  <2>3. {n} \in SUBSET Notices
    BY <1>1
  <2> QED BY <2>2, <2>3 DEF InboxObligation!Raise
<1>2. ASSUME NEW n \in Notices, Acknowledge(n)
      PROVE  InboxObligation!Consume
  <2>1. state[n] # "acknowledged" /\ n \in shown /\ state' = [state EXCEPT ![n] = "acknowledged"]
    BY <1>2 DEF Acknowledge
  <2>2. state[n] # "absent"
    BY <2>1 DEF InboxInv, Held
  <2>3. /\ \A m \in {n} : InboxOwed[m] = "owed"
        /\ InboxOwed' = [m \in Notices |-> IF m \in {n} THEN "consumed" ELSE InboxOwed[m]]
    BY <1>0, <2>1, <2>2 DEF InboxOwed
  <2>4. {n} \in SUBSET Notices
    BY <1>2
  <2> QED BY <2>3, <2>4 DEF InboxObligation!Consume
<1>3. ASSUME NEW n \in Notices, RequireAttention(n) \/ LeaseExpires(n)
      PROVE  InboxOwed' = InboxOwed
  <2>1. CASE RequireAttention(n)
    <3>1. state[n] \in {"pending", "offered"} /\ state' = [state EXCEPT ![n] = "attention"]
      BY <2>1 DEF RequireAttention
    <3> QED BY <1>0, <3>1 DEF InboxOwed
  <2>2. CASE LeaseExpires(n)
    BY <2>2 DEF LeaseExpires, InboxOwed
  <2> QED BY <1>3, <2>1, <2>2
<1>4. ASSUME NEW h \in Hooks, HookStep(h)
      PROVE  InboxOwed' = InboxOwed
  BY <1>0, <1>4, HookKeepsOwed
<1>5. ASSUME NEW h \in Hooks,
             HookKilled(h) \/ \E s \in Sessions, event \in {"SessionStart", "tool", "prompt"},
                                wait \in BOOLEAN : HookArrives(h, s, event, wait)
      PROVE  InboxOwed' = InboxOwed
  <2>1. CASE HookKilled(h)
    BY <2>1 DEF HookKilled, noticeVars, InboxOwed
  <2>2. CASE \E s \in Sessions, event \in {"SessionStart", "tool", "prompt"},
                wait \in BOOLEAN : HookArrives(h, s, event, wait)
    <3>1. state' = state
      BY <2>2, Zenon DEF HookArrives, noticeVars
    <3> QED BY <3>1 DEF InboxOwed
  <2> QED BY <1>5, <2>1, <2>2
<1>6. ASSUME NEW s \in Sessions,
             SessionEnd(s) \/ SamplerSamples(s) \/ SamplerStops(s) \/ SamplerFaults(s)
             \/ SamplerKilled(s) \/ BackoffEnds(s)
      PROVE  InboxOwed' = InboxOwed
  <2>1. state' = state
    BY <1>6 DEF SessionEnd, SamplerSamples, SamplerStops, SamplerFaults, SamplerKilled,
                BackoffEnds, noticeVars
  <2> QED BY <2>1 DEF InboxOwed
<1>7. ASSUME ToggleFlag \/ (\E o \in Owners : CoordinatorDies(o)) \/ UNCHANGED ivars
      PROVE  InboxOwed' = InboxOwed
  BY <1>7 DEF ToggleFlag, CoordinatorDies, ivars, noticeVars, InboxOwed
<1> QED BY <1>1, <1>2, <1>3, <1>4, <1>5, <1>6, <1>7 DEF InboxNext

\* No offer, lease, kill or expiry loses a notice, and only the recipient's
\* acknowledgement consumes it: the inbox implements the durable obligation
\* (offer_pending, acknowledge).
THEOREM InboxImplementsObligations ==
    ASSUME InboxAssumption
    PROVE  InboxSpec => InboxObligation!ObSpec
<1>1. InboxInit => InboxObligation!ObInit
  BY DEF InboxInit, InboxObligation!ObInit, InboxOwed
<1>2. InboxInv /\ [InboxNext]_ivars => [InboxObligation!Raise \/ InboxObligation!Consume]_InboxOwed
  BY InboxStepSimulates
<1> QED BY <1>1, <1>2, InboxInvariant, PTL DEF InboxSpec, InboxObligation!ObSpec

-----------------------------------------------------------------------------
(* The held-action gate. *)

\* Where a caller can be.
Places == {"idle", "mkdir", "sign", "look", "age", "remove", "rmdir", "check", "record",
           "unlink", "leave", "unlink_denied", "leave_denied", "act", "gone"}

\* The shape of the state the proofs rely on.
HeldTypeOK ==
    /\ pc \in [Callers -> Places]
    /\ DOMAIN asks = Callers

\* Callers whose receipt is written and whose action has not happened.
Authorized(p) == pc[p] \in {"unlink", "leave", "act"}

\* A caller that has a request has one that was verified when it was made, and
\* an authorized one has its receipt.
AskInv ==
    \A p \in Callers :
        /\ pc[p] \notin {"idle", "gone"} =>
              Verified(asks[p].token, asks[p].binding, asks[p].now)
        /\ Authorized(p) => asks[p].token \in spent

\* No caller was killed.
AllLive == \A p \in Callers : pc[p] # "gone"

\* Places between a successful mkdir and the rmdir that gives the lock back,
\* with and without the owner file.
Marked == {"check", "record", "unlink", "unlink_denied"}
Unmarked == {"sign", "leave", "leave_denied"}
Inside(p) == pc[p] \in Marked \cup Unmarked

\* The lock while nobody has gone: one holder, whose files are there, and no
\* reclaimer.
LockInv ==
    AllLive =>
        /\ \A p \in Callers : pc[p] \notin {"age", "remove", "rmdir"}
        /\ \A p, q \in Callers : Inside(p) /\ Inside(q) => p = q
        /\ \A p \in Callers : Inside(p) => dir # "none"
        /\ \A p \in Callers : pc[p] \in Marked => owner = p
        /\ \A p \in Callers : pc[p] \in Unmarked => owner = Nil
        /\ (\A p \in Callers : ~Inside(p)) => owner = Nil

\* The ledger while nobody has gone: a receipt belongs to one grant or to one
\* authorized caller.
LedgerInv ==
    AllLive =>
        /\ \A p \in Callers : pc[p] = "record" => asks[p].token \notin spent
        /\ \A p \in Callers : Authorized(p) => \A g \in granted : g.token # asks[p].token
        /\ \A p, q \in Callers : Authorized(p) /\ Authorized(q) /\ asks[p].token = asks[q].token
                                  => p = q
        /\ OneGrantPerToken

HeldInv == HeldTypeOK /\ AskInv /\ GrantsAreAccounted /\ LockInv /\ LedgerInv

-----------------------------------------------------------------------------
\* HeldInv holds initially.
LEMMA HeldInvInit == Init => HeldInv
BY DEF Init, HeldInv, HeldTypeOK, AskInv, GrantsAreAccounted, LockInv, LedgerInv, Places,
       Inside, Marked, Unmarked, Authorized, OneGrantPerToken, AllLive

\* A step of caller p leaves the places and requests of the others alone.
LEMMA OneCaller ==
    ASSUME HeldTypeOK, NEW p \in Callers,
           Step(p) \/ (\E t \in Tokens, b \in Requests : Ask(p, t, b)) \/ Gone(p)
    PROVE  /\ HeldTypeOK'
           /\ \A q \in Callers \ {p} : pc'[q] = pc[q] /\ asks'[q] = asks[q]
<1> USE DEF HeldTypeOK, Places, Goes, Denied, Waits
<1>1. CASE MakeDir(p) \/ Sign(p) \/ Look(p) \/ Age(p)
  BY <1>1 DEF MakeDir, Sign, Look, Age
<1>2. CASE Reclaim(p) \/ Release(p)
  BY <1>2 DEF Reclaim, Release, Unlinks, Rmdirs
<1>3. CASE CheckLedger(p) \/ Record(p) \/ Act(p)
  BY <1>3 DEF CheckLedger, Record, Act
<1>4. CASE (\E t \in Tokens, b \in Requests : Ask(p, t, b)) \/ Gone(p)
  BY <1>4 DEF Ask, Gone
<1> QED BY <1>1, <1>2, <1>3, <1>4 DEF Step

\* A caller that takes a step lives before and after it.
LEMMA CallerLives ==
    ASSUME HeldTypeOK, NEW p \in Callers,
           Step(p) \/ \E t \in Tokens, b \in Requests : Ask(p, t, b)
    PROVE  AllLive' <=> AllLive
<1>1. pc[p] # "gone" /\ pc'[p] # "gone"
  <2> USE DEF HeldTypeOK, Goes, Denied, Waits
  <2>1. CASE MakeDir(p) \/ Sign(p) \/ Look(p) \/ Age(p)
    BY <2>1 DEF MakeDir, Sign, Look, Age
  <2>2. CASE Reclaim(p) \/ Release(p)
    BY <2>2 DEF Reclaim, Release, Unlinks, Rmdirs
  <2>3. CASE CheckLedger(p) \/ Record(p) \/ Act(p)
    BY <2>3 DEF CheckLedger, Record, Act
  <2>4. CASE \E t \in Tokens, b \in Requests : Ask(p, t, b)
    BY <2>4 DEF Ask
  <2> QED BY <2>1, <2>2, <2>3, <2>4 DEF Step
<1>2. \A q \in Callers \ {p} : pc'[q] = pc[q]
  BY OneCaller
<1> QED BY <1>1, <1>2 DEF AllLive

\* A step of caller p keeps what a request was verified for, and its receipt.
LEMMA AskKept ==
    ASSUME HeldTypeOK, AskInv, NEW p \in Callers,
           Step(p) \/ (\E t \in Tokens, b \in Requests : Ask(p, t, b)) \/ Gone(p)
    PROVE  AskInv'
<1> USE DEF HeldTypeOK, Goes, Denied, Waits, AskInv, Authorized, Verified
<1>o. \A q \in Callers \ {p} : pc'[q] = pc[q] /\ asks'[q] = asks[q]
  BY OneCaller
<1>1. CASE MakeDir(p) \/ Sign(p) \/ Look(p) \/ Age(p)
  BY <1>1, <1>o DEF MakeDir, Sign, Look, Age
<1>2. CASE Reclaim(p) \/ Release(p)
  BY <1>2, <1>o DEF Reclaim, Release, Unlinks, Rmdirs
<1>3. CASE CheckLedger(p) \/ Record(p) \/ Act(p)
  BY <1>3, <1>o DEF CheckLedger, Record, Act
<1>4. CASE Gone(p)
  BY <1>4, <1>o DEF Gone
<1>5. ASSUME NEW t \in Tokens, NEW b \in Requests, Ask(p, t, b) PROVE AskInv'
  BY <1>5, <1>o DEF Ask
<1> QED BY <1>1, <1>2, <1>3, <1>4, <1>5 DEF Step

\* A step of caller p keeps the account of grants and receipts.
LEMMA AccountKept ==
    ASSUME HeldTypeOK, AskInv, GrantsAreAccounted, NEW p \in Callers,
           Step(p) \/ (\E t \in Tokens, b \in Requests : Ask(p, t, b)) \/ Gone(p)
    PROVE  GrantsAreAccounted'
<1> USE DEF HeldTypeOK, Goes, Denied, Waits, GrantsAreAccounted
<1>o. \A q \in Callers \ {p} : pc'[q] = pc[q] /\ asks'[q] = asks[q]
  BY OneCaller
<1>1. CASE MakeDir(p) \/ Sign(p) \/ Look(p) \/ Age(p)
  BY <1>1, <1>o DEF MakeDir, Sign, Look, Age
<1>2. CASE Reclaim(p) \/ Release(p)
  BY <1>2, <1>o DEF Reclaim, Release, Unlinks, Rmdirs
<1>3. CASE CheckLedger(p) \/ Gone(p)
  BY <1>3, <1>o DEF CheckLedger, Gone
<1>4. CASE Record(p)
  BY <1>4, <1>o DEF Record
<1>5. CASE Act(p)
  <2> DEFINE new == [by |-> p, token |-> asks[p].token, binding |-> asks[p].binding,
                     at |-> asks[p].now]
  <2>1. /\ granted' = granted \cup {new} /\ UNCHANGED <<spent, unsynced>> /\ pc[p] = "act"
        /\ new.token = asks[p].token /\ new.binding = asks[p].binding /\ new.at = asks[p].now
    BY <1>5 DEF Act
  <2>2. /\ asks[p].token \in spent \cap Signed
        /\ Binding[asks[p].token] = asks[p].binding
        /\ asks[p].now <= Expires[asks[p].token]
    BY <2>1 DEF AskInv, Authorized, Verified
  <2> HIDE DEF new
  <2>3. \A t \in spent : \/ \E g \in granted' : g.token = t \/ t \in unsynced'
                         \/ \E q \in Callers : /\ asks'[q].token = t
                                             /\ pc'[q] \in {"unlink", "leave", "act", "gone"}
    BY <2>1, <1>o
  <2> QED BY <2>1, <2>2, <2>3
<1>6. ASSUME NEW t \in Tokens, NEW b \in Requests, Ask(p, t, b) PROVE GrantsAreAccounted'
  BY <1>6, <1>o DEF Ask
<1> QED BY <1>1, <1>2, <1>3, <1>4, <1>5, <1>6 DEF Step

\* A step of caller p keeps the lock's state while nobody has gone.
LEMMA LockKept ==
    ASSUME HeldTypeOK, LockInv, NEW p \in Callers,
           Step(p) \/ \E t \in Tokens, b \in Requests : Ask(p, t, b)
    PROVE  LockInv'
<1> SUFFICES ASSUME AllLive' PROVE LockInv'
  BY DEF LockInv
<1> USE DEF HeldTypeOK, Goes, Denied, Waits, LockInv, Inside, Marked, Unmarked
<1>o. \A q \in Callers \ {p} : pc'[q] = pc[q] /\ asks'[q] = asks[q]
  BY OneCaller
<1>a. AllLive
  BY CallerLives
<1>1. CASE MakeDir(p)
  BY <1>1, <1>o, <1>a DEF MakeDir
<1>2. CASE Sign(p)
  BY <1>2, <1>o, <1>a DEF Sign
<1>3. CASE Look(p)
  <2>1. ~(owner # Nil /\ pc[owner] = "gone")
    BY <1>a DEF AllLive
  <2> QED BY <1>3, <2>1, <1>o, <1>a DEF Look
<1>4. CASE Age(p) \/ Reclaim(p)
  BY <1>4, <1>a DEF Age, Reclaim, Unlinks, Rmdirs
<1>5. CASE CheckLedger(p) \/ Record(p) \/ Act(p)
  BY <1>5, <1>o, <1>a DEF CheckLedger, Record, Act
<1>6. CASE Release(p)
  <2>1. CASE Unlinks(p, "unlink", "leave") \/ Unlinks(p, "unlink_denied", "leave_denied")
    BY <2>1, <1>o, <1>a DEF Unlinks
  <2>2. CASE Rmdirs(p, "leave", "act") \/ Rmdirs(p, "leave_denied", "idle")
    BY <2>2, <1>o, <1>a DEF Rmdirs
  <2> QED BY <1>6, <2>1, <2>2 DEF Release
<1>7. ASSUME NEW t \in Tokens, NEW b \in Requests, Ask(p, t, b) PROVE LockInv'
  BY <1>7, <1>o, <1>a DEF Ask
<1> QED BY <1>1, <1>2, <1>3, <1>4, <1>5, <1>6, <1>7 DEF Step

\* A step of caller p keeps every receipt to one grant or one authorized caller,
\* while nobody has gone: between the look at the ledger and the receipt no
\* other caller can record, since the lock has one holder.
LEMMA LedgerKept ==
    ASSUME HeldTypeOK, AskInv, GrantsAreAccounted, LockInv, LedgerInv, NEW p \in Callers,
           Step(p) \/ \E t \in Tokens, b \in Requests : Ask(p, t, b)
    PROVE  LedgerInv'
<1> SUFFICES ASSUME AllLive' PROVE LedgerInv'
  BY DEF LedgerInv
<1> USE DEF HeldTypeOK, Goes, Denied, Waits, LedgerInv, Authorized, OneGrantPerToken
<1>o. \A q \in Callers \ {p} : pc'[q] = pc[q] /\ asks'[q] = asks[q]
  BY OneCaller
<1>a. AllLive
  BY CallerLives
<1>1. CASE MakeDir(p) \/ Sign(p) \/ Look(p) \/ Age(p)
  BY <1>1, <1>o, <1>a DEF MakeDir, Sign, Look, Age
<1>2. CASE Reclaim(p) \/ Release(p)
  BY <1>2, <1>o, <1>a DEF Reclaim, Release, Unlinks, Rmdirs
<1>3. CASE CheckLedger(p)
  BY <1>3, <1>o, <1>a DEF CheckLedger, Replay
<1>4. CASE Record(p)
  <2>1. /\ pc[p] = "record" /\ pc' \in {[pc EXCEPT ![p] = "unlink"], [pc EXCEPT ![p] = "unlink_denied"]}
        /\ spent' \in {spent, spent \cup {asks[p].token}} /\ UNCHANGED <<asks, granted>>
    BY <1>4 DEF Record
  <2>2. asks[p].token \notin spent
    BY <2>1, <1>a
  <2>3. \A q \in Callers \ {p} : pc[q] # "record"
    BY <2>1, <1>a DEF LockInv, Inside, Marked
  <2>4. \A g \in granted : g.token # asks[p].token
    BY <2>2 DEF GrantsAreAccounted
  <2>5. \A q \in Callers : Authorized(q) => asks[q].token # asks[p].token
    BY <2>2 DEF AskInv
  <2> QED BY <2>1, <2>3, <2>4, <2>5, <1>o, <1>a
<1>5. CASE Act(p)
  <2> DEFINE new == [by |-> p, token |-> asks[p].token, binding |-> asks[p].binding,
                     at |-> asks[p].now]
  <2>1. /\ granted' = granted \cup {new} /\ spent' = spent /\ pc[p] = "act"
        /\ pc' = [pc EXCEPT ![p] = "idle"] /\ new.token = asks[p].token
    BY <1>5 DEF Act
  <2> HIDE DEF new
  <2>2. \A q \in Callers \ {p} : Authorized(q) => asks[q].token # asks[p].token
    BY <2>1, <1>a
  <2>3. \A g \in granted : g.token # asks[p].token
    BY <2>1, <1>a
  <2> QED BY <2>1, <2>2, <2>3, <1>o, <1>a
<1>6. ASSUME NEW t \in Tokens, NEW b \in Requests, Ask(p, t, b) PROVE LedgerInv'
  BY <1>6, <1>o, <1>a DEF Ask
<1> QED BY <1>1, <1>2, <1>3, <1>4, <1>5, <1>6 DEF Step

\* Every step, a kill or the passing of time included, keeps HeldInv.
LEMMA HeldInvKept == HeldInv /\ [Next]_vars => HeldInv'
<1> SUFFICES ASSUME HeldInv, [Next]_vars PROVE HeldInv'
  OBVIOUS
<1> USE DEF HeldInv
<1>1. ASSUME NEW p \in Callers, Step(p) \/ \E t \in Tokens, b \in Requests : Ask(p, t, b)
      PROVE  HeldInv'
  BY <1>1, OneCaller, AskKept, AccountKept, LockKept, LedgerKept
<1>2. ASSUME NEW p \in Callers, Gone(p) PROVE HeldInv'
  <2>1. HeldTypeOK' /\ AskInv' /\ GrantsAreAccounted'
    BY <1>2, OneCaller, AskKept, AccountKept
  <2>2. ~AllLive'
    BY <1>2 DEF Gone, AllLive, HeldTypeOK
  <2> QED BY <2>1, <2>2 DEF LockInv, LedgerInv
<1>3. CASE Tick \/ UNCHANGED vars
  <2>1. UNCHANGED <<owner, pc, asks, spent, granted, unsynced>> /\ (dir' = "none" => dir = "none")
    BY <1>3 DEF Tick, vars
  <2> QED BY <2>1 DEF HeldTypeOK, AskInv, GrantsAreAccounted, LockInv, LedgerInv, AllLive,
                     Inside, Authorized, OneGrantPerToken
<1> QED BY <1>1, <1>2, <1>3 DEF Next, Live

(* GrantsAreAccounted of every caller, token and time: whatever callers     *)
(* overlap, wait or are killed, an authorization is for what the operator   *)
(* signed and leaves its receipt, and a receipt is spent by nobody else     *)
(* (authorize, consume).                                                    *)
THEOREM GrantsAccounted == Spec => []GrantsAreAccounted
<1>1. HeldInv => GrantsAreAccounted
  BY DEF HeldInv
<1> QED BY HeldInvInit, HeldInvKept, <1>1, PTL DEF Spec

(* The one-shot ledger holds for any number of callers and tokens as long   *)
(* as no caller has been killed with a part of the lock left behind.        *)
THEOREM OneShotWhileAllLive == Spec => [](AllLive => OneGrantPerToken)
<1>1. HeldInv => (AllLive => OneGrantPerToken)
  BY DEF HeldInv, LedgerInv
<1> QED BY HeldInvInit, HeldInvKept, <1>1, PTL DEF Spec

(* In particular, behaviours without kills never authorize two actions with *)
(* one token (held_action_gate.py, "one-shot consumption ledger").          *)
THEOREM LiveCallersOneShot == LiveSpec => []OneGrantPerToken
<1> DEFINE LiveInv == HeldInv /\ AllLive
<1>1. Init => LiveInv
  BY HeldInvInit DEF Init, AllLive
<1>2. ASSUME LiveInv, [Live]_vars PROVE LiveInv'
  <2>1. HeldInv'
    BY <1>2, HeldInvKept DEF Next
  <2>2. AllLive'
    <3>1. ASSUME NEW p \in Callers, Step(p) \/ \E t \in Tokens, b \in Requests : Ask(p, t, b)
          PROVE  AllLive'
      BY <1>2, <3>1, CallerLives DEF HeldInv
    <3>2. CASE Tick \/ UNCHANGED vars
      BY <1>2, <3>2 DEF Tick, vars, AllLive
    <3> QED BY <1>2, <3>1, <3>2 DEF Live
  <2> QED BY <2>1, <2>2
<1>3. LiveInv => OneGrantPerToken
  BY DEF HeldInv, LedgerInv
<1> QED BY <1>1, <1>2, <1>3, PTL DEF LiveSpec
=============================================================================
